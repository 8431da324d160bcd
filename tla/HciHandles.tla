------------------------------- MODULE HciHandles -------------------------------
(***************************************************************************)
(* Commands and events with a connection handle (hci_state.c, used through *)
(* HciState): a command of the host has its virtual handle replaced by the *)
(* physical one, an event of the dongle the other way round, and complete  *)
(* connections and disconnections, if they succeeded, change the table.    *)
(* Fake Wiimotes take handles from the same counter, without an entry.     *)
(*                                                                         *)
(* Fakemote has the peers, resets and losses; here are the answers to      *)
(* commands, events of failures, and a counter that wraps.                 *)
(***************************************************************************)
EXTENDS HciState, Sequences

CONSTANTS
    Phys,       \* handles of the dongle
    MaxCons,    \* connections that may be made
    InFlight    \* events that may be on their way

ASSUME HandlesAssumption ==
    /\ Phys \subseteq Nat
    /\ MaxCons \in Nat /\ InFlight \in Nat

\* A controller has at most seven connections, the table 32 entries.
ASSUME TableAssumption == IsFiniteSet(Phys) /\ Cardinality(Phys) <= NumEntries

VARIABLES
    hci,        \* the tracker
    link,       \* the dongle: which connection each of its handles has
    fakes,      \* connections of fake Wiimotes, and their handles
    usb,        \* events of the dongle that fakemote has not seen
    evtQ,       \* events that the host has not read
    host,       \* the connection the host knows by each handle, and the last
                \* answer it read
    taken,      \* the handles taken, in order, each with its connection
    crowded,    \* a handle was taken while NumHandles connections, or more, were
                \* made since the oldest that is open
    made,       \* connections made
    hung        \* the assertion that stopped the module, "no" if none

vars == <<hci, link, fakes, usb, evtQ, host, taken, crowded, made, hung>>

None == 0
Cons == 1..MaxCons

-----------------------------------------------------------------------------
(* Every event carries, for the properties, the connection that it is about. *)

Event(type, ok, handle, con) == [type |-> type, ok |-> ok, handle |-> handle, con |-> con]

Sends(e) ==
    /\ Len(usb) + Len(evtQ) < InFlight
    /\ usb' = Append(usb, e)

\* The connections that someone still knows of.
Open == {c \in Cons : \/ \E p \in Phys : link[p] = c
                      \/ \E f \in fakes : f.con = c
                      \/ \E v \in VirtHandles : host.con[v] = c
                      \/ \E q \in {usb, evtQ} : \E i \in DOMAIN q : q[i].con = c}

Take(c) ==
    /\ taken' = Append(taken, [con |-> c, handle |-> hci.last])
    /\ crowded' = (crowded \/ \E i \in 1..(Len(taken) + 1 - NumHandles) :
                                  taken[i].con \in Open)

-----------------------------------------------------------------------------
(* The dongle and the Wiimotes                                              *)

\* The dongle uses a handle again once its last connection's events were fetched.
RealConnects(p) ==
    /\ made < MaxCons /\ link[p] = None
    /\ ~\E i \in DOMAIN usb : usb[i].ok /\ usb[i].handle = p
    /\ made' = made + 1
    /\ link' = [link EXCEPT ![p] = made + 1]
    /\ Sends(Event("connected", TRUE, p, made + 1))
    /\ UNCHANGED <<hci, fakes, evtQ, host, taken, crowded, hung>>

\* A connection that could not be made; the handle means nothing.
RealFails(p) ==
    /\ link[p] = None
    /\ Sends(Event("connected", FALSE, p, None))
    /\ UNCHANGED <<hci, link, fakes, evtQ, host, taken, crowded, made, hung>>

RealLeaves(p) ==
    /\ link[p] # None
    /\ link' = [link EXCEPT ![p] = None]
    /\ Sends(Event("disconnected", TRUE, p, link[p]))
    /\ UNCHANGED <<hci, fakes, evtQ, host, taken, crowded, made, hung>>

\* An active fake Wiimote's request is accepted (AcceptCon of Fakemote).
FakeConnects ==
    /\ made < MaxCons /\ Len(usb) + Len(evtQ) < InFlight
    /\ made' = made + 1
    /\ Take(made + 1)
    /\ hci' = VirtAlloc(hci)
    /\ fakes' = fakes \cup {[con |-> made + 1, handle |-> hci.last]}
    /\ evtQ' = Append(evtQ, Event("connected", TRUE, hci.last, made + 1))
    /\ UNCHANGED <<link, usb, host, hung>>

FakeLeaves(f) ==
    /\ f \in fakes /\ Len(usb) + Len(evtQ) < InFlight
    /\ fakes' = fakes \ {f}
    /\ evtQ' = Append(evtQ, Event("disconnected", TRUE, f.handle, f.con))
    /\ UNCHANGED <<hci, link, usb, host, taken, crowded, made, hung>>

-----------------------------------------------------------------------------
(* Commands of the host                                                     *)

IsFake(v) == \E f \in fakes : f.handle = v

\* TRANSLATE_CON_HANDLE of hci_state_handle_hci_cmd_from_host, and what the
\* dongle makes of the command: an event with the handle answers it (a Command
\* Complete event with one is not translated by the code, and not modelled), a
\* handle it does not have (any more) is answered by a status without one; it may
\* fail to disconnect.
HostCommands(v, what, ok) ==
    /\ host.con[v] # None /\ ~IsFake(v)
    /\ what = "disconnected" \/ ok
    /\ IF WithVirt(hci, v) = {}
       THEN hung' = "command" /\ UNCHANGED <<link, usb>>
       ELSE LET p == GetPhys(hci, v) IN
            /\ hung' = hung
            /\ IF link[p] = None THEN UNCHANGED <<link, usb>>
               ELSE /\ Sends(Event(what, ok, p, host.con[v]))
                    /\ link' = IF what = "disconnected" /\ ok
                               THEN [link EXCEPT ![p] = None] ELSE link
    /\ host' = [host EXCEPT !.con[v] = IF what = "disconnected" /\ ok THEN None ELSE @,
                            !.answer = <<>>]
    /\ UNCHANGED <<hci, fakes, evtQ, taken, crowded, made>>

-----------------------------------------------------------------------------
(* Events of the dongle                                                     *)

\* A faulty variant that the runs must tell from the code.
Unmaps_WithoutStatus(e) == e.type = "disconnected"

Maps(e) == e.type = "connected" /\ e.ok
Unmaps(e) == e.type = "disconnected" /\ e.ok

\* The events whose handle is translated by the table.
Translated(e) == e.type = "event" \/ Unmaps(e)

\* hci_state_handle_hci_event_from_controller
OH1Event ==
    /\ usb # <<>>
    /\ usb' = Tail(usb)
    /\ LET e == Head(usb) IN
       IF Maps(e)
       THEN IF Free(hci) = {} THEN hung' = "map" /\ UNCHANGED <<hci, evtQ, taken, crowded>>
            ELSE /\ hci' = MapHandle(VirtAlloc(hci), e.handle, hci.last)
                 /\ evtQ' = Append(evtQ, [e EXCEPT !.handle = hci.last])
                 /\ Take(e.con)
                 /\ UNCHANGED hung
       ELSE IF Translated(e) /\ WithPhys(hci, e.handle) = {}
       THEN hung' = "event" /\ UNCHANGED <<hci, evtQ, taken, crowded>>
       ELSE LET v == IF Translated(e) THEN GetVirt(hci, e.handle) ELSE e.handle IN
            /\ hci' = IF Unmaps(e) THEN UnmapVirt(hci, v) ELSE hci
            /\ evtQ' = Append(evtQ, [e EXCEPT !.handle = v])
            /\ UNCHANGED <<taken, crowded, hung>>
    /\ UNCHANGED <<link, fakes, host, made>>

Reads(h, e) ==
    IF ~e.ok THEN [h EXCEPT !.answer = <<>>]
    ELSE CASE e.type = "connected" -> [h EXCEPT !.con[e.handle] = e.con, !.answer = <<>>]
           [] e.type = "disconnected" -> [h EXCEPT !.con[e.handle] = None, !.answer = <<>>]
           [] OTHER -> [h EXCEPT !.answer = <<e>>]

HostRead ==
    /\ evtQ # <<>>
    /\ evtQ' = Tail(evtQ)
    /\ host' = Reads(host, Head(evtQ))
    /\ UNCHANGED <<hci, link, fakes, usb, taken, crowded, made, hung>>

Init ==
    /\ hci = HciReset
    /\ link = [p \in Phys |-> None]
    /\ fakes = {}
    /\ usb = <<>>
    /\ evtQ = <<>>
    /\ host = [con |-> [v \in VirtHandles |-> None], answer |-> <<>>]
    /\ taken = <<>>
    /\ crowded = FALSE
    /\ made = 0
    /\ hung = "no"

Next ==
    /\ hung = "no"
    /\ \/ \E p \in Phys : RealConnects(p) \/ RealFails(p) \/ RealLeaves(p)
       \/ FakeConnects
       \/ \E f \in fakes : FakeLeaves(f)
       \/ \E v \in VirtHandles, what \in {"event", "disconnected"}, ok \in BOOLEAN :
             HostCommands(v, what, ok)
       \/ OH1Event
       \/ HostRead

Spec == Init /\ [][Next]_vars

-----------------------------------------------------------------------------
(* Properties                                                               *)

\* The comment in hci_con_handle_virt_alloc knows of collisions after the counter
\* has wrapped.  There are none, wrapped or not, unless the oldest open connection
\* has seen as many others made as there are handles.
HandlesDistinct ==
    ~crowded =>
      \A i, j \in DOMAIN taken :
        i # j /\ {taken[i].con, taken[j].con} \subseteq Open
          => taken[i].handle # taken[j].handle

\* The assertions on the handle of an event: the dongle's handle has an entry,
\* although connections fail, disconnections fail and handles are used again, and
\* there is an entry for a new one.
EventHandleKnown == ~crowded => hung \notin {"event", "map"}

\* An answer that the host reads names the connection that the command was for.
AnswerNamesConnection ==
    ~crowded /\ host.answer # <<>> =>
      LET a == host.answer[1] IN
      \E i \in DOMAIN taken : taken[i] = [con |-> a.con, handle |-> a.handle]
================================================================================
