-------------------------------- MODULE LinkKeys --------------------------------
(***************************************************************************)
(* How a host that reads the stored link keys learns of those of the fake  *)
(* Wiimotes (fake_wiimote_mgr.c, hci_state.c): when it reads all of them,  *)
(* an event with the keys of the fake Wiimotes is injected at once, the    *)
(* command goes on to the dongle, and the counts in the dongle's Command   *)
(* Complete event are raised.  Nothing in that event tells which command   *)
(* it answers; the tracker remembers what was asked last.                  *)
(***************************************************************************)
EXTENDS Naturals, Sequences

CONSTANTS
    Fakes,      \* MAX_FAKE_WIIMOTES
    Stored,     \* numbers of keys that a dongle may have
    Window,     \* commands the host may send before the first is answered
    EvtCap      \* events that can wait for the host

LinkKeysAssumption ==
    /\ Fakes \in Nat \ {0} /\ Stored \subseteq Nat
    /\ Window \in Nat \ {0} /\ EvtCap \in Nat \ {0}

VARIABLES
    readAll,    \* hci_read_stored_link_key_read_all
    keys,       \* how many keys the dongle has
    dongle,     \* commands it has not answered, and what it has said of the
                \* first one
    usb,        \* events of the dongle that fakemote has not seen
    evtQ,       \* events on their way to the host
    lost,       \* an event found no room
    host        \* commands not answered, keys counted, and the last answer

vars == <<readAll, keys, dongle, usb, evtQ, lost, host>>

-----------------------------------------------------------------------------
(* The definition named ..._Without... is a faulty variant that the runs     *)
(* must tell from the code.                                                  *)

Keys(n) == [type |-> "keys", n |-> n]
Complete(n) == [type |-> "complete", n |-> n]
ResetDone == [type |-> "reset_done"]

Send(e) ==
    /\ evtQ' = IF Len(evtQ) < EvtCap THEN Append(evtQ, e) ELSE evtQ
    /\ lost' = (lost \/ Len(evtQ) >= EvtCap)

Requested_WithoutOne(all) == readAll \/ all

\* HCI_CMD_READ_STORED_LINK_KEY in the tracker
Requested(all) == all

\* The same in the manager, which is asked first: the result of the injection
\* is ignored, and the command handed on.  A key of a fake Wiimote alone is
\* never asked for: the code asserts so.
HostReads(all) ==
    /\ Len(host.sent) < Window /\ ~host.resetting
    /\ IF all THEN Send(Keys(Fakes)) ELSE UNCHANGED <<evtQ, lost>>
    /\ readAll' = Requested(all)
    /\ dongle' = Append(dongle, [all |-> all, said |-> FALSE])
    /\ host' = [host EXCEPT !.sent = Append(@, all), !.answer = <<>>]
    /\ UNCHANGED <<keys, usb>>

\* HCI_CMD_RESET: hci_state_reset; the dongle drops what it was asked, and the
\* host what it reads until the reset is answered.
HostResets ==
    /\ ~host.resetting
    /\ readAll' = FALSE
    /\ dongle' = <<>>
    /\ usb' = Append(usb, ResetDone)
    /\ host' = [sent |-> <<>>, counted |-> 0, resetting |-> TRUE, answer |-> <<>>]
    /\ UNCHANGED <<keys, evtQ, lost>>

\* The dongle answers its oldest command: an event with the keys, if there are
\* any, and a Command Complete event with their number.
DongleSays(n) ==
    /\ dongle # <<>> /\ Len(usb) < 3
    /\ n = IF Head(dongle).all THEN keys ELSE 1
    /\ n <= keys
    /\ IF n > 0 /\ ~Head(dongle).said
       THEN usb' = Append(usb, Keys(n)) /\ dongle' = [dongle EXCEPT ![1].said = TRUE]
       ELSE usb' = Append(usb, Complete(n)) /\ dongle' = Tail(dongle)
    /\ UNCHANGED <<readAll, keys, evtQ, lost, host>>

\* A single key that it does not have.
DongleHasNone ==
    /\ dongle # <<>> /\ ~Head(dongle).all /\ ~Head(dongle).said /\ Len(usb) < 3
    /\ usb' = Append(usb, Complete(0))
    /\ dongle' = Tail(dongle)
    /\ UNCHANGED <<readAll, keys, evtQ, lost, host>>

\* HCI_EVENT_COMMAND_COMPL in the tracker
Patched(e) == IF e.type = "complete" /\ readAll THEN Complete(e.n + Fakes) ELSE e

OH1Event ==
    /\ usb # <<>>
    /\ usb' = Tail(usb)
    /\ Send(Patched(Head(usb)))
    /\ UNCHANGED <<readAll, keys, dongle, host>>

\* The host reads an event: it counts keys, and compares the number when the
\* command is complete.
Counts(h, e) ==
    IF e.type = "reset_done" THEN [h EXCEPT !.resetting = FALSE]
    ELSE IF h.resetting THEN h
    ELSE CASE e.type = "keys" -> [h EXCEPT !.counted = @ + e.n, !.answer = <<>>]
           [] e.type = "complete" ->
                [h EXCEPT !.sent = Tail(@), !.counted = 0,
                          !.answer = <<[all |-> Head(h.sent), told |-> e.n,
                                        counted |-> h.counted]>>]

HostRead ==
    /\ evtQ # <<>>
    /\ evtQ' = Tail(evtQ)
    /\ host' = Counts(host, Head(evtQ))
    /\ UNCHANGED <<readAll, keys, dongle, usb, lost>>

Init ==
    /\ readAll = FALSE
    /\ keys \in Stored
    /\ dongle = <<>>
    /\ usb = <<>>
    /\ evtQ = <<>>
    /\ lost = FALSE
    /\ host = [sent |-> <<>>, counted |-> 0, resetting |-> FALSE, answer |-> <<>>]

Next ==
    \/ \E all \in BOOLEAN : HostReads(all)
    \/ HostResets
    \/ \E n \in Stored \cup {1} : DongleSays(n)
    \/ DongleHasNone
    \/ OH1Event
    \/ HostRead

Spec == Init /\ [][Next]_vars

-----------------------------------------------------------------------------
(* Properties                                                               *)

\* The Command Complete event that the host reads announces as many keys as it
\* has been given since the command, those of the fake Wiimotes among them, when
\* it asked for all; neither a reset nor an earlier command confuses the count.
\* It is not so when an event was lost.
KeysAnnounced ==
    ~lost /\ host.answer # <<>> =>
      LET a == host.answer[1] IN
      /\ a.told = a.counted
      /\ IF a.all THEN a.told = keys + Fakes ELSE a.told <= 1
================================================================================
