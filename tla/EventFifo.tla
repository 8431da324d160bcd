------------------------------ MODULE EventFifo ------------------------------
(***************************************************************************)
(* What one inbound pipe of the bridge promises to the Bluetooth stack of  *)
(* the host: events are numbered in the order in which they are produced   *)
(* (by the dongle or by a fake Wiimote), they wait in a queue of at most   *)
(* Capacity events, and the host receives each of them at most once and    *)
(* in that order.  Only an event produced while the queue is full may be   *)
(* missing.  MsgBridge implements this module, pipe by pipe.               *)
(***************************************************************************)
EXTENDS Integers, Sequences

CONSTANT Capacity      \* events that may wait, the size of a ReadyQ

VARIABLES
    produced,          \* number of the last event produced
    queue,             \* numbers of the waiting events
    delivered          \* numbers of the events the host received

vars == <<produced, queue, delivered>>

TypeOK ==
    /\ produced \in Nat
    /\ queue \in Seq(Nat)
    /\ delivered \in Seq(Nat)
    /\ Len(queue) <= Capacity

Init ==
    /\ produced = 0
    /\ queue = <<>>
    /\ delivered = <<>>

\* An event is produced: it goes straight to a host that waits for one, or it
\* is queued, or, the queue being full, it is lost.
Produce ==
    /\ produced' = produced + 1
    /\ \/ /\ queue = <<>>
          /\ delivered' = Append(delivered, produced')
          /\ UNCHANGED queue
       \/ /\ Len(queue) < Capacity
          /\ queue' = Append(queue, produced')
          /\ UNCHANGED delivered
       \/ /\ Len(queue) = Capacity
          /\ UNCHANGED <<queue, delivered>>

\* The host asks for an event and receives the oldest one.
Take ==
    /\ queue # <<>>
    /\ delivered' = Append(delivered, Head(queue))
    /\ queue' = Tail(queue)
    /\ UNCHANGED produced

Next == Produce \/ Take

Spec == Init /\ [][Next]_vars

Increasing(s) == \A i, j \in DOMAIN s : i < j => s[i] < s[j]

\* The host receives the events in the order of their production, none twice,
\* whatever was lost in between.
InOrder == Increasing(delivered)
==============================================================================
