------------------------------ MODULE MsgBridge ------------------------------
(***************************************************************************)
(* The two inbound pipes between the Bluetooth stack of the host and OH1,  *)
(* the module that drives the USB dongle (main.c, injmessage.c): HCI       *)
(* events (interrupt endpoint) and ACL data (bulk-in endpoint).            *)
(*                                                                         *)
(* The host posts empty buffers.  fakemote keeps them in a PendingQ, hands *)
(* one message of its own (a single static one per pipe) down to OH1 to be *)
(* filled with real data, and fills the posted buffers with whatever comes *)
(* first: OH1's answer, or a message that a fake Wiimote injects, allocated *)
(* from one heap that both pipes share.  What finds no buffer waits in the *)
(* ReadyQ.                                                                 *)
(*                                                                         *)
(* A message is its address: an element of Cells for a block of the heap,  *)
(* and the name of the pipe itself for the pipe's hand-down message.  Its  *)
(* contents are the number of the event it carries.  Every hook runs to    *)
(* its end on OH1's one thread, so a handler is one action.                *)
(***************************************************************************)
EXTENDS Integers, Sequences, FiniteSets

CONSTANTS
    Pipes,          \* the interrupt and the bulk-in endpoint
    Buffers,        \* buffers the host owns for each pipe
    Cells,          \* blocks of the heap of injected messages
    ReadySize,      \* ReadySize[p]: capacity of the ReadyQ of p
    PendingSize,    \* PendingSize[p]: capacity of its PendingQ
    MaxEvents       \* bound on the events produced on one pipe

ASSUME PointerAssumption == Pipes \cap Cells = {}

ASSUME SizeAssumption ==
    /\ ReadySize \in [Pipes -> Nat \ {0}]
    /\ PendingSize \in [Pipes -> Nat \ {0}]
    /\ MaxEvents \in Nat

ASSUME BufferAssumption == Buffers # {} /\ IsFiniteSet(Buffers)

VARIABLES
    readyQ,          \* readyQ[p]: messages waiting for a buffer
    pendQ,           \* pendQ[p]: buffers waiting for a message
    handDownPending, \* the flag: OH1 has the hand-down message of p
    inOH1,           \* how many times OH1 really has it
    mem,             \* mem[m]: event carried by message m, 0 in a free block
    hostOwned,       \* buffers of each pipe that are with the host
    produced,        \* events produced on each pipe
    delivered        \* events the host received on each pipe, in order

vars == <<readyQ, pendQ, handDownPending, inOH1, mem, hostOwned, produced,
          delivered>>

Messages == Pipes \cup Cells

IsInjected(m) == m \in Cells

FreeCells == {c \in Cells : mem[c] = 0}

TypeOK ==
    /\ readyQ \in [Pipes -> Seq(Messages)]
    /\ pendQ \in [Pipes -> Seq(Buffers)]
    /\ handDownPending \in [Pipes -> BOOLEAN]
    /\ inOH1 \in [Pipes -> Nat]
    /\ mem \in [Messages -> Nat]
    /\ hostOwned \in [Pipes -> SUBSET Buffers]
    /\ produced \in [Pipes -> Nat]
    /\ delivered \in [Pipes -> Seq(Nat)]
    /\ \A p \in Pipes : /\ Len(readyQ[p]) <= ReadySize[p]
                        /\ Len(pendQ[p]) <= PendingSize[p]

Init ==
    /\ readyQ = [p \in Pipes |-> <<>>]
    /\ pendQ = [p \in Pipes |-> <<>>]
    /\ handDownPending = [p \in Pipes |-> FALSE]
    /\ inOH1 = [p \in Pipes |-> 0]
    /\ mem = [m \in Messages |-> 0]
    /\ hostOwned = [p \in Pipes |-> Buffers]
    /\ produced = [p \in Pipes |-> 0]
    /\ delivered = [p \in Pipes |-> <<>>]

-----------------------------------------------------------------------------
(* The definitions named ..._Without... and ..._With... are faulty variants: *)
(* each run of the model checker must tell them from the code.              *)

CopyAndAck_WithoutAck(p, b, m, memory, owned) ==
    /\ delivered' = [delivered EXCEPT ![p] = Append(@, memory[m])]
    /\ hostOwned' = [hostOwned EXCEPT ![p] = owned]
    /\ mem' = IF IsInjected(m) THEN [memory EXCEPT ![m] = 0] ELSE memory

-----------------------------------------------------------------------------
(* Copies message m into buffer b and acknowledges b, which gives it back to *)
(* the host; an injected message is freed.  memory is the memory once m has *)
(* been filled, and owned the buffers the host has besides b.               *)
CopyAndAck(p, b, m, memory, owned) ==
    /\ delivered' = [delivered EXCEPT ![p] = Append(@, memory[m])]
    /\ hostOwned' = [hostOwned EXCEPT ![p] = owned \cup {b}]
    /\ mem' = IF IsInjected(m) THEN [memory EXCEPT ![m] = 0] ELSE memory

ReadyMessage_WithoutFastPath(p, m, memory) ==
    /\ mem' = memory
    /\ readyQ' = IF Len(readyQ[p]) < ReadySize[p]
                    THEN [readyQ EXCEPT ![p] = Append(@, m)]
                    ELSE readyQ
    /\ UNCHANGED <<pendQ, hostOwned, delivered>>

ReadyMessage_WithoutCapacity(p, m, memory) ==
    \/ /\ pendQ[p] # <<>>
       /\ pendQ' = [pendQ EXCEPT ![p] = Tail(@)]
       /\ CopyAndAck(p, Head(pendQ[p]), m, memory, hostOwned[p])
       /\ UNCHANGED readyQ
    \/ /\ pendQ[p] = <<>>
       /\ mem' = memory
       /\ readyQ' = [readyQ EXCEPT ![p] = Append(@, m)]
       /\ UNCHANGED <<pendQ, hostOwned, delivered>>

ReadyMessage_WithOldestDropped(p, m, memory) ==
    \/ /\ pendQ[p] # <<>>
       /\ pendQ' = [pendQ EXCEPT ![p] = Tail(@)]
       /\ CopyAndAck(p, Head(pendQ[p]), m, memory, hostOwned[p])
       /\ UNCHANGED readyQ
    \/ /\ pendQ[p] = <<>>
       /\ mem' = memory
       /\ readyQ' = [readyQ EXCEPT ![p] =
                        Append(IF Len(@) < ReadySize[p] THEN @ ELSE Tail(@), m)]
       /\ UNCHANGED <<pendQ, hostOwned, delivered>>

\* A message became ready, from OH1 or injected: it fills the oldest pending
\* buffer, else it waits in the ReadyQ; when that is full the send fails and
\* the message is left where it is.
ReadyMessage(p, m, memory) ==
    \/ /\ pendQ[p] # <<>>
       /\ pendQ' = [pendQ EXCEPT ![p] = Tail(@)]
       /\ CopyAndAck(p, Head(pendQ[p]), m, memory, hostOwned[p])
       /\ UNCHANGED readyQ
    \/ /\ pendQ[p] = <<>>
       /\ mem' = memory
       /\ readyQ' = IF Len(readyQ[p]) < ReadySize[p]
                       THEN [readyQ EXCEPT ![p] = Append(@, m)]
                       ELSE readyQ
       /\ UNCHANGED <<pendQ, hostOwned, delivered>>

PostFilled_WithoutPop(p, b) ==
    /\ b \in hostOwned[p]
    /\ readyQ[p] # <<>>
    /\ CopyAndAck(p, b, Head(readyQ[p]), mem, hostOwned[p] \ {b})
    /\ UNCHANGED <<readyQ, pendQ, handDownPending, inOH1, produced>>

PostFilled_WithNewest(p, b) ==
    LET n == Len(readyQ[p]) IN
    /\ b \in hostOwned[p]
    /\ n > 0
    /\ readyQ' = [readyQ EXCEPT ![p] = SubSeq(@, 1, n - 1)]
    /\ CopyAndAck(p, b, readyQ[p][n], mem, hostOwned[p] \ {b})
    /\ UNCHANGED <<pendQ, handDownPending, inOH1, produced>>

\* The host posts buffer b and a message is ready: b is filled at once.
PostFilled(p, b) ==
    /\ b \in hostOwned[p]
    /\ readyQ[p] # <<>>
    /\ readyQ' = [readyQ EXCEPT ![p] = Tail(@)]
    /\ CopyAndAck(p, b, Head(readyQ[p]), mem, hostOwned[p] \ {b})
    /\ UNCHANGED <<pendQ, handDownPending, inOH1, produced>>

PostPending_WithoutFlagTest(p, b) ==
    /\ b \in hostOwned[p]
    /\ readyQ[p] = <<>>
    /\ Len(pendQ[p]) < PendingSize[p]
    /\ pendQ' = [pendQ EXCEPT ![p] = Append(@, b)]
    /\ hostOwned' = [hostOwned EXCEPT ![p] = @ \ {b}]
    /\ handDownPending' = [handDownPending EXCEPT ![p] = TRUE]
    /\ inOH1' = [inOH1 EXCEPT ![p] = @ + 1]
    /\ UNCHANGED <<readyQ, mem, produced, delivered>>

\* The host posts buffer b and none is ready: b is pushed to the PendingQ and,
\* unless OH1 has the hand-down message already, that is handed down.
PostPending(p, b) ==
    /\ b \in hostOwned[p]
    /\ readyQ[p] = <<>>
    /\ Len(pendQ[p]) < PendingSize[p]
    /\ pendQ' = [pendQ EXCEPT ![p] = Append(@, b)]
    /\ hostOwned' = [hostOwned EXCEPT ![p] = @ \ {b}]
    /\ handDownPending' = [handDownPending EXCEPT ![p] = TRUE]
    /\ inOH1' = IF handDownPending[p] THEN inOH1
                                      ELSE [inOH1 EXCEPT ![p] = @ + 1]
    /\ UNCHANGED <<readyQ, mem, produced, delivered>>

\* The host posts buffer b and the PendingQ is full: b is neither kept nor
\* handed down, nobody will ever acknowledge it.
PostLost(p, b) ==
    /\ b \in hostOwned[p]
    /\ readyQ[p] = <<>>
    /\ Len(pendQ[p]) = PendingSize[p]
    /\ hostOwned' = [hostOwned EXCEPT ![p] = @ \ {b}]
    /\ UNCHANGED <<readyQ, pendQ, handDownPending, inOH1, mem, produced,
                   delivered>>

HostPost(p) ==
    \E b \in Buffers : PostFilled(p, b) \/ PostPending(p, b) \/ PostLost(p, b)

\* A fake Wiimote injects an event.  The allocation fails, and nothing
\* changes, when the heap is exhausted.
Inject(p) ==
    /\ produced[p] < MaxEvents
    /\ produced' = [produced EXCEPT ![p] = @ + 1]
    /\ \E c \in FreeCells :
          ReadyMessage(p, c, [mem EXCEPT ![c] = produced[p] + 1])
    /\ UNCHANGED <<handDownPending, inOH1>>

OH1Reply_WithoutFlagReset(p) ==
    /\ inOH1[p] > 0
    /\ produced[p] < MaxEvents
    /\ inOH1' = [inOH1 EXCEPT ![p] = @ - 1]
    /\ produced' = [produced EXCEPT ![p] = @ + 1]
    /\ ReadyMessage(p, p, [mem EXCEPT ![p] = produced[p] + 1])
    /\ UNCHANGED handDownPending

\* OH1 answers the hand-down message, with data or with an error code: either
\* way it is acknowledged to the host in its turn.
OH1Reply(p) ==
    /\ inOH1[p] > 0
    /\ produced[p] < MaxEvents
    /\ inOH1' = [inOH1 EXCEPT ![p] = @ - 1]
    /\ handDownPending' = [handDownPending EXCEPT ![p] = FALSE]
    /\ produced' = [produced EXCEPT ![p] = @ + 1]
    /\ ReadyMessage(p, p, [mem EXCEPT ![p] = produced[p] + 1])

Next == \E p \in Pipes : HostPost(p) \/ Inject(p) \/ OH1Reply(p)

Spec == Init /\ [][Next]_vars

\* The host posts the buffers that come back to it; nothing is assumed of the
\* dongle, which may have nothing to say, nor of the fake Wiimotes.
Fairness == \A p \in Pipes : WF_vars(HostPost(p))

LiveSpec == Spec /\ Fairness

-----------------------------------------------------------------------------
\* A message never waits while a buffer does: either queue of a pipe is empty
\* (the fast paths of both handlers).
NotBothQueued == \A p \in Pipes : readyQ[p] = <<>> \/ pendQ[p] = <<>>

\* The one hand-down message of a pipe is never in two hands: OH1 has it at
\* most once, and not while it waits in the ReadyQ with data the host has not
\* yet received, which OH1 would overwrite.
HandDownNotAliased ==
    \A p \in Pipes :
        /\ inOH1[p] <= 1
        /\ inOH1[p] = 1 => \A i \in DOMAIN readyQ[p] : readyQ[p][i] # p

\* A queued message is allocated, and queued once, on one pipe, although the
\* pipes share the heap: copying and freeing one never touches another.
QueuedOnce ==
    \A p, q \in Pipes : \A i \in DOMAIN readyQ[p], j \in DOMAIN readyQ[q] :
        /\ readyQ[p][i] = readyQ[q][j] => p = q /\ i = j
        /\ IsInjected(readyQ[p][i]) => readyQ[p][i] \notin FreeCells

\* A pipe cannot get stuck: there is always a buffer the host may still post,
\* or OH1 has the hand-down message; a buffer is dropped on a full PendingQ
\* only while OH1 has it, never the last thing that could move the pipe.
NeverStuck == \A p \in Pipes : hostOwned[p] # {} \/ inOH1[p] > 0

\* A buffer is lost only at a full PendingQ: where the host has no more buffers
\* than that, each is either with the host or pending, and once.
BuffersAccounted ==
    \A p \in Pipes : Cardinality(Buffers) <= PendingSize[p] =>
        /\ hostOwned[p] \cup {pendQ[p][i] : i \in DOMAIN pendQ[p]} = Buffers
        /\ \A i, j \in DOMAIN pendQ[p] :
              /\ pendQ[p][i] \notin hostOwned[p]
              /\ pendQ[p][i] = pendQ[p][j] => i = j

\* An event that was queued is delivered, whatever else is injected.
QueuedDelivered ==
    \A p \in Pipes : \A n \in 1..MaxEvents :
        (\E i \in DOMAIN readyQ[p] : mem[readyQ[p][i]] = n)
            ~> (\E i \in DOMAIN delivered[p] : delivered[p][i] = n)

\* A pending buffer does not wait for the fake Wiimotes alone: OH1 gets the
\* hand-down message, again after every answer of it.
PendingHandedDown == \A p \in Pipes : pendQ[p] # <<>> ~> inOH1[p] > 0

\* Each pipe is a first-in first-out queue of events.
Fifo(p) == INSTANCE EventFifo WITH
    Capacity <- ReadySize[p],
    produced <- produced[p],
    queue <- [i \in DOMAIN readyQ[p] |-> mem[readyQ[p][i]]],
    delivered <- delivered[p]

\* The bridge implements the abstract queue on every pipe: no event is
\* duplicated, reordered, overwritten in its message or lost unless the ReadyQ
\* is full, although messages of OH1 and of the fake Wiimotes share it.
PipesAreFifos ==
    /\ \A p \in Pipes : Fifo(p)!Init
    /\ [][\A p \in Pipes : [Fifo(p)!Next]_(Fifo(p)!vars)]_vars
==============================================================================
