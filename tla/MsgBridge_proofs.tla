--------------------------- MODULE MsgBridge_proofs ---------------------------
(***************************************************************************)
(* What holds of the bridge for any number of pipes, buffers, heap blocks  *)
(* and queue capacities.                                                   *)
(***************************************************************************)
EXTENDS MsgBridge, SequenceTheorems, FiniteSetTheorems, TLAPS

(***************************************************************************)
(* The queue operations of IOS on sequences, element by element.           *)
(***************************************************************************)
LEMMA TailSeq ==
    ASSUME NEW S, NEW s \in Seq(S), s # <<>>
    PROVE  /\ Len(s) \in Nat \ {0}
           /\ Head(s) \in S /\ Head(s) = s[1] /\ 1 \in DOMAIN s
           /\ Tail(s) \in Seq(S) /\ Len(Tail(s)) = Len(s) - 1
           /\ DOMAIN Tail(s) = 1..(Len(s) - 1)
           /\ \A i \in DOMAIN Tail(s) : /\ i + 1 \in DOMAIN s
                                       /\ Tail(s)[i] = s[i + 1]
<1>1. Len(s) \in Nat \ {0} /\ DOMAIN s = 1..Len(s)
  BY EmptySeq, LenProperties
<1>2. Head(s) = s[1]
  BY <1>1
<1>3. /\ Head(s) \in S
      /\ Tail(s) \in Seq(S) /\ Len(Tail(s)) = Len(s) - 1
      /\ \A i \in 1 .. Len(Tail(s)) : Tail(s)[i] = s[i+1]
  BY HeadTailProperties
<1>4. DOMAIN Tail(s) = 1..(Len(s) - 1)
  BY <1>3, LenProperties
<1>. QED BY <1>1, <1>2, <1>3, <1>4

LEMMA AppendSeq ==
    ASSUME NEW S, NEW s \in Seq(S), NEW e \in S
    PROVE  /\ Len(s) \in Nat /\ DOMAIN s = 1..Len(s)
           /\ Append(s, e) \in Seq(S) /\ Len(Append(s, e)) = Len(s) + 1
           /\ DOMAIN Append(s, e) = 1..(Len(s) + 1)
           /\ \A i \in DOMAIN s : Append(s, e)[i] = s[i]
           /\ Append(s, e)[Len(s) + 1] = e
<1>1. Len(s) \in Nat /\ DOMAIN s = 1..Len(s)
  BY LenProperties
<1>2. Append(s, e) \in Seq(S) /\ Len(Append(s, e)) = Len(s) + 1
  BY AppendProperties
<1>3. DOMAIN Append(s, e) = 1..(Len(s) + 1)
  BY <1>2, LenProperties
<1>4. /\ \A i \in 1..Len(s) : Append(s, e)[i] = s[i]
      /\ Append(s, e)[Len(s) + 1] = e
  BY AppendProperties
<1>. QED BY <1>1, <1>2, <1>3, <1>4

(***************************************************************************)
(* Type correctness.  Both producers of messages, Inject and OH1Reply, end *)
(* in ReadyMessage, which is treated once.                                 *)
(***************************************************************************)
LEMMA ReadyMessageType ==
    ASSUME TypeOK,
           NEW p \in Pipes, NEW m \in Messages, NEW memory \in [Messages -> Nat],
           ReadyMessage(p, m, memory)
    PROVE  /\ readyQ' \in [Pipes -> Seq(Messages)]
           /\ pendQ' \in [Pipes -> Seq(Buffers)]
           /\ mem' \in [Messages -> Nat]
           /\ hostOwned' \in [Pipes -> SUBSET Buffers]
           /\ delivered' \in [Pipes -> Seq(Nat)]
           /\ \A q \in Pipes : /\ Len(readyQ'[q]) <= ReadySize[q]
                               /\ Len(pendQ'[q]) <= PendingSize[q]
<1>1. CASE pendQ[p] # <<>>
  <2>1. /\ Head(pendQ[p]) \in Buffers
        /\ Tail(pendQ[p]) \in Seq(Buffers)
        /\ Len(Tail(pendQ[p])) <= PendingSize[p]
    BY <1>1, SizeAssumption DEF TypeOK
  <2>2. memory[m] \in Nat /\ Append(delivered[p], memory[m]) \in Seq(Nat)
    BY DEF TypeOK
  <2>3. /\ pendQ' = [pendQ EXCEPT ![p] = Tail(@)]
        /\ CopyAndAck(p, Head(pendQ[p]), m, memory, hostOwned[p])
        /\ UNCHANGED readyQ
    BY <1>1 DEF ReadyMessage
  <2>. QED BY <2>1, <2>2, <2>3 DEF TypeOK, CopyAndAck
<1>2. CASE pendQ[p] = <<>>
  <2>1. /\ mem' = memory
        /\ readyQ' = IF Len(readyQ[p]) < ReadySize[p]
                        THEN [readyQ EXCEPT ![p] = Append(@, m)]
                        ELSE readyQ
        /\ UNCHANGED <<pendQ, hostOwned, delivered>>
    BY <1>2 DEF ReadyMessage
  <2>2. /\ Append(readyQ[p], m) \in Seq(Messages)
        /\ Len(readyQ[p]) < ReadySize[p]
              => Len(Append(readyQ[p], m)) <= ReadySize[p]
    BY SizeAssumption DEF TypeOK
  <2>. QED BY <2>1, <2>2 DEF TypeOK
<1>. QED BY <1>1, <1>2

LEMMA TypeInit == Init => TypeOK
BY SizeAssumption DEF Init, TypeOK

LEMMA TypeNext == TypeOK /\ [Next]_vars => TypeOK'
<1>. SUFFICES ASSUME TypeOK, [Next]_vars
              PROVE  TypeOK'
  OBVIOUS
<1>1. ASSUME NEW p \in Pipes, NEW b \in Buffers, PostFilled(p, b)
      PROVE  TypeOK'
  <2>1. /\ Head(readyQ[p]) \in Messages
        /\ Tail(readyQ[p]) \in Seq(Messages)
        /\ Len(Tail(readyQ[p])) <= ReadySize[p]
    <3>1. readyQ[p] # <<>> /\ readyQ[p] \in Seq(Messages)
      BY <1>1 DEF TypeOK, PostFilled
    <3>2. Len(readyQ[p]) <= ReadySize[p] /\ ReadySize[p] \in Nat
      BY SizeAssumption DEF TypeOK
    <3>. QED BY <3>1, <3>2, TailSeq
  <2>2. Append(delivered[p], mem[Head(readyQ[p])]) \in Seq(Nat)
    BY <2>1 DEF TypeOK
  <2>. QED BY <1>1, <2>1, <2>2 DEF TypeOK, PostFilled, CopyAndAck
<1>2. ASSUME NEW p \in Pipes, NEW b \in Buffers, PostPending(p, b)
      PROVE  TypeOK'
  <2>1. /\ Append(pendQ[p], b) \in Seq(Buffers)
        /\ Len(Append(pendQ[p], b)) <= PendingSize[p]
    <3>1. Len(pendQ[p]) < PendingSize[p] /\ pendQ[p] \in Seq(Buffers)
      BY <1>2 DEF TypeOK, PostPending
    <3>2. PendingSize[p] \in Nat
      BY SizeAssumption
    <3>. QED BY <3>1, <3>2, AppendSeq
  <2>. QED BY <1>2, <2>1 DEF TypeOK, PostPending
<1>3. ASSUME NEW p \in Pipes, NEW b \in Buffers, PostLost(p, b)
      PROVE  TypeOK'
  BY <1>3 DEF TypeOK, PostLost
<1>4. ASSUME NEW p \in Pipes, Inject(p)
      PROVE  TypeOK'
  <2>1. PICK c \in FreeCells :
           ReadyMessage(p, c, [mem EXCEPT ![c] = produced[p] + 1])
    BY <1>4 DEF Inject
  <2>2. /\ c \in Messages
        /\ [mem EXCEPT ![c] = produced[p] + 1] \in [Messages -> Nat]
    BY DEF TypeOK, FreeCells, Messages
  <2>3. /\ produced' \in [Pipes -> Nat]
        /\ UNCHANGED <<handDownPending, inOH1>>
    BY <1>4 DEF Inject, TypeOK
  <2>. QED BY <2>1, <2>2, <2>3, ReadyMessageType DEF TypeOK
<1>5. ASSUME NEW p \in Pipes, OH1Reply(p)
      PROVE  TypeOK'
  <2>1. /\ p \in Messages
        /\ [mem EXCEPT ![p] = produced[p] + 1] \in [Messages -> Nat]
    BY DEF TypeOK, Messages
  <2>2. /\ produced' \in [Pipes -> Nat]
        /\ inOH1' \in [Pipes -> Nat]
        /\ handDownPending' \in [Pipes -> BOOLEAN]
    BY <1>5 DEF OH1Reply, TypeOK
  <2>3. ReadyMessage(p, p, [mem EXCEPT ![p] = produced[p] + 1])
    BY <1>5 DEF OH1Reply
  <2>. QED BY <2>1, <2>2, <2>3, ReadyMessageType DEF TypeOK
<1>6. CASE UNCHANGED vars
  BY <1>6 DEF TypeOK, vars
<1>. QED BY <1>1, <1>2, <1>3, <1>4, <1>5, <1>6 DEF Next, HostPost

(***************************************************************************)
(* The queues keep to their capacities and the messages are well-formed,   *)
(* whatever the host, the dongle and the fake Wiimotes do.                 *)
(***************************************************************************)
THEOREM TypeCorrect == Spec => []TypeOK
BY TypeInit, TypeNext, PTL DEF Spec

(***************************************************************************)
(* The inductive invariant.  The flag is the truth about OH1, a queued     *)
(* message is a block of the heap or the hand-down message of that pipe,   *)
(* and no message is in two places.                                        *)
(***************************************************************************)
FlagTrue == \A p \in Pipes : inOH1[p] = IF handDownPending[p] THEN 1 ELSE 0

Placed == \A p \in Pipes : \A i \in DOMAIN readyQ[p] :
              readyQ[p][i] \in Cells \cup {p}

BridgeInv ==
    /\ TypeOK
    /\ FlagTrue
    /\ Placed
    /\ NotBothQueued
    /\ QueuedOnce
    /\ HandDownNotAliased

LEMMA BridgeInvInit == Init => BridgeInv
<1>. SUFFICES ASSUME Init PROVE BridgeInv
  OBVIOUS
<1>1. TypeOK
  BY TypeInit
<1>2. \A p \in Pipes : readyQ[p] = <<>> /\ DOMAIN readyQ[p] = {}
  <2>1. DOMAIN <<>> = {}
    BY EmptySeq, LenProperties
  <2>. QED BY <2>1 DEF Init
<1>. QED BY <1>1, <1>2 DEF Init, BridgeInv, FlagTrue, Placed, NotBothQueued,
              QueuedOnce, HandDownNotAliased

\* A message that is not queued becomes ready: the queues keep their shape.
LEMMA ReadyMessageInv ==
    ASSUME BridgeInv,
           NEW p \in Pipes, NEW m \in Cells \cup {p},
           NEW memory \in [Messages -> Nat],
           memory[m] # 0,
           \A x \in Messages \ {m} : memory[x] = mem[x],
           \A q \in Pipes : \A i \in DOMAIN readyQ[q] : readyQ[q][i] # m,
           ReadyMessage(p, m, memory)
    PROVE  /\ Placed' /\ NotBothQueued' /\ QueuedOnce'
           /\ \A q \in Pipes : \A i \in DOMAIN readyQ'[q] :
                 \/ \E j \in DOMAIN readyQ[q] : readyQ'[q][i] = readyQ[q][j]
                 \/ q = p /\ readyQ'[q][i] = m
<1>m. m \in Messages
  BY DEF Messages
<1>1. CASE pendQ[p] # <<>>
  <2>1. /\ pendQ' = [pendQ EXCEPT ![p] = Tail(@)]
        /\ CopyAndAck(p, Head(pendQ[p]), m, memory, hostOwned[p])
        /\ UNCHANGED readyQ
    BY <1>1 DEF ReadyMessage
  <2>2. \A x \in Messages \ {m} : mem'[x] = mem[x]
    BY <2>1 DEF CopyAndAck
  <2>3. readyQ[p] = <<>>
    BY <1>1 DEF BridgeInv, NotBothQueued
  <2>4. NotBothQueued'
    BY <2>1, <2>3 DEF BridgeInv, NotBothQueued, TypeOK
  <2>5. QueuedOnce'
    BY <2>1, <2>2 DEF BridgeInv, QueuedOnce, FreeCells, Messages
  <2>. QED BY <2>1, <2>4, <2>5 DEF BridgeInv, Placed
<1>2. CASE pendQ[p] = <<>>
  <2>1. /\ mem' = memory
        /\ readyQ' = IF Len(readyQ[p]) < ReadySize[p]
                        THEN [readyQ EXCEPT ![p] = Append(@, m)]
                        ELSE readyQ
        /\ UNCHANGED <<pendQ, hostOwned, delivered>>
    BY <1>2 DEF ReadyMessage
  <2>2. /\ Len(readyQ[p]) \in Nat /\ DOMAIN readyQ[p] = 1..Len(readyQ[p])
        /\ DOMAIN Append(readyQ[p], m) = 1..(Len(readyQ[p]) + 1)
        /\ \A i \in DOMAIN readyQ[p] : Append(readyQ[p], m)[i] = readyQ[p][i]
        /\ Append(readyQ[p], m)[Len(readyQ[p]) + 1] = m
    BY <1>m, AppendSeq DEF BridgeInv, TypeOK
  <2>3. NotBothQueued'
    BY <1>2, <2>1 DEF BridgeInv, NotBothQueued, TypeOK
  <2>4. \A q \in Pipes : \A i \in DOMAIN readyQ'[q] :
           \/ i \in DOMAIN readyQ[q] /\ readyQ'[q][i] = readyQ[q][i]
           \/ q = p /\ i = Len(readyQ[p]) + 1 /\ readyQ'[q][i] = m
    BY <2>1, <2>2 DEF BridgeInv, TypeOK
  <2>5. Placed'
    BY <2>4 DEF BridgeInv, Placed
  <2>6. QueuedOnce'
    <3>1. SUFFICES ASSUME NEW q \in Pipes, NEW r \in Pipes,
                          NEW i \in DOMAIN readyQ'[q],
                          NEW j \in DOMAIN readyQ'[r]
                   PROVE  /\ readyQ'[q][i] = readyQ'[r][j] => q = r /\ i = j
                          /\ IsInjected(readyQ'[q][i])
                                => readyQ'[q][i] \notin FreeCells'
      BY DEF QueuedOnce
    <3>2. readyQ'[q][i] = readyQ'[r][j] => q = r /\ i = j
      BY <2>4 DEF BridgeInv, QueuedOnce
    <3>3. readyQ'[q][i] \notin FreeCells'
      BY <2>1, <2>4, <3>1 DEF BridgeInv, QueuedOnce, FreeCells, IsInjected,
                             Messages
    <3>. QED BY <3>2, <3>3
  <2>. QED BY <2>3, <2>4, <2>5, <2>6
<1>. QED BY <1>1, <1>2

LEMMA BridgeInvNext == BridgeInv /\ [Next]_vars => BridgeInv'
<1>. SUFFICES ASSUME BridgeInv, [Next]_vars
              PROVE  BridgeInv'
  OBVIOUS
<1>t. TypeOK /\ TypeOK'
  BY TypeNext DEF BridgeInv
<1>1. ASSUME NEW p \in Pipes, NEW b \in Buffers, PostFilled(p, b)
      PROVE  BridgeInv'
  <2>1. /\ Head(readyQ[p]) = readyQ[p][1] /\ 1 \in DOMAIN readyQ[p]
        /\ DOMAIN Tail(readyQ[p]) = 1..(Len(readyQ[p]) - 1)
        /\ \A i \in DOMAIN Tail(readyQ[p]) :
              /\ i + 1 \in DOMAIN readyQ[p]
              /\ Tail(readyQ[p])[i] = readyQ[p][i + 1]
    BY <1>t, <1>1, TailSeq DEF PostFilled, TypeOK
  <2>2. /\ readyQ' = [readyQ EXCEPT ![p] = Tail(@)]
        /\ UNCHANGED <<pendQ, handDownPending, inOH1>>
        /\ mem' = IF IsInjected(readyQ[p][1])
                     THEN [mem EXCEPT ![readyQ[p][1]] = 0] ELSE mem
    BY <1>1, <2>1 DEF PostFilled, CopyAndAck
  <2>3. \A q \in Pipes : \A i \in DOMAIN readyQ'[q] :
           \E j \in DOMAIN readyQ[q] : /\ j = IF q = p THEN i + 1 ELSE i
                                     /\ readyQ'[q][i] = readyQ[q][j]
    <3>1. readyQ'[p] = Tail(readyQ[p])
      BY <1>t, <2>2 DEF TypeOK
    <3>2. \A q \in Pipes \ {p} : readyQ'[q] = readyQ[q]
      BY <1>t, <2>2 DEF TypeOK
    <3>3. ASSUME NEW i \in DOMAIN readyQ'[p]
          PROVE  i + 1 \in DOMAIN readyQ[p] /\ readyQ'[p][i] = readyQ[p][i + 1]
      BY <2>1, <3>1
    <3>. QED BY <3>2, <3>3
  <2>4. \A i \in DOMAIN readyQ'[p] : i \in Nat \ {0}
    BY <1>t, <2>1, <2>2 DEF TypeOK
  <2>5. FlagTrue'
    BY <2>2 DEF BridgeInv, FlagTrue
  <2>6. Placed'
    BY <2>3 DEF BridgeInv, Placed
  <2>7. NotBothQueued'
    BY <1>1, <2>2, <1>t DEF BridgeInv, NotBothQueued, PostFilled, TypeOK
  <2>8. QueuedOnce'
    <3>1. SUFFICES ASSUME NEW q \in Pipes, NEW r \in Pipes,
                          NEW i \in DOMAIN readyQ'[q],
                          NEW j \in DOMAIN readyQ'[r]
                   PROVE  /\ readyQ'[q][i] = readyQ'[r][j] => q = r /\ i = j
                          /\ IsInjected(readyQ'[q][i])
                                => readyQ'[q][i] \notin FreeCells'
      BY DEF QueuedOnce
    <3>2. readyQ'[q][i] = readyQ'[r][j] => q = r /\ i = j
      <4>1. ASSUME readyQ'[q][i] = readyQ'[r][j]
            PROVE  /\ q = r
                   /\ (IF q = p THEN i + 1 ELSE i)
                        = (IF r = p THEN j + 1 ELSE j)
        BY <2>3, <4>1 DEF BridgeInv, QueuedOnce
      <4>. QED BY <2>4, <4>1
    <3>3. /\ readyQ'[q][i] # readyQ[p][1]
          /\ IsInjected(readyQ'[q][i]) => mem[readyQ'[q][i]] # 0
      BY <2>1, <2>3, <2>4 DEF BridgeInv, QueuedOnce, FreeCells, IsInjected
    <3>4. readyQ'[q][i] \in Messages
      BY <2>6 DEF Placed, Messages
    <3>5. IsInjected(readyQ'[q][i]) => mem'[readyQ'[q][i]] # 0
      BY <1>t, <2>2, <3>3, <3>4 DEF TypeOK
    <3>. QED BY <3>2, <3>5 DEF FreeCells
  <2>9. HandDownNotAliased'
    BY <2>2, <2>3 DEF BridgeInv, HandDownNotAliased
  <2>. QED BY <1>t, <2>5, <2>6, <2>7, <2>8, <2>9 DEF BridgeInv
<1>2. ASSUME NEW p \in Pipes, NEW b \in Buffers, PostPending(p, b)
      PROVE  BridgeInv'
  <2>1. \A i \in DOMAIN readyQ[p] : FALSE
    BY <1>2, EmptySeq, LenProperties DEF PostPending
  <2>2. FlagTrue'
    BY <1>t, <1>2 DEF BridgeInv, FlagTrue, PostPending, TypeOK
  <2>3. NotBothQueued'
    BY <1>2, <1>t DEF BridgeInv, NotBothQueued, PostPending, TypeOK
  <2>4. HandDownNotAliased'
    BY <1>2, <1>t, <2>1, <2>2
       DEF BridgeInv, HandDownNotAliased, PostPending, TypeOK, FlagTrue
  <2>5. Placed' /\ QueuedOnce'
    BY <1>2 DEF BridgeInv, Placed, QueuedOnce, FreeCells, PostPending
  <2>. QED BY <1>t, <2>2, <2>3, <2>4, <2>5 DEF BridgeInv
<1>3. ASSUME NEW p \in Pipes, NEW b \in Buffers, PostLost(p, b)
      PROVE  BridgeInv'
  BY <1>t, <1>3 DEF BridgeInv, FlagTrue, Placed, NotBothQueued, QueuedOnce,
                    FreeCells, HandDownNotAliased, PostLost
<1>4. ASSUME NEW p \in Pipes, Inject(p)
      PROVE  BridgeInv'
  <2>1. PICK c \in FreeCells :
           ReadyMessage(p, c, [mem EXCEPT ![c] = produced[p] + 1])
    BY <1>4 DEF Inject
  <2> DEFINE memory == [mem EXCEPT ![c] = produced[p] + 1]
  <2>2. /\ c \in Cells /\ c \in Messages /\ c \notin Pipes
        /\ memory \in [Messages -> Nat] /\ memory[c] # 0
        /\ \A x \in Messages \ {c} : memory[x] = mem[x]
    BY <1>t, PointerAssumption DEF TypeOK, FreeCells, Messages
  <2>3. \A q \in Pipes : \A i \in DOMAIN readyQ[q] : readyQ[q][i] # c
    BY <2>2 DEF BridgeInv, QueuedOnce, IsInjected
  <2>4. ReadyMessage(p, c, memory)
    BY <2>1
  <2>5. /\ Placed' /\ NotBothQueued' /\ QueuedOnce'
        /\ \A q \in Pipes : \A i \in DOMAIN readyQ'[q] :
              \/ \E j \in DOMAIN readyQ[q] : readyQ'[q][i] = readyQ[q][j]
              \/ q = p /\ readyQ'[q][i] = c
    <3>. HIDE DEF memory
    <3>. QED BY <2>2, <2>3, <2>4, ReadyMessageInv
  <2>6. UNCHANGED <<handDownPending, inOH1>>
    BY <1>4 DEF Inject
  <2>7. HandDownNotAliased'
    BY <2>2, <2>5, <2>6 DEF BridgeInv, HandDownNotAliased
  <2>8. FlagTrue'
    BY <2>6 DEF BridgeInv, FlagTrue
  <2>. QED BY <1>t, <2>5, <2>7, <2>8 DEF BridgeInv
<1>5. ASSUME NEW p \in Pipes, OH1Reply(p)
      PROVE  BridgeInv'
  <2> DEFINE memory == [mem EXCEPT ![p] = produced[p] + 1]
  <2>1. /\ inOH1[p] = 1
        /\ inOH1' = [inOH1 EXCEPT ![p] = 0]
        /\ handDownPending' = [handDownPending EXCEPT ![p] = FALSE]
    <3>1. inOH1[p] \in Nat /\ inOH1[p] > 0 /\ inOH1[p] <= 1
      BY <1>t, <1>5 DEF OH1Reply, BridgeInv, HandDownNotAliased, TypeOK
    <3>2. inOH1[p] = 1 /\ inOH1[p] - 1 = 0
      BY <3>1
    <3>. QED BY <1>5, <3>2 DEF OH1Reply
  <2>2. /\ p \in Messages
        /\ memory \in [Messages -> Nat] /\ memory[p] # 0
        /\ \A x \in Messages \ {p} : memory[x] = mem[x]
    BY <1>t DEF TypeOK, Messages
  <2>3. \A q \in Pipes : \A i \in DOMAIN readyQ[q] : readyQ[q][i] # p
    BY <2>1, PointerAssumption DEF BridgeInv, Placed, HandDownNotAliased
  <2>4. ReadyMessage(p, p, memory)
    BY <1>5 DEF OH1Reply
  <2>5. /\ Placed' /\ NotBothQueued' /\ QueuedOnce'
        /\ \A q \in Pipes : \A i \in DOMAIN readyQ'[q] :
              \/ \E j \in DOMAIN readyQ[q] : readyQ'[q][i] = readyQ[q][j]
              \/ q = p /\ readyQ'[q][i] = p
    <3>. HIDE DEF memory
    <3>. QED BY <2>2, <2>3, <2>4, ReadyMessageInv
  <2>6. HandDownNotAliased'
    BY <1>t, <2>1, <2>5 DEF BridgeInv, HandDownNotAliased, TypeOK
  <2>7. FlagTrue'
    BY <1>t, <2>1 DEF BridgeInv, FlagTrue, TypeOK
  <2>. QED BY <1>t, <2>5, <2>6, <2>7 DEF BridgeInv
<1>6. CASE UNCHANGED vars
  BY <1>t, <1>6 DEF BridgeInv, FlagTrue, Placed, NotBothQueued, QueuedOnce,
                    FreeCells, HandDownNotAliased, vars
<1>. QED BY <1>1, <1>2, <1>3, <1>4, <1>5, <1>6 DEF Next, HostPost

LEMMA BridgeInvariant == Spec => []BridgeInv
BY BridgeInvInit, BridgeInvNext, PTL DEF Spec

(***************************************************************************)
(* A message never waits while a buffer does.                              *)
(***************************************************************************)
THEOREM NoIdlePair == Spec => []NotBothQueued
<1>1. BridgeInv => NotBothQueued
  BY DEF BridgeInv
<1>. QED BY <1>1, BridgeInvariant, PTL

(***************************************************************************)
(* OH1 never fills the static message of a pipe while its last answer      *)
(* still waits for a buffer, and never has it twice.                       *)
(***************************************************************************)
THEOREM HandDownSafe == Spec => []HandDownNotAliased
<1>1. BridgeInv => HandDownNotAliased
  BY DEF BridgeInv
<1>. QED BY <1>1, BridgeInvariant, PTL

(***************************************************************************)
(* A block of the shared heap is queued at most once, on one pipe, and is  *)
(* not freed while it is.                                                  *)
(***************************************************************************)
THEOREM HeapSafe == Spec => []QueuedOnce
<1>1. BridgeInv => QueuedOnce
  BY DEF BridgeInv
<1>. QED BY <1>1, BridgeInvariant, PTL

(***************************************************************************)
(* Progress.  A pipe whose host has no buffer left moves only when OH1      *)
(* answers.  The strengthening: its buffers are not all dropped, and a     *)
(* full PendingQ, which drops buffers, is one for which OH1 has the        *)
(* message: an answer would have taken a buffer out of it.                 *)
(***************************************************************************)
SomeBufferLives == \A p \in Pipes : hostOwned[p] # {} \/ pendQ[p] # <<>>

FullIsHandedDown ==
    \A p \in Pipes : Len(pendQ[p]) = PendingSize[p] => handDownPending[p]

ProgressInv ==
    /\ SomeBufferLives
    /\ FullIsHandedDown
    /\ NeverStuck

LEMMA ProgressInit == Init => ProgressInv
BY BufferAssumption, SizeAssumption
   DEF Init, ProgressInv, SomeBufferLives, FullIsHandedDown, NeverStuck

\* A message became ready: a buffer that is taken out of the PendingQ goes back
\* to the host, and the PendingQ is then no longer full.
LEMMA ReadyMessageProgress ==
    ASSUME TypeOK, ProgressInv,
           NEW p \in Pipes, NEW m \in Messages, NEW memory \in [Messages -> Nat],
           ReadyMessage(p, m, memory)
    PROVE  /\ hostOwned'[p] # {}
           /\ Len(pendQ'[p]) # PendingSize[p]
           /\ \A q \in Pipes \ {p} : /\ hostOwned'[q] = hostOwned[q]
                                     /\ pendQ'[q] = pendQ[q]
<1>s. PendingSize[p] \in Nat \ {0}
  BY SizeAssumption
<1>1. CASE pendQ[p] # <<>>
  <2>1. /\ pendQ' = [pendQ EXCEPT ![p] = Tail(@)]
        /\ hostOwned' = [hostOwned EXCEPT
                            ![p] = hostOwned[p] \cup {Head(pendQ[p])}]
    BY <1>1 DEF ReadyMessage, CopyAndAck
  <2>2. Len(Tail(pendQ[p])) = Len(pendQ[p]) - 1 /\ Len(pendQ[p]) \in Nat
    BY <1>1, TailSeq DEF TypeOK
  <2>3. Len(pendQ[p]) <= PendingSize[p]
    BY DEF TypeOK
  <2>4. /\ pendQ'[p] = Tail(pendQ[p])
        /\ hostOwned'[p] = hostOwned[p] \cup {Head(pendQ[p])}
        /\ \A q \in Pipes \ {p} : /\ hostOwned'[q] = hostOwned[q]
                                  /\ pendQ'[q] = pendQ[q]
    BY <2>1 DEF TypeOK
  <2>5. Len(pendQ'[p]) # PendingSize[p]
    BY <1>s, <2>2, <2>3, <2>4
  <2>. QED BY <2>4, <2>5
<1>2. CASE pendQ[p] = <<>>
  <2>1. UNCHANGED <<pendQ, hostOwned>>
    BY <1>2 DEF ReadyMessage
  <2>2. Len(pendQ'[p]) = 0
    BY <1>2, <2>1, EmptySeq
  <2>3. hostOwned'[p] # {}
    BY <1>2, <2>1 DEF ProgressInv, SomeBufferLives
  <2>. QED BY <1>s, <2>1, <2>2, <2>3
<1>. QED BY <1>1, <1>2

LEMMA ProgressNext == BridgeInv /\ ProgressInv /\ [Next]_vars => ProgressInv'
<1>. SUFFICES ASSUME BridgeInv, ProgressInv, [Next]_vars
              PROVE  ProgressInv'
  OBVIOUS
<1>t. TypeOK /\ TypeOK' /\ FlagTrue'
  BY BridgeInvNext DEF BridgeInv
<1>1. ASSUME NEW p \in Pipes, NEW b \in Buffers, PostFilled(p, b)
      PROVE  ProgressInv'
  <2>1. /\ UNCHANGED <<pendQ, handDownPending, inOH1>>
        /\ hostOwned' = [hostOwned EXCEPT ![p] = (hostOwned[p] \ {b}) \cup {b}]
    BY <1>1 DEF PostFilled, CopyAndAck
  <2>2. \A q \in Pipes : hostOwned'[q] # {} \/ hostOwned'[q] = hostOwned[q]
    BY <1>t, <2>1 DEF TypeOK
  <2>. QED BY <2>1, <2>2
           DEF ProgressInv, SomeBufferLives, FullIsHandedDown, NeverStuck
<1>2. ASSUME NEW p \in Pipes, NEW b \in Buffers, PostPending(p, b)
      PROVE  ProgressInv'
  <2>1. pendQ'[p] # <<>> /\ handDownPending'[p]
    <3>1. pendQ'[p] = Append(pendQ[p], b) /\ handDownPending'[p]
      BY <1>t, <1>2 DEF PostPending, TypeOK
    <3>2. Len(Append(pendQ[p], b)) # 0
      BY <1>t, AppendSeq DEF TypeOK
    <3>. QED BY <3>1, <3>2, EmptySeq
  <2>2. inOH1'[p] > 0
    BY <1>t, <2>1 DEF FlagTrue
  <2>3. \A q \in Pipes \ {p} : /\ hostOwned'[q] = hostOwned[q]
                              /\ pendQ'[q] = pendQ[q]
                              /\ handDownPending'[q] = handDownPending[q]
                              /\ inOH1'[q] = inOH1[q]
    BY <1>t, <1>2 DEF PostPending, TypeOK
  <2>. QED BY <2>1, <2>2, <2>3
           DEF ProgressInv, SomeBufferLives, FullIsHandedDown, NeverStuck
<1>3. ASSUME NEW p \in Pipes, NEW b \in Buffers, PostLost(p, b)
      PROVE  ProgressInv'
  <2>1. /\ UNCHANGED <<pendQ, handDownPending, inOH1>>
        /\ \A q \in Pipes \ {p} : hostOwned'[q] = hostOwned[q]
    BY <1>t, <1>3 DEF PostLost, TypeOK
  <2>2. pendQ[p] # <<>> /\ handDownPending[p]
    BY <1>3, SizeAssumption, EmptySeq DEF PostLost, ProgressInv, FullIsHandedDown
  <2>3. inOH1'[p] > 0
    BY <1>t, <2>1, <2>2 DEF FlagTrue
  <2>. QED BY <2>1, <2>2, <2>3
           DEF ProgressInv, SomeBufferLives, FullIsHandedDown, NeverStuck
<1>4. ASSUME NEW p \in Pipes, Inject(p)
      PROVE  ProgressInv'
  <2>1. PICK c \in FreeCells :
           ReadyMessage(p, c, [mem EXCEPT ![c] = produced[p] + 1])
    BY <1>4 DEF Inject
  <2>2. /\ c \in Messages
        /\ [mem EXCEPT ![c] = produced[p] + 1] \in [Messages -> Nat]
    BY <1>t DEF TypeOK, FreeCells, Messages
  <2>3. UNCHANGED <<handDownPending, inOH1>>
    BY <1>4 DEF Inject
  <2>. QED BY <1>t, <2>1, <2>2, <2>3, ReadyMessageProgress
           DEF ProgressInv, SomeBufferLives, FullIsHandedDown, NeverStuck
<1>5. ASSUME NEW p \in Pipes, OH1Reply(p)
      PROVE  ProgressInv'
  <2>1. ReadyMessage(p, p, [mem EXCEPT ![p] = produced[p] + 1])
    BY <1>5 DEF OH1Reply
  <2>2. /\ p \in Messages
        /\ [mem EXCEPT ![p] = produced[p] + 1] \in [Messages -> Nat]
    BY <1>t DEF TypeOK, Messages
  <2>3. /\ hostOwned'[p] # {}
        /\ Len(pendQ'[p]) # PendingSize[p]
        /\ \A q \in Pipes \ {p} : /\ hostOwned'[q] = hostOwned[q]
                                  /\ pendQ'[q] = pendQ[q]
    BY <1>t, <2>1, <2>2, ReadyMessageProgress
  <2>4. \A q \in Pipes \ {p} : /\ handDownPending'[q] = handDownPending[q]
                              /\ inOH1'[q] = inOH1[q]
    BY <1>t, <1>5 DEF OH1Reply, TypeOK
  <2>. QED BY <2>3, <2>4
           DEF ProgressInv, SomeBufferLives, FullIsHandedDown, NeverStuck
<1>6. CASE UNCHANGED vars
  BY <1>6 DEF vars, ProgressInv, SomeBufferLives, FullIsHandedDown, NeverStuck
<1>. QED BY <1>1, <1>2, <1>3, <1>4, <1>5, <1>6 DEF Next, HostPost

(***************************************************************************)
(* No pipe ever gets stuck: the host has a buffer to post, or OH1 has the  *)
(* hand-down message, however many buffers a full PendingQ has dropped.    *)
(***************************************************************************)
THEOREM PipesMove == Spec => []NeverStuck
<1>1. ProgressInv => NeverStuck
  BY DEF ProgressInv
<1>. QED BY <1>1, ProgressInit, ProgressNext, BridgeInvariant, PTL DEF Spec

(***************************************************************************)
(* Buffers.  On a pipe whose PendingQ has room for all of them, a buffer   *)
(* moves between the host and the PendingQ and is never in both.           *)
(***************************************************************************)
Pending(p) == {pendQ[p][i] : i \in DOMAIN pendQ[p]}

Accounted(p) ==
    /\ hostOwned[p] \cup Pending(p) = Buffers
    /\ \A i, j \in DOMAIN pendQ[p] : /\ pendQ[p][i] \notin hostOwned[p]
                                     /\ pendQ[p][i] = pendQ[p][j] => i = j

Roomy == {p \in Pipes : Cardinality(Buffers) <= PendingSize[p]}

LEMMA AccountedRoomy == BuffersAccounted <=> \A p \in Roomy : Accounted(p)
BY DEF BuffersAccounted, Accounted, Pending, Roomy

\* As long as the host has a buffer to post, the PendingQ of such a pipe has room
\* for it: distinct buffers, none of them that one, do not fill it.
LEMMA RoomToPost ==
    ASSUME TypeOK, NEW p \in Roomy, Accounted(p), NEW b \in hostOwned[p]
    PROVE  Len(pendQ[p]) < PendingSize[p]
<1>1. /\ pendQ[p] \in Seq(Buffers) /\ Len(pendQ[p]) \in Nat
      /\ DOMAIN pendQ[p] = 1..Len(pendQ[p])
  BY LenProperties DEF TypeOK, Roomy
<1> DEFINE n == Len(pendQ[p])
           others == Buffers \ {b}
<1>2. b \in Buffers /\ IsFiniteSet(Buffers)
  BY BufferAssumption DEF TypeOK, Roomy
<1>3. IsFiniteSet(others) /\ Cardinality(others) = Cardinality(Buffers) - 1
  BY <1>2, FS_RemoveElement
<1>4. pendQ[p] \in Injection(1..n, others)
  BY <1>1 DEF Accounted, Injection, IsInjective
<1>5. Cardinality(1..n) <= Cardinality(others)
  BY <1>3, <1>4, FS_Injection
<1>6. Cardinality(1..n) = n
  BY <1>1, FS_Interval
<1>7. Cardinality(Buffers) \in Nat /\ PendingSize[p] \in Nat
  BY <1>2, FS_CardinalityType, SizeAssumption DEF Roomy
<1>. QED BY <1>1, <1>3, <1>5, <1>6, <1>7 DEF Roomy

\* The oldest pending buffer goes back to the host.
LEMMA TakenBack ==
    ASSUME TypeOK, NEW p \in Pipes, Accounted(p), pendQ[p] # <<>>,
           pendQ'[p] = Tail(pendQ[p]),
           hostOwned'[p] = hostOwned[p] \cup {Head(pendQ[p])}
    PROVE  Accounted(p)'
<1>1. /\ Len(pendQ[p]) \in Nat \ {0} /\ DOMAIN pendQ[p] = 1..Len(pendQ[p])
      /\ Head(pendQ[p]) = pendQ[p][1] /\ 1 \in DOMAIN pendQ[p]
      /\ DOMAIN Tail(pendQ[p]) = 1..(Len(pendQ[p]) - 1)
      /\ \A i \in DOMAIN Tail(pendQ[p]) : /\ i + 1 \in DOMAIN pendQ[p]
                                         /\ Tail(pendQ[p])[i] = pendQ[p][i + 1]
  BY TailSeq, LenProperties DEF TypeOK
<1>2. Pending(p) = Pending(p)' \cup {Head(pendQ[p])}
  <2>1. ASSUME NEW i \in DOMAIN pendQ[p], i # 1
        PROVE  i - 1 \in DOMAIN Tail(pendQ[p]) /\ Tail(pendQ[p])[i - 1] = pendQ[p][i]
    BY <1>1, <2>1
  <2>2. \A i \in DOMAIN pendQ[p] :
           pendQ[p][i] = Head(pendQ[p]) \/ \E j \in DOMAIN pendQ'[p] : pendQ'[p][j] = pendQ[p][i]
    BY <1>1, <2>1
  <2>3. \A j \in DOMAIN pendQ'[p] : \E i \in DOMAIN pendQ[p] : pendQ'[p][j] = pendQ[p][i]
    BY <1>1
  <2>4. \E i \in DOMAIN pendQ[p] : Head(pendQ[p]) = pendQ[p][i]
    BY <1>1
  <2>. QED BY <2>2, <2>3, <2>4, Zenon DEF Pending
<1>3. ASSUME NEW i \in DOMAIN pendQ'[p], NEW j \in DOMAIN pendQ'[p]
      PROVE  /\ pendQ'[p][i] \notin hostOwned'[p]
             /\ pendQ'[p][i] = pendQ'[p][j] => i = j
  <2>1. /\ i + 1 \in DOMAIN pendQ[p] /\ pendQ'[p][i] = pendQ[p][i + 1]
        /\ j + 1 \in DOMAIN pendQ[p] /\ pendQ'[p][j] = pendQ[p][j + 1]
        /\ i \in Nat \ {0} /\ j \in Nat \ {0}
    BY <1>1
  <2>. QED BY <1>1, <2>1 DEF Accounted
<1>. QED BY <1>2, <1>3 DEF Accounted

\* A buffer of the host becomes the newest pending one.
LEMMA MadePending ==
    ASSUME TypeOK, NEW p \in Pipes, Accounted(p), NEW b \in hostOwned[p],
           pendQ'[p] = Append(pendQ[p], b), hostOwned'[p] = hostOwned[p] \ {b}
    PROVE  Accounted(p)'
<1>1. b \in Buffers /\ pendQ[p] \in Seq(Buffers)
  BY DEF TypeOK
<1>2. /\ Len(pendQ[p]) \in Nat /\ DOMAIN pendQ[p] = 1..Len(pendQ[p])
      /\ DOMAIN Append(pendQ[p], b) = 1..(Len(pendQ[p]) + 1)
      /\ \A i \in DOMAIN pendQ[p] : Append(pendQ[p], b)[i] = pendQ[p][i]
      /\ Append(pendQ[p], b)[Len(pendQ[p]) + 1] = b
  BY <1>1, AppendSeq
<1>3. Pending(p)' = Pending(p) \cup {b}
  BY <1>2 DEF Pending
<1>4. ASSUME NEW i \in DOMAIN pendQ'[p], NEW j \in DOMAIN pendQ'[p]
      PROVE  /\ pendQ'[p][i] \notin hostOwned'[p]
             /\ pendQ'[p][i] = pendQ'[p][j] => i = j
  BY <1>2 DEF Accounted
<1>. QED BY <1>1, <1>3, <1>4 DEF Accounted

LEMMA BuffersInit == Init => BuffersAccounted
<1>1. DOMAIN <<>> = {}
  BY EmptySeq, LenProperties
<1>. QED BY <1>1 DEF Init, BuffersAccounted

\* Whatever comes first for a pending buffer, OH1's answer or an injected message.
LEMMA ReadyMessageBuffers ==
    ASSUME TypeOK, BuffersAccounted,
           NEW p \in Pipes, NEW m, NEW memory, ReadyMessage(p, m, memory)
    PROVE  BuffersAccounted'
<1>. SUFFICES ASSUME NEW q \in Roomy PROVE Accounted(q)'
  BY AccountedRoomy DEF BuffersAccounted, Accounted, Pending, Roomy
<1>a. Accounted(q) /\ q \in Pipes
  BY AccountedRoomy DEF Roomy
<1>1. CASE pendQ[p] = <<>> \/ q # p
  <2>1. hostOwned'[q] = hostOwned[q] /\ pendQ'[q] = pendQ[q]
    BY <1>1, <1>a DEF ReadyMessage, CopyAndAck, TypeOK
  <2>. QED BY <1>a, <2>1 DEF Accounted, Pending
<1>2. CASE pendQ[p] # <<>> /\ q = p
  <2>1. /\ pendQ'[p] = Tail(pendQ[p])
        /\ hostOwned'[p] = hostOwned[p] \cup {Head(pendQ[p])}
    BY <1>2 DEF ReadyMessage, CopyAndAck, TypeOK
  <2>. QED BY <1>a, <1>2, <2>1, TakenBack
<1>. QED BY <1>1, <1>2

LEMMA BuffersNext == TypeOK /\ BuffersAccounted /\ [Next]_vars => BuffersAccounted'
<1>. SUFFICES ASSUME TypeOK, BuffersAccounted, [Next]_vars PROVE BuffersAccounted'
  OBVIOUS
<1>r. ASSUME NEW p \in Pipes,
             \A q \in Roomy : Accounted(q) => Accounted(q)'
      PROVE  BuffersAccounted'
  BY <1>r, AccountedRoomy DEF BuffersAccounted, Accounted, Pending, Roomy
<1>1. ASSUME NEW p \in Pipes, NEW b \in Buffers, PostFilled(p, b)
      PROVE  BuffersAccounted'
  <2>1. UNCHANGED pendQ /\ \A q \in Pipes : hostOwned'[q] = hostOwned[q]
    BY <1>1 DEF PostFilled, CopyAndAck, TypeOK
  <2>2. \A q \in Roomy : Accounted(q) => Accounted(q)'
    BY <2>1 DEF Roomy, Accounted, Pending
  <2>. QED BY <1>r, <2>2
<1>2. ASSUME NEW p \in Pipes, NEW b \in Buffers, PostPending(p, b)
      PROVE  BuffersAccounted'
  <2>1. /\ pendQ'[p] = Append(pendQ[p], b) /\ hostOwned'[p] = hostOwned[p] \ {b}
        /\ b \in hostOwned[p]
        /\ \A q \in Pipes \ {p} : pendQ'[q] = pendQ[q] /\ hostOwned'[q] = hostOwned[q]
    BY <1>2 DEF PostPending, TypeOK
  <2>2. Accounted(p) => Accounted(p)'
    BY <2>1, MadePending
  <2>3. \A q \in Roomy \ {p} : Accounted(q) => Accounted(q)'
    BY <2>1 DEF Roomy, Accounted, Pending
  <2>. QED BY <1>r, <2>2, <2>3
<1>3. ASSUME NEW p \in Pipes, NEW b \in Buffers, PostLost(p, b)
      PROVE  BuffersAccounted'
  <2>1. p \notin Roomy
    <3>. SUFFICES ASSUME p \in Roomy PROVE FALSE
      OBVIOUS
    <3>1. Accounted(p)
      BY AccountedRoomy
    <3>2. Len(pendQ[p]) < PendingSize[p] /\ Len(pendQ[p]) = PendingSize[p]
      BY <1>3, <3>1, RoomToPost DEF PostLost
    <3>3. PendingSize[p] \in Nat
      BY SizeAssumption
    <3>. QED BY <3>2, <3>3
  <2>2. \A q \in Pipes \ {p} : pendQ'[q] = pendQ[q] /\ hostOwned'[q] = hostOwned[q]
    BY <1>3 DEF PostLost, TypeOK
  <2>3. \A q \in Roomy : Accounted(q) => Accounted(q)'
    BY <2>1, <2>2 DEF Roomy, Accounted, Pending
  <2>. QED BY <1>r, <2>3
<1>4. ASSUME NEW p \in Pipes, Inject(p)
      PROVE  BuffersAccounted'
  BY <1>4, ReadyMessageBuffers DEF Inject
<1>5. ASSUME NEW p \in Pipes, OH1Reply(p)
      PROVE  BuffersAccounted'
  BY <1>5, ReadyMessageBuffers DEF OH1Reply
<1>6. CASE UNCHANGED vars
  BY <1>6 DEF vars, BuffersAccounted
<1>. QED BY <1>1, <1>2, <1>3, <1>4, <1>5, <1>6 DEF Next, HostPost

(***************************************************************************)
(* A buffer is lost at a full PendingQ alone: where the PendingQ has room  *)
(* for all buffers of the host, each is with the host or pending, once.    *)
(***************************************************************************)
THEOREM NoBufferLost == Spec => []BuffersAccounted
BY BuffersInit, BuffersNext, TypeCorrect, PTL DEF Spec

(***************************************************************************)
(* Refinement.  The bridge implements EventFifo on each of its pipes; what *)
(* waits in the abstract queue are the events that the messages of the     *)
(* ReadyQ carry.                                                           *)
(***************************************************************************)
Contents(rq, memory) == [i \in DOMAIN rq |-> memory[rq[i]]]

LEMMA ContentsSeq ==
    ASSUME NEW rq \in Seq(Messages), NEW memory \in [Messages -> Nat]
    PROVE  /\ Contents(rq, memory) \in Seq(Nat)
           /\ Len(Contents(rq, memory)) = Len(rq)
           /\ \A i \in 1..Len(rq) : Contents(rq, memory)[i] = memory[rq[i]]
<1>1. /\ Len(rq) \in Nat /\ DOMAIN rq = 1..Len(rq)
      /\ \A i \in 1..Len(rq) : rq[i] \in Messages
  BY LenProperties, ElementOfSeq
<1>2. Contents(rq, memory) \in [1..Len(rq) -> Nat]
  BY <1>1 DEF Contents
<1>3. Contents(rq, memory) \in Seq(Nat)
  BY <1>1, <1>2, SeqDef
<1>4. Len(Contents(rq, memory)) = Len(rq)
  BY <1>1, <1>2, <1>3, LenProperties
<1>. QED BY <1>1, <1>3, <1>4 DEF Contents

\* Memory that agrees on the queued messages gives the same contents.
LEMMA ContentsSame ==
    ASSUME NEW rq, NEW memory, NEW after,
           \A i \in DOMAIN rq : after[rq[i]] = memory[rq[i]]
    PROVE  Contents(rq, after) = Contents(rq, memory)
BY DEF Contents

LEMMA ContentsEmpty ==
    ASSUME NEW memory
    PROVE  Contents(<<>>, memory) = <<>>
<1>1. DOMAIN <<>> = {}
  BY EmptySeq, LenProperties
<1>. QED BY <1>1 DEF Contents

LEMMA ContentsTail ==
    ASSUME NEW rq \in Seq(Messages), rq # <<>>,
           NEW memory \in [Messages -> Nat], NEW after \in [Messages -> Nat],
           \A i \in DOMAIN rq : i # 1 => after[rq[i]] = memory[rq[i]]
    PROVE  /\ Contents(rq, memory) # <<>>
           /\ Head(Contents(rq, memory)) = memory[Head(rq)]
           /\ Contents(Tail(rq), after) = Tail(Contents(rq, memory))
<1> DEFINE old == Contents(rq, memory)
           new == Contents(Tail(rq), after)
<1>1. /\ Len(rq) \in Nat \ {0} /\ DOMAIN rq = 1..Len(rq)
      /\ Head(rq) = rq[1] /\ Tail(rq) \in Seq(Messages)
      /\ Len(Tail(rq)) = Len(rq) - 1
      /\ DOMAIN Tail(rq) = 1..(Len(rq) - 1)
      /\ \A i \in 1..(Len(rq) - 1) : Tail(rq)[i] = rq[i + 1]
  BY TailSeq, LenProperties
<1>2. /\ old \in Seq(Nat) /\ Len(old) = Len(rq)
      /\ \A i \in 1..Len(rq) : old[i] = memory[rq[i]]
  BY ContentsSeq
<1>3. /\ new \in Seq(Nat) /\ Len(new) = Len(rq) - 1
      /\ \A i \in 1..(Len(rq) - 1) : new[i] = after[Tail(rq)[i]]
  <2>1. /\ new \in Seq(Nat) /\ Len(new) = Len(Tail(rq))
        /\ \A i \in 1..Len(Tail(rq)) : new[i] = after[Tail(rq)[i]]
    BY <1>1, ContentsSeq
  <2>. QED BY <1>1, <2>1
<1>4. old # <<>>
  BY <1>1, <1>2, EmptySeq
<1>5. /\ Head(old) = old[1] /\ Tail(old) \in Seq(Nat)
      /\ Len(Tail(old)) = Len(rq) - 1
      /\ \A i \in 1..(Len(rq) - 1) : Tail(old)[i] = old[i + 1]
  <2>. HIDE DEF old
  <2>1. /\ Head(old) = old[1] /\ Tail(old) \in Seq(Nat)
        /\ Len(Tail(old)) = Len(old) - 1
        /\ DOMAIN Tail(old) = 1..(Len(old) - 1)
        /\ \A i \in DOMAIN Tail(old) : Tail(old)[i] = old[i + 1]
    BY <1>2, <1>4, TailSeq
  <2>. QED BY <1>2, <2>1
<1>6. \A i \in 1..(Len(rq) - 1) : new[i] = Tail(old)[i]
  <2>1. SUFFICES ASSUME NEW i \in 1..(Len(rq) - 1)
                 PROVE  new[i] = Tail(old)[i]
    OBVIOUS
  <2>2. i + 1 \in DOMAIN rq /\ i + 1 # 1 /\ i + 1 \in 1..Len(rq)
    BY <1>1
  <2>3. new[i] = after[rq[i + 1]]
    BY <1>1, <1>3
  <2>4. Tail(old)[i] = memory[rq[i + 1]]
    BY <1>2, <1>5, <2>2
  <2>. QED BY <2>2, <2>3, <2>4
<1>7. new = Tail(old)
  <2>. HIDE DEF old, new
  <2>. QED BY <1>3, <1>5, <1>6, SeqEqual
<1>. QED BY <1>1, <1>2, <1>4, <1>5, <1>7

LEMMA ContentsAppend ==
    ASSUME NEW rq \in Seq(Messages), NEW m \in Messages,
           NEW memory \in [Messages -> Nat], NEW after \in [Messages -> Nat],
           \A i \in DOMAIN rq : after[rq[i]] = memory[rq[i]]
    PROVE  Contents(Append(rq, m), after)
                = Append(Contents(rq, memory), after[m])
<1> DEFINE old == Contents(rq, memory)
           new == Contents(Append(rq, m), after)
           n == Len(rq)
<1>1. /\ n \in Nat /\ DOMAIN rq = 1..n
      /\ Append(rq, m) \in Seq(Messages) /\ Len(Append(rq, m)) = n + 1
      /\ \A i \in 1..n : Append(rq, m)[i] = rq[i]
      /\ Append(rq, m)[n + 1] = m
  BY AppendSeq
<1>2. /\ old \in Seq(Nat) /\ Len(old) = n
      /\ \A i \in 1..n : old[i] = memory[rq[i]]
  BY ContentsSeq
<1>3. /\ new \in Seq(Nat) /\ Len(new) = n + 1
      /\ \A i \in 1..(n + 1) : new[i] = after[Append(rq, m)[i]]
  <2>1. /\ new \in Seq(Nat) /\ Len(new) = Len(Append(rq, m))
        /\ \A i \in 1..Len(Append(rq, m)) : new[i] = after[Append(rq, m)[i]]
    BY <1>1, ContentsSeq
  <2>. QED BY <1>1, <2>1
<1>4. after[m] \in Nat
  OBVIOUS
<1>5. /\ Append(old, after[m]) \in Seq(Nat)
      /\ Len(Append(old, after[m])) = n + 1
      /\ \A i \in 1..n : Append(old, after[m])[i] = old[i]
      /\ Append(old, after[m])[n + 1] = after[m]
  <2>. HIDE DEF old
  <2>1. DOMAIN old = 1..n
    BY <1>2, LenProperties
  <2>. QED BY <1>2, <1>4, <2>1, AppendSeq
<1>6. \A i \in 1..(n + 1) : new[i] = Append(old, after[m])[i]
  <2>1. SUFFICES ASSUME NEW i \in 1..(n + 1)
                 PROVE  new[i] = Append(old, after[m])[i]
    OBVIOUS
  <2>2. CASE i = n + 1
    BY <1>1, <1>3, <1>5, <2>2
  <2>3. CASE i # n + 1
    <3>1. i \in 1..n /\ i \in DOMAIN rq
      <4>. HIDE DEF n
      <4>. QED BY <1>1, <2>3
    <3>2. new[i] = after[rq[i]]
      <4>. HIDE DEF new
      <4>. QED BY <1>1, <1>3, <3>1
    <3>3. Append(old, after[m])[i] = memory[rq[i]]
      <4>. HIDE DEF old
      <4>. QED BY <1>2, <1>5, <3>1
    <3>. QED BY <3>1, <3>2, <3>3
  <2>. QED BY <2>2, <2>3
<1>7. new = Append(old, after[m])
  <2>. HIDE DEF old, new
  <2>. QED BY <1>3, <1>5, <1>6, SeqEqual
<1>. QED BY <1>7

(***************************************************************************)
(* Initial states and steps.  Both producers end in ReadyMessage, which is *)
(* treated once.                                                           *)
(***************************************************************************)
Queue(p) == Contents(readyQ[p], mem)

FifoStep(p) == [Fifo(p)!Next]_(Fifo(p)!vars)

\* What a step must show of the pipe it does not concern.
LEMMA Elsewhere ==
    ASSUME NEW q \in Pipes,
           readyQ'[q] = readyQ[q], produced'[q] = produced[q],
           delivered'[q] = delivered[q],
           \A i \in DOMAIN readyQ[q] : mem'[readyQ[q][i]] = mem[readyQ[q][i]]
    PROVE  FifoStep(q)
<1>1. [i \in DOMAIN readyQ'[q] |-> mem'[readyQ'[q][i]]]
        = [i \in DOMAIN readyQ[q] |-> mem[readyQ[q][i]]]
  OBVIOUS
<1>. QED BY <1>1 DEF FifoStep, Fifo!vars

LEMMA ProduceStep ==
    ASSUME NEW p \in Pipes,
           produced'[p] = produced[p] + 1,
           \/ /\ Queue(p) = <<>> /\ Queue(p)' = Queue(p)
              /\ delivered'[p] = Append(delivered[p], produced[p] + 1)
           \/ /\ Len(Queue(p)) < ReadySize[p]
              /\ Queue(p)' = Append(Queue(p), produced[p] + 1)
              /\ delivered'[p] = delivered[p]
           \/ /\ Len(Queue(p)) = ReadySize[p]
              /\ Queue(p)' = Queue(p)
              /\ delivered'[p] = delivered[p]
    PROVE  FifoStep(p)
BY DEF FifoStep, Fifo!Next, Fifo!Produce, Queue, Contents

LEMMA TakeStep ==
    ASSUME NEW p \in Pipes,
           produced'[p] = produced[p],
           Queue(p) # <<>>,
           Queue(p)' = Tail(Queue(p)),
           delivered'[p] = Append(delivered[p], Head(Queue(p)))
    PROVE  FifoStep(p)
BY DEF FifoStep, Fifo!Next, Fifo!Take, Queue, Contents

LEMMA InitRefines == Init => \A p \in Pipes : Fifo(p)!Init
<1>. SUFFICES ASSUME Init, NEW p \in Pipes PROVE Fifo(p)!Init
  OBVIOUS
<1>1. readyQ[p] = <<>> /\ produced[p] = 0 /\ delivered[p] = <<>>
  BY DEF Init
<1>2. [i \in DOMAIN readyQ[p] |-> mem[readyQ[p][i]]] = <<>>
  BY <1>1, ContentsEmpty DEF Contents
<1>. QED BY <1>1, <1>2 DEF Fifo!Init

\* A message that is not queued, and carries the event just produced, becomes
\* ready.
LEMMA ReadyMessageRefines ==
    ASSUME BridgeInv, TypeOK',
           NEW p \in Pipes, NEW m \in Cells \cup {p},
           NEW memory \in [Messages -> Nat],
           memory[m] = produced[p] + 1,
           \A x \in Messages \ {m} : memory[x] = mem[x],
           \A q \in Pipes : \A i \in DOMAIN readyQ[q] : readyQ[q][i] # m,
           produced' = [produced EXCEPT ![p] = @ + 1],
           ReadyMessage(p, m, memory)
    PROVE  \A q \in Pipes : FifoStep(q)
<1>m. m \in Messages
  BY DEF Messages
<1>t. TypeOK
  BY DEF BridgeInv
<1>p. produced'[p] = produced[p] + 1
  BY <1>t DEF TypeOK
<1>1. \A q \in Pipes : \A i \in DOMAIN readyQ[q] :
         /\ readyQ[q][i] \in Messages \ {m}
         /\ mem'[readyQ[q][i]] = mem[readyQ[q][i]]
  <2>1. \A q \in Pipes : \A i \in DOMAIN readyQ[q] :
           readyQ[q][i] \in Messages \ {m}
    BY DEF BridgeInv, Placed, Messages
  <2>2. \A x \in Messages \ {m} : mem'[x] = mem[x]
    BY DEF ReadyMessage, CopyAndAck
  <2>. QED BY <2>1, <2>2
<1>2. ASSUME NEW q \in Pipes, q # p
      PROVE  FifoStep(q)
  <2>1. /\ readyQ'[q] = readyQ[q] /\ delivered'[q] = delivered[q]
        /\ produced'[q] = produced[q]
    BY <1>t, <1>2 DEF ReadyMessage, CopyAndAck, TypeOK
  <2>. QED BY <1>1, <2>1, Elsewhere
<1>3. FifoStep(p)
  <2>1. /\ readyQ[p] \in Seq(Messages) /\ mem \in [Messages -> Nat]
        /\ mem' \in [Messages -> Nat]
    BY <1>t DEF TypeOK
  <2>2. Len(Queue(p)) = Len(readyQ[p])
    BY <2>1, ContentsSeq DEF Queue
  <2>3. CASE pendQ[p] # <<>>
    <3>1. readyQ[p] = <<>> /\ readyQ' = readyQ
      BY <2>3 DEF BridgeInv, NotBothQueued, ReadyMessage
    <3>2. Queue(p) = <<>> /\ Queue(p)' = Queue(p)
      BY <3>1, ContentsEmpty DEF Queue
    <3>3. delivered'[p] = Append(delivered[p], produced[p] + 1)
      BY <1>t, <2>3 DEF ReadyMessage, CopyAndAck, TypeOK
    <3>. QED BY <1>p, <3>2, <3>3, ProduceStep
  <2>4. CASE pendQ[p] = <<>> /\ Len(readyQ[p]) < ReadySize[p]
    <3>1. /\ readyQ'[p] = Append(readyQ[p], m) /\ mem' = memory
          /\ delivered'[p] = delivered[p]
      BY <1>t, <2>4 DEF ReadyMessage, TypeOK
    <3>2. Queue(p)' = Append(Queue(p), produced[p] + 1)
      <4>1. Contents(Append(readyQ[p], m), mem')
              = Append(Contents(readyQ[p], mem), mem'[m])
        <5>1. \A i \in DOMAIN readyQ[p] : mem'[readyQ[p][i]] = mem[readyQ[p][i]]
          BY <1>1
        <5>. QED BY <1>m, <2>1, <5>1, ContentsAppend
      <4>. QED BY <3>1, <4>1 DEF Queue
    <3>. QED BY <1>p, <2>2, <2>4, <3>1, <3>2, ProduceStep
  <2>5. CASE pendQ[p] = <<>> /\ ~(Len(readyQ[p]) < ReadySize[p])
    <3>1. readyQ' = readyQ /\ delivered'[p] = delivered[p]
      BY <2>5 DEF ReadyMessage
    <3>2. Queue(p)' = Queue(p)
      BY <1>1, <3>1, ContentsSame DEF Queue
    <3>3. Len(readyQ[p]) = ReadySize[p]
      <4>1. /\ Len(readyQ[p]) \in Nat /\ ReadySize[p] \in Nat
            /\ Len(readyQ[p]) <= ReadySize[p]
        BY <1>t, <2>1, LenProperties, SizeAssumption DEF TypeOK
      <4>. QED BY <2>5, <4>1
    <3>. QED BY <1>p, <2>2, <3>1, <3>2, <3>3, ProduceStep
  <2>. QED BY <2>3, <2>4, <2>5
<1>. QED BY <1>2, <1>3

LEMMA NextRefines ==
    BridgeInv /\ [Next]_vars => \A p \in Pipes : FifoStep(p)
<1>. SUFFICES ASSUME BridgeInv, [Next]_vars
              PROVE  \A p \in Pipes : FifoStep(p)
  OBVIOUS
<1>t. TypeOK /\ TypeOK'
  BY TypeNext DEF BridgeInv
<1>1. ASSUME NEW p \in Pipes, NEW b \in Buffers, PostFilled(p, b)
      PROVE  \A q \in Pipes : FifoStep(q)
  <2>1. /\ readyQ[p] \in Seq(Messages) /\ readyQ[p] # <<>>
        /\ mem \in [Messages -> Nat] /\ mem' \in [Messages -> Nat]
        /\ Head(readyQ[p]) = readyQ[p][1] /\ 1 \in DOMAIN readyQ[p]
        /\ readyQ'[p] = Tail(readyQ[p])
        /\ delivered'[p] = Append(delivered[p], mem[Head(readyQ[p])])
        /\ produced' = produced
    BY <1>t, <1>1, TailSeq DEF PostFilled, CopyAndAck, TypeOK
  <2>2. \A x \in Messages : x # readyQ[p][1] => mem'[x] = mem[x]
    BY <1>t, <1>1, <2>1 DEF PostFilled, CopyAndAck, TypeOK
  <2>3. \A q \in Pipes : \A i \in DOMAIN readyQ[q] :
           ~(q = p /\ i = 1) => mem'[readyQ[q][i]] = mem[readyQ[q][i]]
    <3>1. \A q \in Pipes : \A i \in DOMAIN readyQ[q] :
             /\ readyQ[q][i] \in Messages
             /\ ~(q = p /\ i = 1) => readyQ[q][i] # readyQ[p][1]
      BY <2>1 DEF BridgeInv, QueuedOnce, Placed, Messages
    <3>. QED BY <2>2, <3>1
  <2>4. FifoStep(p)
    <3>1. /\ Contents(readyQ[p], mem) # <<>>
          /\ Head(Contents(readyQ[p], mem)) = mem[Head(readyQ[p])]
          /\ Contents(Tail(readyQ[p]), mem') = Tail(Contents(readyQ[p], mem))
      BY <2>1, <2>3, ContentsTail
    <3>2. /\ Queue(p) # <<>> /\ Queue(p)' = Tail(Queue(p))
          /\ delivered'[p] = Append(delivered[p], Head(Queue(p)))
      BY <2>1, <3>1 DEF Queue
    <3>. QED BY <2>1, <3>2, TakeStep
  <2>5. ASSUME NEW q \in Pipes, q # p
        PROVE  FifoStep(q)
    <3>1. readyQ'[q] = readyQ[q] /\ delivered'[q] = delivered[q]
      BY <1>t, <1>1, <2>5 DEF PostFilled, CopyAndAck, TypeOK
    <3>. QED BY <2>1, <2>3, <2>5, <3>1, Elsewhere
  <2>. QED BY <2>4, <2>5
<1>2. ASSUME NEW p \in Pipes, NEW b \in Buffers,
             PostPending(p, b) \/ PostLost(p, b)
      PROVE  \A q \in Pipes : FifoStep(q)
  BY <1>2, Elsewhere DEF PostPending, PostLost
<1>3. ASSUME NEW p \in Pipes, Inject(p)
      PROVE  \A q \in Pipes : FifoStep(q)
  <2>1. PICK c \in FreeCells :
           ReadyMessage(p, c, [mem EXCEPT ![c] = produced[p] + 1])
    BY <1>3 DEF Inject
  <2> DEFINE memory == [mem EXCEPT ![c] = produced[p] + 1]
  <2>2. /\ c \in Cells
        /\ memory \in [Messages -> Nat] /\ memory[c] = produced[p] + 1
        /\ \A x \in Messages \ {c} : memory[x] = mem[x]
    BY <1>t DEF TypeOK, FreeCells, Messages
  <2>3. \A q \in Pipes : \A i \in DOMAIN readyQ[q] : readyQ[q][i] # c
    BY <2>2 DEF BridgeInv, QueuedOnce, IsInjected
  <2>4. produced' = [produced EXCEPT ![p] = @ + 1]
    BY <1>3 DEF Inject
  <2>5. ReadyMessage(p, c, memory)
    BY <2>1
  <2>. HIDE DEF memory
  <2>. QED BY <1>t, <2>2, <2>3, <2>4, <2>5, ReadyMessageRefines
<1>4. ASSUME NEW p \in Pipes, OH1Reply(p)
      PROVE  \A q \in Pipes : FifoStep(q)
  <2> DEFINE memory == [mem EXCEPT ![p] = produced[p] + 1]
  <2>1. inOH1[p] = 1
    BY <1>t, <1>4 DEF OH1Reply, BridgeInv, HandDownNotAliased, TypeOK
  <2>2. /\ memory \in [Messages -> Nat] /\ memory[p] = produced[p] + 1
        /\ \A x \in Messages \ {p} : memory[x] = mem[x]
    BY <1>t DEF TypeOK, Messages
  <2>3. \A q \in Pipes : \A i \in DOMAIN readyQ[q] : readyQ[q][i] # p
    BY <2>1, PointerAssumption DEF BridgeInv, Placed, HandDownNotAliased
  <2>4. produced' = [produced EXCEPT ![p] = @ + 1]
    BY <1>4 DEF OH1Reply
  <2>5. ReadyMessage(p, p, memory)
    BY <1>4 DEF OH1Reply
  <2>. HIDE DEF memory
  <2>. QED BY <1>t, <2>2, <2>3, <2>4, <2>5, ReadyMessageRefines
<1>5. CASE UNCHANGED vars
  BY <1>5, Elsewhere DEF vars
<1>. QED BY <1>1, <1>2, <1>3, <1>4, <1>5 DEF Next, HostPost

(***************************************************************************)
(* Refinement: every behaviour of the bridge is, on each pipe, one of the  *)
(* abstract queue.                                                         *)
(***************************************************************************)
THEOREM Refines == Spec => PipesAreFifos
<1>1. BridgeInv /\ [Next]_vars
        => [\A p \in Pipes : [Fifo(p)!Next]_(Fifo(p)!vars)]_vars
  BY NextRefines DEF FifoStep
<1>. QED BY <1>1, InitRefines, BridgeInvariant, PTL DEF Spec, PipesAreFifos

(***************************************************************************)
(* Order.  InSequence is the inductive form of it on the three values of   *)
(* an abstract queue: what waits continues what was delivered, and nothing *)
(* in either is newer than the last event produced.                        *)
(***************************************************************************)
Increasing(s) == \A i, j \in DOMAIN s : i < j => s[i] < s[j]

InSequence(n, queue, done) ==
    /\ n \in Nat /\ queue \in Seq(Nat) /\ done \in Seq(Nat)
    /\ Increasing(done)
    /\ Increasing(queue)
    /\ \A i \in DOMAIN done, j \in DOMAIN queue : done[i] < queue[j]
    /\ \A i \in DOMAIN done : done[i] <= n
    /\ \A j \in DOMAIN queue : queue[j] <= n

LEMMA SequenceTypes ==
    ASSUME NEW n, NEW queue, NEW done, InSequence(n, queue, done)
    PROVE  /\ n \in Nat /\ n + 1 \in Nat
           /\ DOMAIN queue = 1..Len(queue) /\ Len(queue) \in Nat
           /\ DOMAIN done = 1..Len(done) /\ Len(done) \in Nat
           /\ \A i \in DOMAIN queue : queue[i] \in Nat
           /\ \A i \in DOMAIN done : done[i] \in Nat
           /\ \A i \in DOMAIN queue : queue[i] < n + 1
           /\ \A i \in DOMAIN done : done[i] < n + 1
BY LenProperties, ElementOfSeq DEF InSequence

LEMMA IncreasingAppend ==
    ASSUME NEW s \in Seq(Nat), Increasing(s), NEW n \in Nat,
           \A i \in DOMAIN s : s[i] < n
    PROVE  Increasing(Append(s, n))
<1>1. /\ DOMAIN s = 1..Len(s) /\ Len(s) \in Nat
      /\ \A i \in DOMAIN s : s[i] \in Nat
  BY LenProperties, ElementOfSeq
<1>2. /\ DOMAIN Append(s, n) = 1..(Len(s) + 1)
      /\ \A i \in 1..Len(s) : Append(s, n)[i] = s[i]
      /\ Append(s, n)[Len(s) + 1] = n
  BY <1>1, AppendSeq
<1>3. SUFFICES ASSUME NEW i \in 1..(Len(s) + 1), NEW j \in 1..(Len(s) + 1), i < j
               PROVE  Append(s, n)[i] < Append(s, n)[j]
  BY <1>2 DEF Increasing
<1>4. i \in DOMAIN s /\ Append(s, n)[i] = s[i]
  BY <1>1, <1>2, <1>3
<1>5. CASE j = Len(s) + 1
  BY <1>2, <1>4, <1>5
<1>6. CASE j \in 1..Len(s)
  BY <1>1, <1>2, <1>3, <1>4, <1>6 DEF Increasing
<1>. QED BY <1>1, <1>5, <1>6

\* An event is produced: delivered at once, queued, or lost.
LEMMA SequenceDelivered ==
    ASSUME NEW n, NEW done, InSequence(n, <<>>, done)
    PROVE  InSequence(n + 1, <<>>, Append(done, n + 1))
<1> DEFINE new == Append(done, n + 1)
<1>0. DOMAIN <<>> = {} /\ <<>> \in Seq(Nat)
  BY EmptySeq, LenProperties
<1>1. /\ n + 1 \in Nat /\ DOMAIN done = 1..Len(done) /\ Len(done) \in Nat
      /\ \A i \in DOMAIN done : done[i] < n + 1
      /\ done \in Seq(Nat) /\ Increasing(done)
  BY SequenceTypes DEF InSequence
<1>2. /\ new \in Seq(Nat) /\ DOMAIN new = 1..(Len(done) + 1)
      /\ \A i \in DOMAIN done : new[i] = done[i]
      /\ new[Len(done) + 1] = n + 1
  BY <1>1, AppendSeq
<1>3. Increasing(new)
  BY <1>1, IncreasingAppend
<1>4. \A i \in DOMAIN new : new[i] <= n + 1
  <2>1. \A i \in DOMAIN new : i \in DOMAIN done \/ i = Len(done) + 1
    BY <1>1, <1>2
  <2>2. \A i \in DOMAIN done : done[i] <= n + 1
    BY <1>1, ElementOfSeq
  <2>3. n + 1 <= n + 1
    BY <1>1
  <2>. HIDE DEF new
  <2>. QED BY <1>2, <2>1, <2>2, <2>3
<1>5. Increasing(<<>>)
  BY <1>0 DEF Increasing
<1>. HIDE DEF new
<1>6. InSequence(n + 1, <<>>, new)
  BY <1>0, <1>1, <1>2, <1>3, <1>4, <1>5 DEF InSequence
<1>. QED BY <1>6 DEF new

LEMMA SequenceQueued ==
    ASSUME NEW n, NEW queue, NEW done, InSequence(n, queue, done)
    PROVE  InSequence(n + 1, Append(queue, n + 1), done)
<1> DEFINE new == Append(queue, n + 1)
<1>1. /\ n \in Nat /\ n + 1 \in Nat
      /\ DOMAIN queue = 1..Len(queue) /\ Len(queue) \in Nat
      /\ \A i \in DOMAIN queue : queue[i] < n + 1 /\ queue[i] \in Nat
      /\ \A i \in DOMAIN done : done[i] < n + 1 /\ done[i] \in Nat
      /\ queue \in Seq(Nat) /\ Increasing(queue)
      /\ done \in Seq(Nat) /\ Increasing(done)
      /\ \A i \in DOMAIN done, j \in DOMAIN queue : done[i] < queue[j]
  BY SequenceTypes DEF InSequence
<1>2. /\ new \in Seq(Nat) /\ DOMAIN new = 1..(Len(queue) + 1)
      /\ \A i \in DOMAIN queue : new[i] = queue[i]
      /\ new[Len(queue) + 1] = n + 1
  BY <1>1, AppendSeq
<1>3. Increasing(new)
  BY <1>1, IncreasingAppend
<1>. HIDE DEF new
<1>4. \A j \in DOMAIN new : j \in DOMAIN queue \/ j = Len(queue) + 1
  BY <1>1, <1>2
<1>5. \A j \in DOMAIN new : new[j] <= n + 1
  <2>1. \A j \in DOMAIN queue : queue[j] <= n + 1
    BY <1>1
  <2>2. n + 1 <= n + 1
    BY <1>1
  <2>. QED BY <1>2, <1>4, <2>1, <2>2
<1>6. \A i \in DOMAIN done, j \in DOMAIN new : done[i] < new[j]
  BY <1>1, <1>2, <1>4
<1>7. \A i \in DOMAIN done : done[i] <= n + 1
  BY <1>1
<1>8. InSequence(n + 1, new, done)
  BY <1>1, <1>2, <1>3, <1>5, <1>6, <1>7 DEF InSequence
<1>. QED BY <1>8 DEF new

LEMMA SequenceLost ==
    ASSUME NEW n, NEW queue, NEW done, InSequence(n, queue, done)
    PROVE  InSequence(n + 1, queue, done)
<1>1. /\ n + 1 \in Nat
      /\ \A i \in DOMAIN queue : queue[i] <= n + 1
      /\ \A i \in DOMAIN done : done[i] <= n + 1
  BY SequenceTypes
<1>. QED BY <1>1 DEF InSequence

\* The host takes the oldest event that waits.
LEMMA SequenceTaken ==
    ASSUME NEW n, NEW queue, NEW done, InSequence(n, queue, done), queue # <<>>
    PROVE  InSequence(n, Tail(queue), Append(done, Head(queue)))
<1> DEFINE rest == Tail(queue)
           new == Append(done, Head(queue))
<1>1. /\ n \in Nat
      /\ DOMAIN queue = 1..Len(queue) /\ Len(queue) \in Nat
      /\ DOMAIN done = 1..Len(done) /\ Len(done) \in Nat
      /\ queue \in Seq(Nat) /\ done \in Seq(Nat)
      /\ \A i \in DOMAIN queue : queue[i] \in Nat /\ queue[i] <= n
      /\ \A i \in DOMAIN done : done[i] \in Nat /\ done[i] <= n
      /\ Increasing(queue) /\ Increasing(done)
      /\ \A i \in DOMAIN done, j \in DOMAIN queue : done[i] < queue[j]
  BY SequenceTypes DEF InSequence
<1>2. /\ Head(queue) = queue[1] /\ Head(queue) \in Nat /\ 1 \in DOMAIN queue
      /\ rest \in Seq(Nat) /\ DOMAIN rest = 1..(Len(queue) - 1)
      /\ \A i \in DOMAIN rest : i + 1 \in DOMAIN queue /\ rest[i] = queue[i + 1]
  BY <1>1, TailSeq
<1>3. /\ new \in Seq(Nat) /\ DOMAIN new = 1..(Len(done) + 1)
      /\ \A i \in DOMAIN done : new[i] = done[i]
      /\ new[Len(done) + 1] = queue[1]
  BY <1>1, <1>2, AppendSeq
<1>4. Increasing(new)
  <2>1. \A i \in DOMAIN done : done[i] < Head(queue)
    BY <1>1, <1>2
  <2>. QED BY <1>1, <1>2, <2>1, IncreasingAppend
<1>. HIDE DEF rest, new
<1>5. \A j \in DOMAIN rest : j \in Nat /\ 1 < j + 1 /\ queue[1] < rest[j]
  <2>1. \A j \in DOMAIN rest : j \in Nat /\ 1 < j + 1
    BY <1>1, <1>2
  <2>2. \A j \in DOMAIN queue : 1 < j => queue[1] < queue[j]
    BY <1>1, <1>2 DEF Increasing
  <2>. QED BY <1>2, <2>1, <2>2
<1>6. Increasing(rest)
  <2>1. SUFFICES ASSUME NEW i \in DOMAIN rest, NEW j \in DOMAIN rest, i < j
                 PROVE  rest[i] < rest[j]
    BY DEF Increasing
  <2>2. i + 1 < j + 1
    BY <1>5, <2>1
  <2>. QED BY <1>1, <1>2, <2>2 DEF Increasing
<1>7. \A i \in DOMAIN new : i \in DOMAIN done \/ i = Len(done) + 1
  BY <1>1, <1>3
<1>8. \A i \in DOMAIN new, j \in DOMAIN rest : new[i] < rest[j]
  BY <1>1, <1>2, <1>3, <1>5, <1>7
<1>9. /\ \A i \in DOMAIN new : new[i] <= n
      /\ \A j \in DOMAIN rest : rest[j] <= n
  BY <1>1, <1>2, <1>3, <1>7
<1>10. InSequence(n, rest, new)
  BY <1>1, <1>2, <1>3, <1>4, <1>6, <1>8, <1>9 DEF InSequence
<1>. QED BY <1>10 DEF rest, new

PipeInSequence(p) == InSequence(produced[p], Queue(p), delivered[p])

LEMMA SequenceInit == Init => \A p \in Pipes : PipeInSequence(p)
<1>. SUFFICES ASSUME Init, NEW p \in Pipes PROVE PipeInSequence(p)
  OBVIOUS
<1>1. /\ produced[p] = 0 /\ delivered[p] = <<>> /\ Queue(p) = <<>>
  BY ContentsEmpty DEF Init, Queue
<1>2. DOMAIN <<>> = {} /\ <<>> \in Seq(Nat)
  BY EmptySeq, LenProperties
<1>. QED BY <1>1, <1>2 DEF PipeInSequence, InSequence, Increasing

\* A step of the abstract queue, told in the variables of the bridge.
LEMMA StepsOfPipe ==
    ASSUME NEW p \in Pipes, FifoStep(p)
    PROVE  \/ /\ produced'[p] = produced[p] + 1
              /\ \/ /\ Queue(p) = <<>> /\ Queue(p)' = Queue(p)
                    /\ delivered'[p] = Append(delivered[p], produced[p] + 1)
                 \/ /\ Queue(p)' = Append(Queue(p), produced[p] + 1)
                    /\ delivered'[p] = delivered[p]
                 \/ /\ Queue(p)' = Queue(p)
                    /\ delivered'[p] = delivered[p]
           \/ /\ produced'[p] = produced[p]
              /\ Queue(p) # <<>> /\ Queue(p)' = Tail(Queue(p))
              /\ delivered'[p] = Append(delivered[p], Head(Queue(p)))
           \/ /\ produced'[p] = produced[p] /\ Queue(p)' = Queue(p)
              /\ delivered'[p] = delivered[p]
BY DEF FifoStep, Fifo!Next, Fifo!Produce, Fifo!Take, Fifo!vars, Queue, Contents

LEMMA SequenceStep ==
    ASSUME NEW p \in Pipes, PipeInSequence(p), FifoStep(p)
    PROVE  PipeInSequence(p)'
<1> DEFINE n == produced[p]
           q == Queue(p)
           d == delivered[p]
           nn == produced'[p]
           qq == Queue(p)'
           dd == delivered'[p]
<1>1. InSequence(n, q, d)
  BY DEF PipeInSequence
<1>2. \/ nn = n + 1 /\ q = <<>> /\ qq = q /\ dd = Append(d, n + 1)
      \/ nn = n + 1 /\ qq = Append(q, n + 1) /\ dd = d
      \/ nn = n + 1 /\ qq = q /\ dd = d
      \/ nn = n /\ q # <<>> /\ qq = Tail(q) /\ dd = Append(d, Head(q))
      \/ nn = n /\ qq = q /\ dd = d
  BY StepsOfPipe
<1>3. InSequence(nn, qq, dd)
  <2>. HIDE DEF n, q, d, nn, qq, dd
  <2>. QED BY <1>1, <1>2, SequenceDelivered, SequenceQueued, SequenceLost,
              SequenceTaken
<1>. QED BY <1>3 DEF PipeInSequence

(***************************************************************************)
(* On every pipe the host receives events in the order in which they were  *)
(* produced, none twice, whatever was lost in between.                     *)
(***************************************************************************)
THEOREM Ordered == Spec => [](\A p \in Pipes : Fifo(p)!InOrder)
<1>1. /\ BridgeInv /\ (\A p \in Pipes : PipeInSequence(p)) /\ [Next]_vars
      => (\A p \in Pipes : PipeInSequence(p))'
  BY NextRefines, SequenceStep
<1>2. (\A p \in Pipes : PipeInSequence(p)) => \A p \in Pipes : Fifo(p)!InOrder
  BY DEF PipeInSequence, InSequence, Increasing, Fifo!InOrder, Fifo!Increasing
<1>. QED BY <1>1, <1>2, SequenceInit, BridgeInvariant, PTL DEF Spec
===============================================================================
