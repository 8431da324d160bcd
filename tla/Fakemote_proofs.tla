---------------------------- MODULE Fakemote_proofs ----------------------------
(***************************************************************************)
(* For every number of gamepads, Wiimotes, handles and queued events: a    *)
(* gamepad and the Wiimote that is assigned to it agree, no handle has two *)
(* owners, the tracked connections are those of the dongle, what the host  *)
(* sends reaches nobody else, and is credited to it once.                  *)
(***************************************************************************)
EXTENDS Fakemote, FiniteSetTheorems, SequenceTheorems, WellFoundedInduction, TLAPS

-----------------------------------------------------------------------------
(* Numbers and finite sets                                                  *)

LEMMA MinIn ==
    ASSUME NEW S \in SUBSET Nat, S # {}
    PROVE  Min(S) \in S
<1>1. PICK x \in S : \A y \in S : ~(<<y, x>> \in OpToRel(<, Nat))
  BY NatLessThanWellFounded, WFMin
<1>2. \A y \in S : ~(y < x)
  BY <1>1, Zenon DEF OpToRel
<1>3. \A y \in S : x <= y
  BY <1>2
<1>. QED BY <1>3 DEF Min

LEMMA RankSmaller ==
    ASSUME NEW S \in SUBSET Nat, IsFiniteSet(S), NEW a \in S, NEW b \in S, a < b
    PROVE  Rank(a, S) < Rank(b, S)
<1> DEFINE A == {y \in S : y < a}
           B == {y \in S : y < b}
           A2 == A \cup {a}
<1>1. IsFiniteSet(A) /\ IsFiniteSet(B)
  BY FS_Subset
<1>2. a \notin A /\ A2 \subseteq B
  <2>1. a \in Nat /\ b \in Nat
    OBVIOUS
  <2>2. ASSUME NEW y \in S PROVE y < a => y < b
    BY <2>1
  <2>3. ~(a < a)
    BY <2>1
  <2>. QED BY <2>2, <2>3, Zenon
<1> HIDE DEF A, B
<1>3. IsFiniteSet(A2) /\ Cardinality(A2) = Cardinality(A) + 1
  BY <1>1, <1>2, FS_AddElement
<1>4. Cardinality(A2) <= Cardinality(B)
  BY <1>1, <1>2, FS_Subset
<1>5. Cardinality(A) \in Nat /\ Cardinality(B) \in Nat
  BY <1>1, FS_CardinalityType
<1>6. Cardinality(A) < Cardinality(B)
  BY <1>3, <1>4, <1>5
<1>. QED BY <1>6 DEF Rank, A, B

\* The rank tells the members of a finite set apart.
LEMMA RankInjective ==
    ASSUME NEW S \in SUBSET Nat, IsFiniteSet(S), NEW a \in S, NEW b \in S,
           Rank(a, S) = Rank(b, S)
    PROVE  a = b
<1>1. Rank(a, S) \in Int
  BY FS_Subset, FS_CardinalityType DEF Rank
<1>2. ~(a < b) /\ ~(b < a)
  BY <1>1, RankSmaller
<1>. QED BY <1>2

\* A set has at most one member if any two of them are the same.
LEMMA AtMostOne ==
    ASSUME NEW S, \A a, b \in S : a = b
    PROVE  IsFiniteSet(S) /\ Cardinality(S) \in Nat /\ Cardinality(S) <= 1
<1>1. CASE S = {}
  BY <1>1, FS_EmptySet
<1>2. CASE S # {}
  <2>1. PICK a \in S : TRUE
    BY <1>2
  <2>2. S = {a}
    BY <2>1
  <2>3. IsFiniteSet(S) /\ Cardinality(S) = 1
    BY <2>2, FS_Singleton
  <2>. QED BY <2>3
<1>. QED BY <1>1, <1>2

-----------------------------------------------------------------------------
(* Queues                                                                   *)

\* Any finite sequence, of whatever.
Queue(q) == \E S : q \in Seq(S)

LEMMA QueueLen ==
    ASSUME NEW q, Queue(q)
    PROVE  Len(q) \in Nat /\ DOMAIN q = 1..Len(q)
BY LenProperties DEF Queue

LEMMA QueueAppend ==
    ASSUME NEW q, NEW e, Queue(q)
    PROVE  /\ Queue(Append(q, e)) /\ Len(Append(q, e)) = Len(q) + 1
           /\ \A i \in 1..Len(q) : Append(q, e)[i] = q[i]
           /\ Append(q, e)[Len(q) + 1] = e
<1>1. PICK S : q \in Seq(S)
  BY DEF Queue
<1> DEFINE T == S \cup {e}
<1>2. q \in Seq(T) /\ e \in T
  BY <1>1, SeqMonotonic
<1> HIDE DEF T
<1>3. /\ Append(q, e) \in Seq(T) /\ Len(Append(q, e)) = Len(q) + 1
      /\ \A i \in 1..Len(q) : Append(q, e)[i] = q[i]
      /\ Append(q, e)[Len(q) + 1] = e
  BY <1>2, AppendProperties
<1>. QED BY <1>3 DEF Queue

LEMMA QueueConcat ==
    ASSUME NEW q, NEW r, Queue(q), Queue(r)
    PROVE  /\ Queue(q \o r) /\ Len(q \o r) = Len(q) + Len(r)
           /\ \A i \in 1..Len(q) + Len(r) :
                 (q \o r)[i] = IF i <= Len(q) THEN q[i] ELSE r[i - Len(q)]
<1>1. PICK S : q \in Seq(S)
  BY DEF Queue
<1>2. PICK T : r \in Seq(T)
  BY DEF Queue
<1> DEFINE U == S \cup T
<1>3. q \in Seq(U) /\ r \in Seq(U)
  BY <1>1, <1>2, SeqMonotonic
<1> HIDE DEF U
<1>. QED BY <1>3, ConcatProperties DEF Queue

LEMMA QueueTail ==
    ASSUME NEW q, Queue(q), q # <<>>
    PROVE  /\ Len(q) \in Nat \ {0} /\ Head(q) = q[1]
           /\ Queue(Tail(q)) /\ Len(Tail(q)) = Len(q) - 1
           /\ \A i \in 1..Len(q) - 1 : Tail(q)[i] = q[i + 1]
<1>1. PICK S : q \in Seq(S)
  BY DEF Queue
<1>2. Len(q) \in Nat \ {0} /\ Head(q) = q[1]
  BY <1>1, EmptySeq
<1>. QED BY <1>1, <1>2, HeadTailProperties DEF Queue

-----------------------------------------------------------------------------
(* What every handler keeps                                                 *)

WiimoteRec == [active : BOOLEAN, baseband : {"request", "inactive", "complete"},
               handle : VirtHandles, dev : Slots \cup {NoSlot}, credits : Nat]
SlotRec == [device : Pads \cup {NoPad}, assigned : Wiimotes \cup {NoWiimote},
            delay : Nat]

\* The state of the module as a value, as Now has it.
Fields(a, b, c, d, e, f) ==
    [wm |-> a, slots |-> b, hci |-> c, evtQ |-> d, overflow |-> e, hung |-> f]

State(s) ==
    /\ s = Fields(s.wm, s.slots, s.hci, s.evtQ, s.overflow, s.hung)
    /\ s.wm \in [Wiimotes -> WiimoteRec]
    /\ s.slots \in [Slots -> SlotRec]
    /\ Queue(s.evtQ)

\* AssignedLink of a state.
Linked(s) ==
    \A sl \in Slots, w \in Wiimotes :
        s.slots[sl].device # NoPad /\ s.slots[sl].assigned = w
            => s.wm[w].active /\ s.wm[w].dev = sl

Sound(s) == State(s) /\ Linked(s)

\* Events that give the host no connection and do not end a reset.
Plainly(e) == e.type \notin {"con_compl", "reset_compl"}

\* Queue r is q with such events behind it.
Adds(q, r) ==
    /\ Queue(r) /\ Len(q) <= Len(r)
    /\ \A i \in 1..Len(q) : r[i] = q[i]
    /\ \A i \in 1..Len(r) : i > Len(q) => Plainly(r[i])

\* From s to t Wiimotes lose connections but get none.
Sheds(s, t) ==
    /\ t.hci = s.hci
    /\ \A w \in Wiimotes :
          Connected(t, w) => Connected(s, w) /\ t.wm[w].handle = s.wm[w].handle
    /\ Adds(s.evtQ, t.evtQ)

\* A field changes, or two.
LEMMA StateExcept ==
    ASSUME NEW s, State(s), NEW new, NEW new2
    PROVE  /\ [s EXCEPT !.evtQ = new]
                 = Fields(s.wm, s.slots, s.hci, new, s.overflow, s.hung)
           /\ [s EXCEPT !.overflow = new]
                 = Fields(s.wm, s.slots, s.hci, s.evtQ, new, s.hung)
           /\ [s EXCEPT !.wm = new]
                 = Fields(new, s.slots, s.hci, s.evtQ, s.overflow, s.hung)
           /\ [s EXCEPT !.slots = new]
                 = Fields(s.wm, new, s.hci, s.evtQ, s.overflow, s.hung)
           /\ [s EXCEPT !.wm = new, !.slots = new2]
                 = Fields(new, new2, s.hci, s.evtQ, s.overflow, s.hung)
           /\ [s EXCEPT !.wm = new, !.evtQ = new2]
                 = Fields(new, s.slots, s.hci, new2, s.overflow, s.hung)
<1> DEFINE a == s.wm
           b == s.slots
           c == s.hci
           d == s.evtQ
           e == s.overflow
           f == s.hung
<1>1. s = [wm |-> a, slots |-> b, hci |-> c, evtQ |-> d, overflow |-> e, hung |-> f]
  BY DEF State, Fields
<1> HIDE DEF a, b, c, d, e, f
<1>2. [s EXCEPT !.evtQ = new] = Fields(a, b, c, new, e, f)
  BY <1>1 DEF Fields
<1>3. [s EXCEPT !.overflow = new] = Fields(a, b, c, d, new, f)
  BY <1>1 DEF Fields
<1>4. [s EXCEPT !.wm = new] = Fields(new, b, c, d, e, f)
  BY <1>1 DEF Fields
<1>5. [s EXCEPT !.slots = new] = Fields(a, new, c, d, e, f)
  BY <1>1 DEF Fields
<1> DEFINE s1 == [s EXCEPT !.wm = new]
<1>6. /\ [s EXCEPT !.wm = new, !.slots = new2] = [s1 EXCEPT !.slots = new2]
      /\ [s EXCEPT !.wm = new, !.evtQ = new2] = [s1 EXCEPT !.evtQ = new2]
  OBVIOUS
<1>7. s1 = Fields(new, b, c, d, e, f)
  BY <1>4
<1> HIDE DEF s1
<1>8. /\ [s1 EXCEPT !.slots = new2] = Fields(new, new2, c, d, e, f)
      /\ [s1 EXCEPT !.evtQ = new2] = Fields(new, b, c, new2, e, f)
  BY <1>7 DEF Fields
<1>. QED BY <1>2, <1>3, <1>4, <1>5, <1>6, <1>8 DEF a, b, c, d, e, f

LEMMA ShedsNothing ==
    ASSUME NEW s, Queue(s.evtQ)
    PROVE  Sheds(s, s)
<1> DEFINE n == Len(s.evtQ)
<1>1. n \in Nat
  BY QueueLen
<1>2. \A i \in 1..n : ~(i > n)
  BY <1>1
<1>. QED BY <1>1, <1>2 DEF Sheds, Adds

LEMMA ShedsMore ==
    ASSUME NEW s, NEW t, NEW u, Queue(s.evtQ), Sheds(s, t), Sheds(t, u)
    PROVE  Sheds(s, u)
<1> DEFINE q == s.evtQ
           r == t.evtQ
           v == u.evtQ
<1>1. Queue(q) /\ Adds(q, r) /\ Adds(r, v)
  BY DEF Sheds
<1> HIDE DEF q, r, v
<1>2. Len(q) \in Nat /\ Len(r) \in Nat /\ Len(v) \in Nat
  BY <1>1, QueueLen DEF Adds
<1>3. Len(q) <= Len(r) /\ Len(r) <= Len(v)
  BY <1>1 DEF Adds
<1>4. ASSUME NEW i \in 1..Len(q) PROVE v[i] = q[i]
  <2>1. i \in 1..Len(r)
    BY <1>2, <1>3
  <2>. QED BY <1>1, <2>1 DEF Adds
<1>5. ASSUME NEW i \in 1..Len(v), i > Len(q) PROVE Plainly(v[i])
  <2>1. CASE i > Len(r)
    BY <1>1, <2>1 DEF Adds
  <2>2. CASE ~(i > Len(r))
    <3>1. i \in 1..Len(r)
      BY <1>2, <2>2
    <3>2. v[i] = r[i] /\ Plainly(r[i])
      BY <1>1, <1>5, <3>1 DEF Adds
    <3>. QED BY <3>2
  <2>. QED BY <2>1, <2>2
<1>6. Adds(q, v)
  <2>1. Len(q) <= Len(v) /\ Queue(v)
    BY <1>1, <1>2, <1>3 DEF Adds
  <2>. QED BY <1>4, <1>5, <2>1 DEF Adds
<1>. QED BY <1>6 DEF Sheds, q, v

LEMMA AddsOne ==
    ASSUME NEW q, NEW e, Queue(q), Plainly(e)
    PROVE  Adds(q, Append(q, e))
<1> DEFINE n == Len(q)
           r == Append(q, e)
<1>1. /\ n \in Nat /\ Queue(r) /\ Len(r) = n + 1 /\ r[n + 1] = e
      /\ \A i \in 1..n : r[i] = q[i]
  BY QueueLen, QueueAppend
<1> HIDE DEF n, r
<1>2. ASSUME NEW i \in 1..n + 1, i > n PROVE r[i] = e
  <2>1. i = n + 1
    BY <1>1, <1>2
  <2>. QED BY <1>1, <2>1
<1>3. n <= Len(r)
  BY <1>1
<1>4. \A i \in 1..Len(r) : i > n => Plainly(r[i])
  BY <1>1, <1>2
<1>. QED BY <1>1, <1>3, <1>4 DEF Adds, n, r

\* An event that finds no room changes nothing but the memory of it.
LEMMA InjectKeeps ==
    ASSUME NEW s, State(s), NEW e, Plainly(e)
    PROVE  /\ State(Inject(s, e)) /\ Sheds(s, Inject(s, e))
           /\ Inject(s, e).wm = s.wm /\ Inject(s, e).slots = s.slots
<1> DEFINE q == Append(s.evtQ, e)
           a == [s EXCEPT !.evtQ = q]
           b == [s EXCEPT !.overflow = TRUE]
<1>1. Adds(s.evtQ, q)
  BY AddsOne DEF State
<1>2. Inject(s, e) = a \/ Inject(s, e) = b
  BY DEF Inject
<1> HIDE DEF q
<1>3. /\ a = Fields(s.wm, s.slots, s.hci, q, s.overflow, s.hung)
      /\ b = Fields(s.wm, s.slots, s.hci, s.evtQ, TRUE, s.hung)
  BY StateExcept
<1> HIDE DEF a, b
<1>4. State(a) /\ Sheds(s, a) /\ a.wm = s.wm /\ a.slots = s.slots
  BY <1>1, <1>3 DEF State, Sheds, Connected, Adds, Fields
<1>5. State(b) /\ Sheds(s, b) /\ b.wm = s.wm /\ b.slots = s.slots
  <2>1. Adds(s.evtQ, s.evtQ)
    BY ShedsNothing DEF Sheds, State
  <2>. QED BY <1>3, <2>1 DEF State, Sheds, Connected, Fields
<1>. QED BY <1>2, <1>4, <1>5

\* A Wiimote that disconnects gives up its slot, whoever has it now.
Dropped(s, w, t) ==
    /\ State(t) /\ Sheds(s, t)
    /\ ~t.wm[w].active
    /\ \A x \in Wiimotes : x # w => t.wm[x] = s.wm[x]
    /\ \A sl \in Slots :
          /\ t.slots[sl].device = s.slots[sl].device
          /\ t.slots[sl].assigned = IF sl = s.wm[w].dev THEN NoWiimote
                                    ELSE s.slots[sl].assigned

LEMMA DisconnectKeeps ==
    ASSUME NEW s, State(s), NEW w \in Wiimotes
    PROVE  Dropped(s, w, Disconnect(s, w))
<1> DEFINE x == s.wm[w]
           y == [x EXCEPT !.active = FALSE]
           fakes == [s.wm EXCEPT ![w] = y]
           given == ReleaseWiimote(s.slots, x.dev)
           table == IF x.dev # NoSlot THEN given ELSE s.slots
           r == [s EXCEPT !.wm = fakes, !.slots = table]
           e == DisconCompl(x.handle)
<1>1. x \in WiimoteRec /\ y \in WiimoteRec /\ ~y.active
  BY DEF State, WiimoteRec
<1>2. /\ fakes \in [Wiimotes -> WiimoteRec] /\ fakes[w] = y
      /\ \A z \in Wiimotes : z # w => fakes[z] = s.wm[z]
  BY <1>1 DEF State
<1>3. /\ table \in [Slots -> SlotRec]
      /\ \A sl \in Slots :
            /\ table[sl].device = s.slots[sl].device
            /\ table[sl].assigned = IF sl = x.dev THEN NoWiimote
                                    ELSE s.slots[sl].assigned
  <2>1. CASE x.dev = NoSlot
    <3>1. table = s.slots /\ x.dev \notin Slots
      BY <2>1 DEF NoSlot, Slots
    <3>. QED BY <3>1 DEF State
  <2>2. CASE x.dev # NoSlot
    <3> DEFINE old == s.slots[x.dev]
               new == [old EXCEPT !.assigned = NoWiimote, !.delay = ReconnectDelay]
    <3>1. x.dev \in Slots /\ s.slots \in [Slots -> SlotRec]
      BY <1>1, <2>2 DEF State, WiimoteRec
    <3>2. old \in SlotRec
      BY <3>1
    <3> HIDE DEF old
    <3>3. new \in SlotRec /\ new.device = old.device /\ new.assigned = NoWiimote
      BY <3>2, CoreAssumption DEF SlotRec
    <3>4. table = [s.slots EXCEPT ![x.dev] = new]
      BY <2>2, <3>1 DEF ReleaseWiimote, old
    <3> HIDE DEF new, table, x
    <3>. QED BY <3>1, <3>3, <3>4 DEF old
  <2>. QED BY <2>1, <2>2
<1>4. Disconnect(s, w) = IF x.baseband = "complete" THEN Inject(r, e) ELSE r
  BY DEF Disconnect
<1> HIDE DEF fakes, table
<1>5. r = Fields(fakes, table, s.hci, s.evtQ, s.overflow, s.hung)
  BY StateExcept
<1> HIDE DEF r
<1>6. State(r) /\ r.wm = fakes /\ r.slots = table
  BY <1>2, <1>3, <1>5 DEF State, Fields
<1>7. Sheds(s, r)
  <2>1. r.hci = s.hci /\ r.evtQ = s.evtQ
    BY <1>5 DEF Fields
  <2>2. ASSUME NEW z \in Wiimotes, Connected(r, z) PROVE z # w /\ r.wm[z] = s.wm[z]
    BY <1>1, <1>2, <1>6, <2>2 DEF Connected
  <2>3. \A z \in Wiimotes :
           Connected(r, z) => Connected(s, z) /\ r.wm[z].handle = s.wm[z].handle
    BY <2>2 DEF Connected
  <2>4. Adds(s.evtQ, s.evtQ)
    BY ShedsNothing DEF Sheds, State
  <2>. QED BY <2>1, <2>3, <2>4 DEF Sheds
<1>8. Dropped(s, w, r)
  BY <1>1, <1>2, <1>3, <1>6, <1>7 DEF Dropped
<1>9. Plainly(e)
  BY DEF Plainly, DisconCompl
<1>10. Dropped(s, w, Inject(r, e))
  <2> DEFINE t == Inject(r, e)
  <2>1. State(t) /\ Sheds(r, t) /\ t.wm = r.wm /\ t.slots = r.slots
    BY <1>6, <1>9, InjectKeeps
  <2> HIDE DEF t
  <2>2. Sheds(s, t)
    <3>1. Queue(s.evtQ)
      BY DEF State
    <3>. QED BY <1>7, <2>1, <3>1, ShedsMore, Zenon
  <2>. QED BY <1>8, <2>1, <2>2 DEF Dropped, t
<1>. QED BY <1>4, <1>8, <1>10

-----------------------------------------------------------------------------
(* The periodic timer                                                       *)

\* A table of slots that is as well linked may take the place of the old one.
LEMMA SlotsChange ==
    ASSUME NEW s, Sound(s), NEW table \in [Slots -> SlotRec],
           \A sl \in Slots :
              table[sl].device # NoPad /\ table[sl].assigned # NoWiimote
              => /\ s.slots[sl].device = table[sl].device
                 /\ s.slots[sl].assigned = table[sl].assigned
    PROVE  /\ Sound([s EXCEPT !.slots = table])
           /\ Sheds(s, [s EXCEPT !.slots = table])
<1> DEFINE t == [s EXCEPT !.slots = table]
<1>1. State(s)
  BY DEF Sound
<1>2. t = Fields(s.wm, table, s.hci, s.evtQ, s.overflow, s.hung)
  BY <1>1, StateExcept
<1> HIDE DEF t
<1>3. State(t) /\ t.wm = s.wm /\ t.slots = table
  BY <1>1, <1>2 DEF State, Fields
<1>4. Linked(t)
  <2> SUFFICES ASSUME NEW sl \in Slots, NEW w \in Wiimotes,
                      table[sl].device # NoPad, table[sl].assigned = w
               PROVE  s.wm[w].active /\ s.wm[w].dev = sl
    BY <1>3 DEF Linked
  <2>1. w # NoWiimote
    BY DEF Wiimotes, NoWiimote
  <2>2. s.slots[sl].device # NoPad /\ s.slots[sl].assigned = w
    BY <2>1
  <2>. QED BY <2>2 DEF Sound, Linked
<1>5. Sheds(s, t)
  <2>1. Sheds(s, s) /\ t.hci = s.hci /\ t.evtQ = s.evtQ
    BY <1>1, <1>2, ShedsNothing DEF State, Fields
  <2>. QED BY <1>3, <2>1 DEF Sheds, Connected
<1>. QED BY <1>3, <1>4, <1>5 DEF Sound, t

LEMMA SlotsOfNat ==
    ASSUME NEW table, NEW d
    PROVE  SlotsOf(table, d) \in SUBSET Nat
BY DEF SlotsOf, Slots

LEMMA AddedKeeps ==
    ASSUME NEW s, Sound(s), NEW d \in Pads
    PROVE  /\ Sound([s EXCEPT !.slots = DeviceAdded(@, d)])
           /\ Sheds(s, [s EXCEPT !.slots = DeviceAdded(@, d)])
<1> DEFINE free == SlotsOf(s.slots, NoPad)
           new == [device |-> d, assigned |-> NoWiimote, delay |-> 0]
           table == DeviceAdded(s.slots, d)
           sl == Min(free)
<1>1. s.slots \in [Slots -> SlotRec]
  BY DEF Sound, State
<1>2. new \in SlotRec /\ new.assigned = NoWiimote
  BY DEF SlotRec
<1>3. CASE free = {}
  <2>1. table = s.slots
    BY <1>3 DEF DeviceAdded
  <2>. QED BY <1>1, <2>1, SlotsChange
<1>4. CASE free # {}
  <2>1. sl \in Slots
    <3>1. sl \in free
      BY <1>4, MinIn, SlotsOfNat
    <3>. QED BY <3>1 DEF SlotsOf
  <2>2. table = [s.slots EXCEPT ![sl] = new]
    BY <1>4 DEF DeviceAdded
  <2> HIDE DEF new, sl, table
  <2>3. /\ table \in [Slots -> SlotRec]
        /\ \A x \in Slots : table[x] = IF x = sl THEN new ELSE s.slots[x]
    BY <1>1, <1>2, <2>1, <2>2
  <2>. QED BY <1>2, <2>3, SlotsChange DEF table
<1>. QED BY <1>3, <1>4

LEMMA DevicesTickKeeps ==
    ASSUME NEW s, Sound(s)
    PROVE  /\ Sound([s EXCEPT !.slots = DevicesTick(@)])
           /\ Sheds(s, [s EXCEPT !.slots = DevicesTick(@)])
<1> DEFINE table == DevicesTick(s.slots)
<1>1. s.slots \in [Slots -> SlotRec]
  BY DEF Sound, State
<1>2. ASSUME NEW sl \in Slots
      PROVE  /\ table[sl] \in SlotRec /\ table[sl].device = s.slots[sl].device
             /\ table[sl].assigned = s.slots[sl].assigned
  <2> DEFINE x == s.slots[sl]
             y == [x EXCEPT !.delay = @ - 1]
  <2>1. x \in SlotRec
    BY <1>1
  <2>2. table[sl] = x \/ (x.delay > 0 /\ table[sl] = y)
    BY DEF DevicesTick
  <2> HIDE DEF x, table
  <2>3. x.delay > 0 => y \in SlotRec /\ y.device = x.device /\ y.assigned = x.assigned
    BY <2>1 DEF SlotRec
  <2>. QED BY <2>1, <2>2, <2>3 DEF x
<1>3. table \in [Slots -> SlotRec]
  <2>1. table = [sl \in Slots |-> table[sl]]
    BY DEF DevicesTick
  <2> HIDE DEF table
  <2>. QED BY <1>2, <2>1
<1> HIDE DEF table
<1>. QED BY <1>2, <1>3, SlotsChange DEF table

\* The Wiimote that loses its gamepad forgets the slot before it is disconnected;
\* no other slot with a gamepad is its own.
LEMMA RemovedKeeps ==
    ASSUME NEW s, Sound(s), NEW d \in Pads
    PROVE  Sound(DeviceRemoved(s, d)) /\ Sheds(s, DeviceRemoved(s, d))
<1> DEFINE held == SlotsOf(s.slots, d)
           sl == Min(held)
           w == s.slots[sl].assigned
           x == [s.wm[w] EXCEPT !.dev = NoSlot]
           r == [s EXCEPT !.wm[w].dev = NoSlot]
           t == IF w = NoWiimote THEN s ELSE Disconnect(r, w)
           u == [t EXCEPT !.slots = ClearDevice(@, sl)]
<1>1. /\ State(s) /\ s.slots \in [Slots -> SlotRec] /\ s.wm \in [Wiimotes -> WiimoteRec]
      /\ Linked(s)
  BY DEF Sound, State
<1>2. CASE held = {}
  <2>1. DeviceRemoved(s, d) = s
    BY <1>2 DEF DeviceRemoved
  <2>. QED BY <1>1, <2>1, ShedsNothing DEF State
<1>3. CASE held # {}
  <2>1. sl \in Slots /\ s.slots[sl].device = d /\ d # NoPad
    <3>1. sl \in held
      BY <1>3, MinIn, SlotsOfNat
    <3>. QED BY <3>1, SlotAssumption DEF SlotsOf
  <2>2. DeviceRemoved(s, d) = u
    BY <1>3 DEF DeviceRemoved
  <2>3. /\ State(t) /\ Sheds(s, t)
        /\ \A y \in Slots :
              /\ t.slots[y].device = s.slots[y].device
              /\ t.slots[y].assigned = s.slots[y].assigned
        /\ \A z \in Wiimotes : z # w => t.wm[z] = s.wm[z]
    <3>1. CASE w = NoWiimote
      BY <1>1, <3>1, ShedsNothing DEF State
    <3>2. CASE w # NoWiimote
      <4>1. w \in Wiimotes
        <5>1. s.slots[sl] \in SlotRec
          BY <1>1, <2>1
        <5>. QED BY <3>2, <5>1 DEF SlotRec
      <4>2. s.wm[w] \in WiimoteRec
        BY <1>1, <4>1
      <4>3. /\ x \in WiimoteRec /\ x.dev = NoSlot /\ x.active = s.wm[w].active
            /\ x.baseband = s.wm[w].baseband /\ x.handle = s.wm[w].handle
        BY <4>2 DEF WiimoteRec
      <4> DEFINE fakes == [s.wm EXCEPT ![w] = x]
      <4>4. r = [s EXCEPT !.wm = fakes]
        OBVIOUS
      <4> HIDE DEF x, w
      <4>5. /\ fakes \in [Wiimotes -> WiimoteRec] /\ fakes[w] = x
            /\ \A z \in Wiimotes : z # w => fakes[z] = s.wm[z]
        BY <1>1, <4>1, <4>3
      <4> HIDE DEF fakes, r
      <4>6. r = Fields(fakes, s.slots, s.hci, s.evtQ, s.overflow, s.hung)
        BY <1>1, <4>4, StateExcept
      <4>7. /\ State(r) /\ r.wm = fakes /\ r.slots = s.slots
            /\ r.hci = s.hci /\ r.evtQ = s.evtQ
        BY <1>1, <4>5, <4>6 DEF State, Fields
      <4>8. \A z \in Wiimotes : Connected(r, z) =>
                Connected(s, z) /\ r.wm[z].handle = s.wm[z].handle
        BY <4>3, <4>5, <4>7 DEF Connected
      <4>9. Sheds(s, r)
        <5>1. Sheds(s, s)
          BY <1>1, ShedsNothing DEF State
        <5>. QED BY <4>7, <4>8, <5>1 DEF Sheds
      <4>10. Dropped(r, w, Disconnect(r, w)) /\ t = Disconnect(r, w)
        BY <3>2, <4>1, <4>7, DisconnectKeeps
      <4>11. Queue(s.evtQ)
        BY <1>1 DEF State
      <4> HIDE DEF t
      <4>12. Sheds(s, t) /\ State(t)
        BY <4>9, <4>10, <4>11, ShedsMore DEF Dropped
      <4>13. NoSlot \notin Slots
        BY DEF NoSlot, Slots
      <4>. QED BY <4>3, <4>5, <4>7, <4>10, <4>12, <4>13 DEF Dropped
    <3>. QED BY <3>1, <3>2
  <2> DEFINE gone == [t.slots[sl] EXCEPT !.device = NoPad]
             table == [t.slots EXCEPT ![sl] = gone]
  <2>4. u = [t EXCEPT !.slots = table]
    BY DEF ClearDevice
  <2> HIDE DEF t, u, sl
  <2>5. t.slots \in [Slots -> SlotRec] /\ t.slots[sl] \in SlotRec
    BY <2>1, <2>3 DEF State
  <2>6. gone \in SlotRec /\ gone.device = NoPad
    BY <2>5 DEF SlotRec
  <2>7. /\ table \in [Slots -> SlotRec] /\ table[sl].device = NoPad
        /\ \A y \in Slots : y # sl => table[y] = t.slots[y]
    BY <2>1, <2>5, <2>6
  <2> HIDE DEF table
  <2>8. u = Fields(t.wm, table, t.hci, t.evtQ, t.overflow, t.hung)
    BY <2>3, <2>4, StateExcept
  <2>9. State(u) /\ u.wm = t.wm /\ u.slots = table
    BY <2>3, <2>7, <2>8 DEF State, Fields
  <2>10. Sheds(t, u)
    <3>1. Sheds(t, t) /\ u.hci = t.hci /\ u.evtQ = t.evtQ
      BY <2>3, <2>8, ShedsNothing DEF State, Fields
    <3>. QED BY <2>9, <3>1 DEF Sheds, Connected
  <2>11. Sheds(s, u)
    BY <1>1, <2>3, <2>10, ShedsMore DEF State
  <2>12. Linked(u)
    <3> SUFFICES ASSUME NEW y \in Slots, NEW z \in Wiimotes,
                        table[y].device # NoPad, table[y].assigned = z
                 PROVE  t.wm[z].active /\ t.wm[z].dev = y
      BY <2>9 DEF Linked
    <3>1. y # sl /\ s.slots[y].device # NoPad /\ s.slots[y].assigned = z
      BY <2>3, <2>7
    <3>2. s.wm[z].active /\ s.wm[z].dev = y
      BY <1>1, <3>1 DEF Linked
    <3>3. z # w
      <4>1. ASSUME z = w PROVE s.wm[z].dev = sl
        BY <1>1, <2>1, <4>1, SlotAssumption DEF Linked
      <4>. QED BY <3>1, <3>2, <4>1
    <3>. QED BY <2>3, <3>2, <3>3
  <2>. QED BY <2>2, <2>9, <2>11, <2>12 DEF Sound
<1>. QED BY <1>2, <1>3

LEMMA EgcEventKeeps ==
    ASSUME NEW s, Sound(s), NEW in \in SUBSET Pads, NEW e \in EgcEvents(in)
    PROVE  Sound(EgcEvent(s, e)) /\ Sheds(s, EgcEvent(s, e))
<1>1. CASE e = NoEgc
  <2>1. EgcEvent(s, e) = s
    BY <1>1 DEF EgcEvent, NoEgc
  <2>. QED BY <2>1, ShedsNothing DEF Sound, State
<1>2. ASSUME NEW d \in Pads, e = Attach(d)
      PROVE  Sound(EgcEvent(s, e)) /\ Sheds(s, EgcEvent(s, e))
  <2>1. e.type = "added" /\ e.pad = d
    BY <1>2 DEF Attach
  <2>2. EgcEvent(s, e) = [s EXCEPT !.slots = DeviceAdded(@, d)]
    BY <2>1 DEF EgcEvent
  <2>. QED BY <2>2, AddedKeeps
<1>3. ASSUME NEW d \in Pads, e = Detach(d)
      PROVE  Sound(EgcEvent(s, e)) /\ Sheds(s, EgcEvent(s, e))
  <2>1. e.type = "removed" /\ e.pad = d
    BY <1>3 DEF Detach
  <2>2. EgcEvent(s, e) = DeviceRemoved(s, d)
    BY <2>1 DEF EgcEvent
  <2>. QED BY <2>2, RemovedKeeps
<1>. QED BY <1>1, <1>2, <1>3 DEF EgcEvents

LEMMA PairUnique ==
    ASSUME NEW s, NEW w, NEW w2, NEW sl, NEW sl2
    PROVE  /\ Pair(s, w, sl) => w \in Wiimotes /\ ~s.wm[w].active /\ sl \in Slots
           /\ Pair(s, w, sl) /\ Pair(s, w, sl2) => sl = sl2
           /\ Pair(s, w, sl) /\ Pair(s, w2, sl) => w = w2
<1> DEFINE idle == {x \in Wiimotes : ~s.wm[x].active}
           free == Unassigned(s.slots)
<1>1. IsFiniteSet(Wiimotes) /\ IsFiniteSet(Slots)
  BY CoreAssumption, SlotAssumption, FS_Interval DEF Wiimotes, Slots
<1>2. /\ idle \in SUBSET Wiimotes /\ idle \in SUBSET Nat
      /\ free \in SUBSET Slots /\ free \in SUBSET Nat
  BY DEF Wiimotes, Slots, Unassigned
<1>3. IsFiniteSet(idle) /\ IsFiniteSet(free)
  BY <1>1, <1>2, FS_Subset
<1>4. ASSUME NEW x, NEW y
      PROVE  Pair(s, x, y) <=> x \in idle /\ y \in free /\ Rank(x, idle) = Rank(y, free)
  BY Zenon DEF Pair
<1>5. Pair(s, w, sl) => w \in Wiimotes /\ ~s.wm[w].active /\ sl \in Slots
  BY <1>2, <1>4
<1> HIDE DEF idle, free
<1>6. ASSUME Pair(s, w, sl), Pair(s, w, sl2) PROVE sl = sl2
  <2>1. sl \in free /\ sl2 \in free /\ Rank(sl, free) = Rank(sl2, free)
    BY <1>4, <1>6
  <2>. QED BY <1>2, <1>3, <2>1, RankInjective
<1>7. ASSUME Pair(s, w, sl), Pair(s, w2, sl) PROVE w = w2
  <2>1. w \in idle /\ w2 \in idle /\ Rank(w, idle) = Rank(w2, idle)
    BY <1>4, <1>7
  <2>. QED BY <1>2, <1>3, <2>1, RankInjective
<1>. QED BY <1>5, <1>6, <1>7

\* A Wiimote and a gamepad that are paired are paired with nobody else, and a
\* Wiimote that was active keeps what it had.
LEMMA AssignKeeps ==
    ASSUME NEW s, Sound(s)
    PROVE  Sound(AssignDevices(s)) /\ Sheds(s, AssignDevices(s))
<1> DEFINE SlotFor(w) == CHOOSE sl \in Slots : Pair(s, w, sl)
           WiimoteFor(sl) == CHOOSE w \in Wiimotes : Pair(s, w, sl)
           Takes(w) == \E sl \in Slots : Pair(s, w, sl)
           Taken2(sl) == \E w \in Wiimotes : Pair(s, w, sl)
           fakes == [w \in Wiimotes |-> IF Takes(w) THEN Activated(s.wm[w], SlotFor(w))
                                        ELSE s.wm[w]]
           table == [sl \in Slots |-> IF Taken2(sl)
                                      THEN [s.slots[sl] EXCEPT !.assigned = WiimoteFor(sl)]
                                      ELSE s.slots[sl]]
           t == AssignDevices(s)
<1>1. /\ State(s) /\ s.slots \in [Slots -> SlotRec] /\ s.wm \in [Wiimotes -> WiimoteRec]
      /\ Linked(s)
  BY DEF Sound, State
<1>2. t = [s EXCEPT !.wm = fakes, !.slots = table]
  BY DEF AssignDevices
<1>3. \A w \in Wiimotes : Takes(w) => SlotFor(w) \in Slots /\ Pair(s, w, SlotFor(w))
  BY Zenon
<1>4. \A sl \in Slots :
         Taken2(sl) => WiimoteFor(sl) \in Wiimotes /\ Pair(s, WiimoteFor(sl), sl)
  BY Zenon
<1> HIDE DEF SlotFor, WiimoteFor
<1>5. ASSUME NEW w \in Wiimotes
      PROVE  /\ fakes[w] \in WiimoteRec
             /\ Takes(w) => /\ fakes[w].active /\ fakes[w].baseband = "request"
                            /\ fakes[w].dev = SlotFor(w)
             /\ ~Takes(w) => fakes[w] = s.wm[w]
  <2> DEFINE x == s.wm[w]
             sl == SlotFor(w)
             y == [x EXCEPT !.active = TRUE, !.baseband = "request", !.dev = sl,
                            !.credits = 0]
  <2>1. x \in WiimoteRec
    BY <1>1
  <2>2. fakes[w] = IF Takes(w) THEN y ELSE x
    BY DEF Activated
  <2>3. Takes(w) => sl \in Slots
    BY <1>3
  <2> HIDE DEF x, sl, fakes, Takes
  <2>4. Takes(w) => /\ y \in WiimoteRec /\ y.active /\ y.baseband = "request"
                    /\ y.dev = sl
    BY <2>1, <2>3 DEF WiimoteRec
  <2>. QED BY <2>1, <2>2, <2>4 DEF x, sl
<1>6. fakes \in [Wiimotes -> WiimoteRec]
  <2>1. fakes = [w \in Wiimotes |-> fakes[w]]
    OBVIOUS
  <2> HIDE DEF fakes
  <2>. QED BY <1>5, <2>1
<1>7. ASSUME NEW sl \in Slots
      PROVE  /\ table[sl] \in SlotRec
             /\ table[sl].device = s.slots[sl].device
             /\ table[sl].assigned = IF Taken2(sl) THEN WiimoteFor(sl)
                                     ELSE s.slots[sl].assigned
  <2> DEFINE x == s.slots[sl]
             w == WiimoteFor(sl)
             y == [x EXCEPT !.assigned = w]
  <2>1. x \in SlotRec
    BY <1>1
  <2>2. table[sl] = IF Taken2(sl) THEN y ELSE x
    OBVIOUS
  <2>3. Taken2(sl) => w \in Wiimotes
    BY <1>4
  <2> HIDE DEF x, w, table, Taken2
  <2>4. Taken2(sl) => y \in SlotRec /\ y.device = x.device /\ y.assigned = w
    BY <2>1, <2>3 DEF SlotRec
  <2>. QED BY <2>1, <2>2, <2>4 DEF x, w
<1>8. table \in [Slots -> SlotRec]
  <2>1. table = [sl \in Slots |-> table[sl]]
    OBVIOUS
  <2> HIDE DEF table
  <2>. QED BY <1>7, <2>1
<1> HIDE DEF fakes, table, t
<1>9. t = Fields(fakes, table, s.hci, s.evtQ, s.overflow, s.hung)
  BY <1>1, <1>2, StateExcept
<1>10. State(t) /\ t.wm = fakes /\ t.slots = table
  BY <1>1, <1>6, <1>8, <1>9 DEF State, Fields
<1>11. Sheds(s, t)
  <2>1. Sheds(s, s) /\ t.hci = s.hci /\ t.evtQ = s.evtQ
    BY <1>1, <1>9, ShedsNothing DEF State, Fields
  <2>2. \A w \in Wiimotes : Connected(t, w) => fakes[w] = s.wm[w]
    BY <1>5, <1>10 DEF Connected
  <2>. QED BY <1>10, <2>1, <2>2 DEF Sheds, Connected
<1>12. Linked(t)
  <2> SUFFICES ASSUME NEW sl \in Slots, NEW w \in Wiimotes,
                      table[sl].device # NoPad, table[sl].assigned = w
               PROVE  fakes[w].active /\ fakes[w].dev = sl
    BY <1>10 DEF Linked
  <2>1. CASE Taken2(sl)
    <3>1. Pair(s, w, sl)
      BY <1>4, <1>7, <2>1
    <3>2. Takes(w) /\ SlotFor(w) = sl
      BY <1>3, <3>1, PairUnique
    <3> HIDE DEF Takes
    <3>. QED BY <1>5, <3>2
  <2>2. CASE ~Taken2(sl)
    <3>1. s.wm[w].active /\ s.wm[w].dev = sl
      BY <1>1, <1>7, <2>2 DEF Linked
    <3>2. ~Takes(w)
      BY <3>1, PairUnique
    <3> HIDE DEF Takes
    <3>. QED BY <1>5, <3>1, <3>2
  <2>. QED BY <2>1, <2>2
<1>. QED BY <1>10, <1>11, <1>12 DEF Sound, t

LEMMA RequestsQueue ==
    ASSUME NEW sent \in SUBSET Wiimotes
    PROVE  /\ Queue(Requests(sent))
           /\ \A i \in 1..Len(Requests(sent)) : Plainly(Requests(sent)[i])
<1> DEFINE n == Cardinality(sent)
           who(i) == CHOOSE w \in sent : Rank(w, sent) = i - 1
           r == Requests(sent)
           S == {ConReq(who(i)) : i \in 1..n}
<1>1. n \in Nat
  <2>1. IsFiniteSet(Wiimotes)
    BY CoreAssumption, FS_Interval DEF Wiimotes
  <2>. QED BY <2>1, FS_Subset, FS_CardinalityType
<1>2. r = [i \in 1..n |-> ConReq(who(i))]
  BY DEF Requests
<1> HIDE DEF n, who, r
<1>3. r \in [1..n -> S] /\ \A i \in 1..n : Plainly(r[i])
  BY <1>2 DEF Plainly, ConReq
<1> HIDE DEF S
<1>4. r \in Seq(S) /\ Len(r) = n
  BY <1>1, <1>3
<1>5. Queue(r) /\ \A i \in 1..Len(r) : Plainly(r[i])
  BY <1>3, <1>4 DEF Queue
<1>. QED BY <1>5 DEF r

\* Who has not yet asked for its connection may have, and is no more connected
\* than before.
LEMMA RequestKeeps ==
    ASSUME NEW s, Sound(s)
    PROVE  Sound(RequestConnections(s)) /\ Sheds(s, RequestConnections(s))
<1> DEFINE wanting == {w \in Wiimotes : s.wm[w].active /\ s.wm[w].baseband = "request"}
           sent == {w \in wanting : Len(s.evtQ) + Rank(w, wanting) < EvtCap}
           fakes == [w \in Wiimotes |->
                       IF w \in sent THEN [s.wm[w] EXCEPT !.baseband = "inactive"]
                                     ELSE s.wm[w]]
           q == s.evtQ
           r == Requests(sent)
           t == RequestConnections(s)
<1>1. State(s) /\ s.wm \in [Wiimotes -> WiimoteRec] /\ Linked(s) /\ Queue(q)
  BY DEF Sound, State
<1>2. t = [s EXCEPT !.wm = fakes, !.evtQ = q \o r]
  BY DEF RequestConnections
<1>3. Queue(r) /\ \A i \in 1..Len(r) : Plainly(r[i])
  BY RequestsQueue
<1>4. ASSUME NEW w \in Wiimotes
      PROVE  /\ fakes[w] \in WiimoteRec
             /\ fakes[w].active = s.wm[w].active /\ fakes[w].dev = s.wm[w].dev
             /\ fakes[w].handle = s.wm[w].handle
             /\ fakes[w].baseband \in {s.wm[w].baseband, "inactive"}
  <2> DEFINE x == s.wm[w]
             y == [x EXCEPT !.baseband = "inactive"]
  <2>1. x \in WiimoteRec
    BY <1>1
  <2>2. fakes[w] = x \/ fakes[w] = y
    OBVIOUS
  <2> HIDE DEF x, fakes
  <2>3. /\ y \in WiimoteRec /\ y.active = x.active /\ y.dev = x.dev
        /\ y.handle = x.handle /\ y.baseband = "inactive"
    BY <2>1 DEF WiimoteRec
  <2>. QED BY <2>1, <2>2, <2>3 DEF x
<1>5. fakes \in [Wiimotes -> WiimoteRec]
  <2>1. fakes = [w \in Wiimotes |-> fakes[w]]
    OBVIOUS
  <2> HIDE DEF fakes
  <2>. QED BY <1>4, <2>1
<1> HIDE DEF sent, fakes, q, r, t
<1> DEFINE p == q \o r
<1>6. /\ Queue(p) /\ Len(p) = Len(q) + Len(r) /\ Len(q) \in Nat /\ Len(r) \in Nat
      /\ \A i \in 1..Len(q) + Len(r) : p[i] = IF i <= Len(q) THEN q[i] ELSE r[i - Len(q)]
  BY <1>1, <1>3, QueueConcat, QueueLen
<1> HIDE DEF p
<1>7. Adds(q, p)
  <2>1. \A i \in 1..Len(q) : p[i] = q[i]
    BY <1>6
  <2>2. ASSUME NEW i \in 1..Len(p), i > Len(q) PROVE Plainly(p[i])
    <3>1. i - Len(q) \in 1..Len(r) /\ p[i] = r[i - Len(q)]
      BY <1>6, <2>2
    <3>. QED BY <1>3, <3>1
  <2>3. Len(q) <= Len(p)
    BY <1>6
  <2>. QED BY <1>6, <2>1, <2>2, <2>3 DEF Adds
<1>8. t = Fields(fakes, s.slots, s.hci, p, s.overflow, s.hung)
  BY <1>1, <1>2, StateExcept DEF p
<1>9. /\ State(t) /\ t.wm = fakes /\ t.slots = s.slots /\ t.hci = s.hci /\ t.evtQ = p
  BY <1>1, <1>5, <1>6, <1>8 DEF State, Fields
<1>10. Linked(t)
  BY <1>1, <1>4, <1>9 DEF Linked
<1>11. Sheds(s, t)
  BY <1>4, <1>7, <1>9 DEF Sheds, Connected, q
<1>. QED BY <1>9, <1>10, <1>11 DEF Sound, t

LEMMA CreditKeeps ==
    ASSUME NEW s, Sound(s)
    PROVE  Sound(SendCompletedPackets(s)) /\ Sheds(s, SendCompletedPackets(s))
<1> DEFINE con == {w \in Wiimotes : Connected(s, w)}
           counts == [v \in {s.wm[w].handle : w \in con} |->
                        s.wm[CHOOSE w \in con : s.wm[w].handle = v].credits]
           fakes == [w \in Wiimotes |->
                       IF w \in con THEN [s.wm[w] EXCEPT !.credits = 0] ELSE s.wm[w]]
           reset == [s EXCEPT !.wm = fakes]
           e == NumCompl(counts)
           t == SendCompletedPackets(s)
<1>1. State(s) /\ s.wm \in [Wiimotes -> WiimoteRec] /\ Linked(s) /\ Queue(s.evtQ)
  BY DEF Sound, State
<1>2. t = Inject(reset, e) \/ t = s
  BY DEF SendCompletedPackets
<1>3. ASSUME NEW w \in Wiimotes
      PROVE  /\ fakes[w] \in WiimoteRec
             /\ fakes[w].active = s.wm[w].active /\ fakes[w].dev = s.wm[w].dev
             /\ fakes[w].handle = s.wm[w].handle
             /\ fakes[w].baseband = s.wm[w].baseband
  <2> DEFINE x == s.wm[w]
             y == [x EXCEPT !.credits = 0]
  <2>1. x \in WiimoteRec
    BY <1>1
  <2>2. fakes[w] = x \/ fakes[w] = y
    OBVIOUS
  <2> HIDE DEF x, fakes
  <2>3. /\ y \in WiimoteRec /\ y.active = x.active /\ y.dev = x.dev
        /\ y.handle = x.handle /\ y.baseband = x.baseband
    BY <2>1 DEF WiimoteRec
  <2>. QED BY <2>1, <2>2, <2>3 DEF x
<1>4. fakes \in [Wiimotes -> WiimoteRec]
  <2>1. fakes = [w \in Wiimotes |-> fakes[w]]
    OBVIOUS
  <2> HIDE DEF fakes
  <2>. QED BY <1>3, <2>1
<1>5. Plainly(e)
  BY DEF Plainly, NumCompl
<1> HIDE DEF fakes, e, t
<1>6. reset = Fields(fakes, s.slots, s.hci, s.evtQ, s.overflow, s.hung)
  BY <1>1, StateExcept
<1> HIDE DEF reset
<1>7. /\ State(reset) /\ reset.wm = fakes /\ reset.slots = s.slots
      /\ reset.hci = s.hci /\ reset.evtQ = s.evtQ
  BY <1>1, <1>4, <1>6 DEF State, Fields
<1>8. Sheds(s, s)
  BY <1>1, ShedsNothing
<1>9. Sheds(s, reset)
  BY <1>3, <1>7, <1>8 DEF Sheds, Connected
<1> DEFINE u == Inject(reset, e)
<1>10. State(u) /\ Sheds(reset, u) /\ u.wm = fakes /\ u.slots = s.slots
  BY <1>5, <1>7, InjectKeeps
<1> HIDE DEF u
<1>11. Sheds(s, u)
  BY <1>1, <1>9, <1>10, ShedsMore
<1>12. Linked(u)
  BY <1>1, <1>3, <1>10 DEF Linked
<1>13. Sound(u) /\ Sheds(s, u)
  BY <1>10, <1>11, <1>12 DEF Sound
<1>. QED BY <1>2, <1>8, <1>13 DEF Sound, t, u

-----------------------------------------------------------------------------
(* Steps that only shed connections                                         *)

LEMMA Next1 ==
    ASSUME NEW t, State(t), Becomes(t)
    PROVE  Now' = t
<1>1. Now' = Fields(t.wm, t.slots, t.hci, t.evtQ, t.overflow, t.hung)
  BY DEF Becomes, Now, Fields
<1>. QED BY <1>1 DEF State

\* The module is left in a sound state with no new connections.
Shedding == Sound(Now') /\ Sheds(Now, Now')

LEMMA NowFields ==
    /\ Now = Fields(wm, slots, hci, evtQ, overflow, hung)
    /\ Now.wm = wm /\ Now.slots = slots /\ Now.hci = hci /\ Now.evtQ = evtQ
    /\ Now.overflow = overflow /\ Now.hung = hung
BY DEF Now, Fields

LEMMA ShedStep ==
    ASSUME NEW t, Sound(t), Sheds(Now, t), Becomes(t)
    PROVE  Shedding
BY Next1 DEF Sound, Shedding

LEMMA HaltKeeps ==
    ASSUME Sound(Now), NEW where
    PROVE  Sound(Halt(where)) /\ Sheds(Now, Halt(where))
<1> DEFINE t == Halt(where)
<1>1. t = Fields(wm, slots, hci, evtQ, overflow, where)
  <2>1. t = [wm |-> wm, slots |-> slots, hci |-> hci, evtQ |-> evtQ,
             overflow |-> overflow, hung |-> where]
    BY DEF Halt, Now
  <2>. QED BY <2>1 DEF Fields
<1> HIDE DEF t
<1>2. /\ t.wm = wm /\ t.slots = slots /\ t.hci = hci /\ t.evtQ = evtQ
      /\ t.overflow = overflow /\ t.hung = where
  BY <1>1 DEF Fields
<1>3. Sound(t)
  BY <1>1, <1>2, NowFields DEF Sound, State, Linked
<1>4. Sheds(Now, Now)
  BY ShedsNothing DEF Sound, State
<1>5. Sheds(Now, t)
  BY <1>2, <1>4, NowFields DEF Sheds, Connected
<1>. QED BY <1>3, <1>5 DEF t

LEMMA NowKeeps ==
    ASSUME Sound(Now)
    PROVE  Sheds(Now, Now)
BY ShedsNothing DEF Sound, State

LEMMA TranslateKeeps ==
    ASSUME Sound(Now), NEW v, NEW where
    PROVE  /\ Sound(TranslateOrHalt(v, where))
           /\ Sheds(Now, TranslateOrHalt(v, where))
BY HaltKeeps, NowKeeps DEF TranslateOrHalt

\* Answers to a command, if there is room for all of them.
LEMMA AnswerKeeps ==
    ASSUME Sound(Now), NEW es, Queue(es), \A i \in 1..Len(es) : Plainly(es[i])
    PROVE  /\ Sound(InjectAsserted(Now, es)) /\ Sheds(Now, InjectAsserted(Now, es))
           /\ InjectAsserted(Now, es).wm = wm
<1> DEFINE t == [Now EXCEPT !.evtQ = @ \o es]
           q == evtQ
           p == q \o es
<1>1. State(Now) /\ Queue(q)
  BY NowFields DEF Sound, State
<1>2. /\ Queue(p) /\ Len(p) = Len(q) + Len(es) /\ Len(q) \in Nat /\ Len(es) \in Nat
      /\ \A i \in 1..Len(q) + Len(es) : p[i] = IF i <= Len(q) THEN q[i] ELSE es[i - Len(q)]
  BY <1>1, QueueConcat, QueueLen
<1>3. t = [Now EXCEPT !.evtQ = p]
  BY NowFields
<1> HIDE DEF p, t
<1>4. t = Fields(wm, slots, hci, p, overflow, hung)
  <2>1. t = Fields(Now.wm, Now.slots, Now.hci, p, Now.overflow, Now.hung)
    BY <1>1, <1>3, StateExcept
  <2>. QED BY <2>1, NowFields, Zenon
<1>5. /\ t.wm = wm /\ t.slots = slots /\ t.hci = hci /\ t.evtQ = p
      /\ t.overflow = overflow /\ t.hung = hung
  BY <1>4 DEF Fields
<1>6. Adds(q, p)
  <2>1. \A i \in 1..Len(q) : p[i] = q[i]
    BY <1>2
  <2>2. ASSUME NEW i \in 1..Len(p), i > Len(q) PROVE Plainly(p[i])
    <3>1. i - Len(q) \in 1..Len(es) /\ p[i] = es[i - Len(q)]
      BY <1>2, <2>2
    <3>. QED BY <3>1
  <2>3. Len(q) <= Len(p)
    BY <1>2
  <2>. QED BY <1>2, <2>1, <2>2, <2>3 DEF Adds
<1>7. Sound(t)
  BY <1>2, <1>4, <1>5, NowFields DEF Sound, State, Linked
<1>8. Sheds(Now, t)
  BY <1>5, <1>6, NowFields DEF Sheds, Connected
<1>9. InjectAsserted(Now, es) = t \/ InjectAsserted(Now, es) = Halt("inject")
  BY DEF InjectAsserted, t
<1>10. Halt("inject").wm = wm
  BY DEF Halt, Now
<1>. QED BY <1>5, <1>7, <1>8, <1>9, <1>10, HaltKeeps

LEMMA RepliesPlain ==
    ASSUME NEW n \in Nat
    PROVE  /\ Queue([i \in 1..n |-> Reply])
           /\ \A i \in 1..Len([i \in 1..n |-> Reply]) : Plainly([j \in 1..n |-> Reply][i])
           /\ Queue(<<Reply>>) /\ \A i \in 1..Len(<<Reply>>) : Plainly(<<Reply>>[i])
           /\ Queue(<<Reply, Reply>>)
           /\ \A i \in 1..Len(<<Reply, Reply>>) : Plainly(<<Reply, Reply>>[i])
<1> DEFINE e == Reply
           r == [i \in 1..n |-> e]
<1>1. Plainly(e)
  BY DEF Plainly, Reply
<1> HIDE DEF e
<1>2. r \in Seq({e}) /\ Len(r) = n /\ \A i \in 1..n : r[i] = e
  OBVIOUS
<1>3. <<e>> \in Seq({e}) /\ Len(<<e>>) = 1 /\ \A i \in 1..1 : <<e>>[i] = e
  OBVIOUS
<1>4. <<e, e>> \in Seq({e}) /\ Len(<<e, e>>) = 2 /\ \A i \in 1..2 : <<e, e>>[i] = e
  OBVIOUS
<1> DEFINE r1 == <<e>>
           r2 == <<e, e>>
<1> HIDE DEF r, r1, r2
<1>5. Queue(r) /\ \A i \in 1..Len(r) : Plainly(r[i])
  BY <1>1, <1>2 DEF Queue
<1>6. Queue(r1) /\ \A i \in 1..Len(r1) : Plainly(r1[i])
  BY <1>1, <1>3 DEF Queue, r1
<1>7. Queue(r2) /\ \A i \in 1..Len(r2) : Plainly(r2[i])
  BY <1>1, <1>4 DEF Queue, r2
<1>. QED BY <1>5, <1>6, <1>7 DEF r, r1, r2, e

\* Who disconnects loses its gamepad, and whoever had that slot.
LEMMA DroppedSound ==
    ASSUME NEW s, Sound(s), NEW w \in Wiimotes, NEW t, Dropped(s, w, t)
    PROVE  Sound(t) /\ Sheds(s, t)
<1> SUFFICES ASSUME NEW sl \in Slots, NEW z \in Wiimotes,
                    t.slots[sl].device # NoPad, t.slots[sl].assigned = z
             PROVE  t.wm[z].active /\ t.wm[z].dev = sl
  BY DEF Dropped, Sound, Linked
<1>1. z # NoWiimote
  BY DEF Wiimotes, NoWiimote
<1>2. sl # s.wm[w].dev /\ s.slots[sl].device # NoPad /\ s.slots[sl].assigned = z
  BY <1>1 DEF Dropped
<1>3. s.wm[z].active /\ s.wm[z].dev = sl
  BY <1>2 DEF Sound, Linked
<1>4. z # w
  BY <1>2, <1>3
<1>. QED BY <1>3, <1>4 DEF Dropped

-----------------------------------------------------------------------------
LEMMA TickSheds ==
    ASSUME Sound(Now), plugged \in SUBSET Pads, NEW e1 \in EgcEvents(plugged),
           NEW e2 \in EgcEvents(PluggedAfter(plugged, e1)), TickWith(e1, e2)
    PROVE  Shedding /\ plugged' \in SUBSET Pads
<1> DEFINE in == PluggedAfter(plugged, e1)
<1>1. \A P \in SUBSET Pads : \A e \in EgcEvents(P) : PluggedAfter(P, e) \in SUBSET Pads
  <2> SUFFICES ASSUME NEW P \in SUBSET Pads, NEW e \in EgcEvents(P)
               PROVE  PluggedAfter(P, e) \in SUBSET Pads
    OBVIOUS
  <2>1. CASE e = NoEgc
    BY <2>1 DEF PluggedAfter, NoEgc
  <2>2. ASSUME NEW d \in Pads, e = Attach(d) PROVE PluggedAfter(P, e) \in SUBSET Pads
    BY <2>2 DEF PluggedAfter, Attach
  <2>3. ASSUME NEW d \in Pads, e = Detach(d) PROVE PluggedAfter(P, e) \in SUBSET Pads
    BY <2>3 DEF PluggedAfter, Detach
  <2>. QED BY <2>1, <2>2, <2>3 DEF EgcEvents
<1>2. in \in SUBSET Pads /\ PluggedAfter(in, e2) \in SUBSET Pads
  BY <1>1
<1>3. plugged' = PluggedAfter(in, e2)
  BY DEF TickWith
<1> DEFINE s0 == EgcEvent(Now, e1)
           s1 == EgcEvent(s0, e2)
           s2 == [s1 EXCEPT !.slots = DevicesTick(@)]
           s3 == IF CanRequestConnection(hci) THEN AssignDevices(s2) ELSE s2
           s4 == IF CanRequestConnection(hci) THEN RequestConnections(s3) ELSE s3
           s5 == SendCompletedPackets(s4)
<1>4. Becomes(s5)
  BY Zenon DEF TickWith
<1>5. Sound(s0) /\ Sheds(Now, s0)
  BY EgcEventKeeps
<1> HIDE DEF s0, in
<1>6. Sound(s1) /\ Sheds(s0, s1)
  BY <1>2, <1>5, EgcEventKeeps DEF in
<1> HIDE DEF s1
<1>7. Sound(s2) /\ Sheds(s1, s2)
  BY <1>6, DevicesTickKeeps
<1> HIDE DEF s2
<1>8. Sound(s3) /\ Sheds(s2, s3)
  <2>1. Sheds(s2, s2)
    BY <1>7, ShedsNothing DEF Sound, State
  <2>. QED BY <1>7, <2>1, AssignKeeps
<1> HIDE DEF s3
<1>9. Sound(s4) /\ Sheds(s3, s4)
  <2>1. Sheds(s3, s3)
    BY <1>8, ShedsNothing DEF Sound, State
  <2>. QED BY <1>8, <2>1, RequestKeeps
<1> HIDE DEF s4
<1>10. Sound(s5) /\ Sheds(s4, s5)
  BY <1>9, CreditKeeps
<1> HIDE DEF s5
<1>11. Queue(Now.evtQ)
  BY DEF Sound, State
<1>12. Sheds(Now, s1)
  BY <1>5, <1>6, <1>11, ShedsMore
<1>13. Sheds(Now, s2)
  BY <1>7, <1>11, <1>12, ShedsMore
<1>14. Sheds(Now, s3)
  BY <1>8, <1>11, <1>13, ShedsMore
<1>15. Sheds(Now, s4)
  BY <1>9, <1>11, <1>14, ShedsMore
<1>16. Sheds(Now, s5)
  BY <1>10, <1>11, <1>15, ShedsMore
<1>. QED BY <1>2, <1>3, <1>4, <1>10, <1>16, ShedStep

LEMMA DisconnectSheds ==
    ASSUME NEW s, Sound(s), Sheds(Now, s), Queue(evtQ), NEW w \in Wiimotes,
           Becomes(Disconnect(s, w))
    PROVE  Shedding
<1> DEFINE t == Disconnect(s, w)
<1>1. Dropped(s, w, t)
  BY DisconnectKeeps DEF Sound
<1> HIDE DEF t
<1>2. Sound(t) /\ Sheds(s, t)
  BY <1>1, DroppedSound
<1>3. Sheds(Now, t)
  BY <1>2, NowFields, ShedsMore
<1>. QED BY <1>2, <1>3, ShedStep DEF t

\* Nothing of the module changes.
LEMMA IdleSheds ==
    ASSUME Sound(Now), UNCHANGED module
    PROVE  Shedding
<1>1. Now' = Now
  BY DEF module, Now
<1>. QED BY <1>1, NowKeeps DEF Shedding

\* The Wiimotes that own a handle are Wiimotes; the first one takes what comes.
LEMMA FirstFake ==
    ASSUME NEW s, NEW v, FakesOf(s, v) # {}
    PROVE  Min(FakesOf(s, v)) \in FakesOf(s, v)
BY MinIn DEF FakesOf, Wiimotes

LEMMA RejectSheds ==
    ASSUME Sound(Now), NEW p \in Peers, HostReject(p)
    PROVE  Shedding
<1>1. CASE p \in Wiimotes
  <2>1. Becomes(Disconnect(Now, p))
    BY <1>1 DEF HostReject
  <2>2. Queue(evtQ)
    BY NowFields DEF Sound, State
  <2>. QED BY <1>1, <2>1, <2>2, NowKeeps, DisconnectSheds
<1>2. CASE p \notin Wiimotes
  BY <1>2, IdleSheds DEF HostReject
<1>. QED BY <1>1, <1>2

LEMMA HostDisconnectSheds ==
    ASSUME Sound(Now), NEW v \in VirtHandles, HostDisconnect(v)
    PROVE  Shedding
<1>1. CASE FakesOf(Now, v) # {}
  <2> DEFINE s == InjectAsserted(Now, <<Reply>>)
             w == Min(FakesOf(Now, v))
  <2>1. Becomes(IF s.hung = "no" THEN Disconnect(s, w) ELSE s)
    BY <1>1 DEF HostDisconnect
  <2>2. w \in Wiimotes
    BY <1>1, FirstFake DEF FakesOf
  <2>3. Queue(<<Reply>>) /\ \A i \in 1..Len(<<Reply>>) : Plainly(<<Reply>>[i])
    BY RepliesPlain
  <2>4. Sound(s) /\ Sheds(Now, s)
    BY <2>3, AnswerKeeps
  <2>5. Queue(evtQ)
    BY NowFields DEF Sound, State
  <2> HIDE DEF s, w
  <2>. QED BY <2>1, <2>2, <2>4, <2>5, DisconnectSheds, ShedStep
<1>2. CASE FakesOf(Now, v) = {}
  <2>1. Becomes(TranslateOrHalt(v, "command"))
    BY <1>2 DEF HostDisconnect
  <2>. QED BY <2>1, TranslateKeeps, ShedStep
<1>. QED BY <1>1, <1>2

LEMMA HostCommandSheds ==
    ASSUME Sound(Now), NEW v \in VirtHandles, NEW n \in CmdReplies, HostCommand(v, n)
    PROVE  Shedding
<1> DEFINE es == [i \in 1..n |-> Reply]
<1>1. Becomes(InjectAsserted(Now, es)) \/ Becomes(TranslateOrHalt(v, "command"))
  BY DEF HostCommand
<1>2. n \in Nat
  BY CoreAssumption
<1>3. Queue(es) /\ \A i \in 1..Len(es) : Plainly(es[i])
  BY <1>2, RepliesPlain
<1> HIDE DEF es
<1>4. Sound(InjectAsserted(Now, es)) /\ Sheds(Now, InjectAsserted(Now, es))
  BY <1>3, AnswerKeeps
<1>. QED BY <1>1, <1>4, TranslateKeeps, ShedStep

LEMMA HostRemoteNameSheds ==
    ASSUME Sound(Now), NEW p \in Peers, HostRemoteName(p)
    PROVE  Shedding
<1> DEFINE es == <<Reply, Reply>>
<1>1. Becomes(InjectAsserted(Now, es)) \/ UNCHANGED module
  BY DEF HostRemoteName
<1>2. Queue(es) /\ \A i \in 1..Len(es) : Plainly(es[i])
  BY RepliesPlain
<1> HIDE DEF es
<1>3. Sound(InjectAsserted(Now, es)) /\ Sheds(Now, InjectAsserted(Now, es))
  BY <1>2, AnswerKeeps
<1>. QED BY <1>1, <1>3, IdleSheds, ShedStep

\* An event for the host, and nothing else.
LEMMA InjectSheds ==
    ASSUME Sound(Now), NEW e, Plainly(e), Becomes(Inject(Now, e))
    PROVE  Shedding
<1> DEFINE t == Inject(Now, e)
<1>1. State(t) /\ Sheds(Now, t) /\ t.wm = Now.wm /\ t.slots = Now.slots
  BY InjectKeeps DEF Sound
<1> HIDE DEF t
<1>2. Sound(t)
  BY <1>1 DEF Sound, Linked
<1>. QED BY <1>1, <1>2, ShedStep DEF t

LEMMA HostAclSheds ==
    ASSUME Sound(Now), NEW v \in VirtHandles, NEW refuse \in BOOLEAN,
           HostAcl(v, refuse)
    PROVE  Shedding
<1>1. CASE FakesOf(Now, v) # {}
  <2> DEFINE w == Min(FakesOf(Now, v))
             s == [Now EXCEPT !.wm[w].credits = @ + 1]
             x == wm[w]
             y == [x EXCEPT !.credits = @ + 1]
             fakes == [wm EXCEPT ![w] = y]
  <2>1. Becomes(IF refuse THEN Disconnect(s, w) ELSE s)
    BY <1>1 DEF HostAcl
  <2>2. w \in Wiimotes
    BY <1>1, FirstFake DEF FakesOf
  <2>3. s = [Now EXCEPT !.wm = fakes]
    BY NowFields
  <2>4. State(Now) /\ Linked(Now) /\ wm \in [Wiimotes -> WiimoteRec] /\ Queue(evtQ)
    BY NowFields DEF Sound, State
  <2>5. x \in WiimoteRec
    BY <2>2, <2>4
  <2> HIDE DEF w, x, s
  <2>6. /\ y \in WiimoteRec /\ y.active = x.active /\ y.dev = x.dev
        /\ y.baseband = x.baseband /\ y.handle = x.handle
    BY <2>5 DEF WiimoteRec
  <2> HIDE DEF y
  <2>7. /\ fakes \in [Wiimotes -> WiimoteRec]
        /\ \A z \in Wiimotes :
              /\ fakes[z].active = wm[z].active /\ fakes[z].dev = wm[z].dev
              /\ fakes[z].baseband = wm[z].baseband /\ fakes[z].handle = wm[z].handle
    BY <2>2, <2>4, <2>6 DEF x
  <2> HIDE DEF fakes
  <2>8. s = Fields(fakes, slots, hci, evtQ, overflow, hung)
    <3>1. s = Fields(fakes, Now.slots, Now.hci, Now.evtQ, Now.overflow, Now.hung)
      BY <2>3, <2>4, StateExcept
    <3>. QED BY <3>1, NowFields, Zenon
  <2>9. s.wm = fakes /\ s.slots = slots /\ s.hci = hci /\ s.evtQ = evtQ
    BY <2>8 DEF Fields
  <2>10. Sound(s)
    <3>1. State(s)
      BY <2>4, <2>7, <2>8, <2>9, NowFields DEF State, Fields
    <3>2. Linked(s)
      BY <2>4, <2>7, <2>9, NowFields DEF Linked
    <3>. QED BY <3>1, <3>2 DEF Sound
  <2>11. Sheds(Now, s)
    BY <2>7, <2>9, NowFields, NowKeeps DEF Sheds, Connected
  <2>. QED BY <2>1, <2>2, <2>4, <2>10, <2>11, DisconnectSheds, ShedStep
<1>2. CASE FakesOf(Now, v) = {}
  <2>1. Becomes(TranslateOrHalt(v, "acl_out"))
    BY <1>2 DEF HostAcl
  <2>. QED BY <2>1, TranslateKeeps, ShedStep
<1>. QED BY <1>1, <1>2

-----------------------------------------------------------------------------
(* Steps that do more                                                       *)

\* The value of the table's entries is only looked at where they are valid.
HciRec == [scan : BOOLEAN, last : VirtHandles,
           table : [Entries -> [valid : {FALSE}]
                               \cup [valid : {TRUE}, phys : Phys, virt : VirtHandles]]]

LEMMA NowHci ==
    ASSUME Sound(Now), NEW h
    PROVE  /\ [Now EXCEPT !.hci = h] = Fields(wm, slots, h, evtQ, overflow, hung)
           /\ Sound([Now EXCEPT !.hci = h])
<1> DEFINE t == [Now EXCEPT !.hci = h]
<1>1. t = Fields(wm, slots, h, evtQ, overflow, hung)
  <2>1. t = [wm |-> wm, slots |-> slots, hci |-> h, evtQ |-> evtQ,
             overflow |-> overflow, hung |-> hung]
    BY DEF Now
  <2>. QED BY <2>1 DEF Fields
<1> HIDE DEF t
<1>2. /\ t.wm = wm /\ t.slots = slots /\ t.hci = h /\ t.evtQ = evtQ
      /\ t.overflow = overflow /\ t.hung = hung
  BY <1>1 DEF Fields
<1>3. Sound(t)
  BY <1>1, <1>2, NowFields DEF Sound, State, Linked
<1>. QED BY <1>1, <1>3 DEF t

\* An event for the host beside a change of the tracked state.
Tracks(h, e) ==
    /\ Sound(Now') /\ wm' = wm /\ slots' = slots /\ hci' = h /\ hung' = hung
    /\ evtQ' = evtQ \/ evtQ' = Append(evtQ, e)

LEMMA InjectTracks ==
    ASSUME Sound(Now), NEW h, NEW e, Becomes(Inject([Now EXCEPT !.hci = h], e))
    PROVE  Tracks(h, e)
<1> DEFINE s == [Now EXCEPT !.hci = h]
           q == Append(evtQ, e)
           t == Inject(s, e)
<1>1. s = Fields(wm, slots, h, evtQ, overflow, hung) /\ Sound(s)
  BY NowHci
<1> HIDE DEF s
<1>2. /\ s.wm = wm /\ s.slots = slots /\ s.hci = h /\ s.evtQ = evtQ
      /\ s.overflow = overflow /\ s.hung = hung
  BY <1>1 DEF Fields
<1>3. State(s) /\ Linked(s) /\ Queue(evtQ)
  BY <1>1, <1>2 DEF Sound, State
<1>4. Queue(q)
  BY <1>3, QueueAppend
<1> HIDE DEF q
<1>5. \/ t = Fields(wm, slots, h, q, overflow, hung)
      \/ t = Fields(wm, slots, h, evtQ, TRUE, hung)
  <2>1. t = [s EXCEPT !.evtQ = q] \/ t = [s EXCEPT !.overflow = TRUE]
    BY <1>2 DEF Inject, q
  <2>2. CASE t = [s EXCEPT !.evtQ = q]
    <3>1. t = Fields(s.wm, s.slots, s.hci, q, s.overflow, s.hung)
      BY <1>3, <2>2, StateExcept
    <3>. QED BY <1>2, <3>1, Zenon
  <2>3. CASE t = [s EXCEPT !.overflow = TRUE]
    <3>1. t = Fields(s.wm, s.slots, s.hci, s.evtQ, TRUE, s.hung)
      BY <1>3, <2>3, StateExcept
    <3>. QED BY <1>2, <3>1, Zenon
  <2>. QED BY <2>1, <2>2, <2>3
<1> HIDE DEF t
<1>6. /\ t.wm = wm /\ t.slots = slots /\ t.hci = h /\ t.hung = hung
      /\ t.evtQ = evtQ \/ t.evtQ = q
  BY <1>5 DEF Fields
<1>7. Sound(t)
  <2>1. t = Fields(t.wm, t.slots, t.hci, t.evtQ, t.overflow, t.hung)
    BY <1>5 DEF Fields
  <2>. QED BY <1>2, <1>3, <1>4, <1>6, <2>1 DEF Sound, State, Linked
<1>8. Now' = t /\ Becomes(t)
  BY <1>7, Next1 DEF Sound, t, s
<1>. QED BY <1>6, <1>7, <1>8 DEF Tracks, Becomes, q

\* Queue r is q with some answers and then e behind it.
AddsLast(q, r, e) ==
    /\ Queue(r) /\ Len(q) < Len(r)
    /\ \A i \in 1..Len(q) : r[i] = q[i]
    /\ \A i \in 1..Len(r) : i > Len(q) => r[i] = Reply \/ (r[i] = e /\ i = Len(r))

\* A fake Wiimote is given the next handle.
Accepts(p) ==
    /\ Sound(Now') /\ hci' = VirtAlloc(hci) /\ hung' = hung
    /\ overflow' = overflow
    /\ wm'[p].handle = hci.last /\ wm'[p].baseband = "complete"
    /\ wm'[p].active = wm[p].active /\ wm'[p].credits = wm[p].credits
    /\ \A w \in Wiimotes : w # p => wm'[w] = wm[w]
    /\ AddsLast(evtQ, evtQ', ConCompl(p, hci.last))

\* The events that AcceptCon injects.
Completion(p, v, master) ==
    <<Reply>> \o (IF master THEN <<Reply>> ELSE <<>>) \o <<ConCompl(p, v)>>

LEMMA CompletionQueue ==
    ASSUME NEW p, NEW v, NEW master \in BOOLEAN
    PROVE  /\ Queue(Completion(p, v, master)) /\ Len(Completion(p, v, master)) > 0
           /\ \A i \in 1..Len(Completion(p, v, master)) :
                 \/ Completion(p, v, master)[i] = Reply
                 \/ /\ Completion(p, v, master)[i] = ConCompl(p, v)
                    /\ i = Len(Completion(p, v, master))
<1> DEFINE a == Reply
           b == ConCompl(p, v)
           Fine(q) == Queue(q) /\ \A i \in 1..Len(q) : q[i] = a
           q1 == <<a>>
           q2 == IF master THEN <<a>> ELSE <<>>
           q3 == <<b>>
           u == q1 \o q2
           r == u \o q3
<1> HIDE DEF a, b
<1>1. Fine(q1)
  <2>1. q1 \in Seq({a}) /\ Len(q1) = 1 /\ \A i \in 1..1 : q1[i] = a
    BY Zenon, SMT
  <2>. QED BY <2>1 DEF Queue
<1>2. Fine(q2)
  <2>1. Queue(<<>>) /\ Len(<<>>) = 0
    BY EmptySeq DEF Queue
  <2>. QED BY <1>1, <2>1
<1>3. Queue(q3) /\ Len(q3) = 1 /\ q3[1] = b
  <2>1. q3 \in Seq({b}) /\ Len(q3) = 1 /\ \A i \in 1..1 : q3[i] = b
    BY Zenon, SMT
  <2>. QED BY <2>1 DEF Queue
<1>4. Completion(p, v, master) = r
  BY DEF Completion, a, b
<1> HIDE DEF q1, q2, q3
<1>5. Queue(q1) /\ Queue(q2)
  BY <1>1, <1>2
<1>6. /\ Queue(u) /\ Len(u) = Len(q1) + Len(q2) /\ Len(q1) \in Nat /\ Len(q2) \in Nat
      /\ \A i \in 1..Len(q1) + Len(q2) :
            u[i] = IF i <= Len(q1) THEN q1[i] ELSE q2[i - Len(q1)]
  BY <1>5, QueueConcat, QueueLen
<1> HIDE DEF u
<1>7. ASSUME NEW i \in 1..Len(u) PROVE u[i] = a
  <2>1. CASE i <= Len(q1)
    <3>1. i \in 1..Len(q1) /\ u[i] = q1[i]
      BY <1>6, <2>1
    <3>. QED BY <1>1, <3>1
  <2>2. CASE ~(i <= Len(q1))
    <3>1. i - Len(q1) \in 1..Len(q2) /\ u[i] = q2[i - Len(q1)]
      BY <1>6, <2>2
    <3>. QED BY <1>2, <3>1
  <2>. QED BY <2>1, <2>2
<1>8. /\ Queue(r) /\ Len(r) = Len(u) + 1 /\ Len(u) \in Nat
      /\ \A i \in 1..Len(u) + 1 : r[i] = IF i <= Len(u) THEN u[i] ELSE q3[i - Len(u)]
  <2>1. /\ Queue(r) /\ Len(r) = Len(u) + Len(q3)
        /\ \A i \in 1..Len(u) + Len(q3) :
              r[i] = IF i <= Len(u) THEN u[i] ELSE q3[i - Len(u)]
    BY <1>3, <1>6, QueueConcat
  <2>2. Len(u) \in Nat
    BY <1>6, QueueLen
  <2> HIDE DEF r
  <2>. QED BY <1>3, <2>1, <2>2
<1> HIDE DEF r
<1>9. ASSUME NEW i \in 1..Len(r) PROVE r[i] = a \/ (r[i] = b /\ i = Len(r))
  <2>1. CASE i <= Len(u)
    <3>1. i \in 1..Len(u) /\ r[i] = u[i]
      BY <1>8, <2>1
    <3>. QED BY <1>7, <3>1
  <2>2. CASE ~(i <= Len(u))
    <3>1. i = Len(r) /\ i - Len(u) = 1 /\ r[i] = q3[i - Len(u)]
      BY <1>8, <2>2
    <3>. QED BY <1>3, <3>1
  <2>. QED BY <2>1, <2>2
<1>10. Len(r) > 0
  BY <1>8
<1>. QED BY <1>4, <1>8, <1>9, <1>10 DEF a, b

LEMMA AcceptResult ==
    ASSUME Sound(Now), hci \in HciRec, NEW p \in Wiimotes, NEW master \in BOOLEAN,
           Becomes(AcceptCon(Now, p, master))
    PROVE  Becomes(Halt("inject")) \/ Accepts(p)
<1> DEFINE v == hci.last
           x == wm[p]
           y == [x EXCEPT !.baseband = "complete", !.handle = v]
           fakes == [wm EXCEPT ![p] = y]
           h == VirtAlloc(hci)
           s == [Now EXCEPT !.wm[p].baseband = "complete", !.wm[p].handle = v,
                            !.hci = VirtAlloc(@)]
           es == Completion(p, v, master)
           q == evtQ \o es
           t == [s EXCEPT !.evtQ = @ \o es]
<1>1. Becomes(InjectAsserted(s, es))
  BY NowFields, Zenon DEF AcceptCon, Completion
<1>2. /\ State(Now) /\ Linked(Now) /\ wm \in [Wiimotes -> WiimoteRec] /\ Queue(evtQ)
      /\ v \in VirtHandles
  BY NowFields DEF Sound, State, HciRec
<1>3. /\ y \in WiimoteRec /\ y.active = x.active /\ y.dev = x.dev /\ y.handle = v
      /\ y.baseband = "complete" /\ y.credits = x.credits
  <2>1. x \in WiimoteRec
    BY <1>2
  <2> HIDE DEF x, v
  <2>. QED BY <1>2, <2>1 DEF WiimoteRec
<1>4. s = Fields(fakes, slots, h, evtQ, overflow, hung)
  <2> DEFINE x1 == [x EXCEPT !.baseband = "complete"]
             fakes1 == [wm EXCEPT ![p] = x1]
             y1 == [fakes1[p] EXCEPT !.handle = v]
             fakes2 == [fakes1 EXCEPT ![p] = y1]
             s1 == [Now EXCEPT !.wm = fakes1]
             s2 == [Now EXCEPT !.wm = fakes2]
  <2>1. fakes1[p] = x1 /\ y1 = y /\ fakes2 = fakes
    <3>1. fakes1[p] = x1
      BY <1>2
    <3>2. y1 = [x1 EXCEPT !.handle = v]
      BY <3>1
    <3>3. y = [x1 EXCEPT !.handle = v]
      OBVIOUS
    <3> HIDE DEF x1, y1, y
    <3>4. fakes2 = [wm EXCEPT ![p] = y1]
      BY <1>2
    <3>. QED BY <3>1, <3>2, <3>3, <3>4
  <2>2. s1 = Fields(fakes1, slots, hci, evtQ, overflow, hung)
    <3>1. s1 = [wm |-> fakes1, slots |-> slots, hci |-> hci, evtQ |-> evtQ,
                overflow |-> overflow, hung |-> hung]
      BY DEF Now
    <3>. QED BY <3>1 DEF Fields
  <2>3. s1 = [Now EXCEPT !.wm[p].baseband = "complete"]
    BY NowFields
  <2>4. s2 = Fields(fakes2, slots, hci, evtQ, overflow, hung)
    <3>1. s2 = [wm |-> fakes2, slots |-> slots, hci |-> hci, evtQ |-> evtQ,
                overflow |-> overflow, hung |-> hung]
      BY DEF Now
    <3>. QED BY <3>1 DEF Fields
  <2>5. s2 = [s1 EXCEPT !.wm[p].handle = v]
    <3> HIDE DEF s1, fakes1
    <3>1. s1.wm = fakes1
      BY <2>2 DEF Fields
    <3>2. [s1 EXCEPT !.wm[p].handle = v] = [s1 EXCEPT !.wm = fakes2]
      BY <3>1
    <3> HIDE DEF fakes2, s2
    <3>3. [s1 EXCEPT !.wm = fakes2] = Fields(fakes2, slots, hci, evtQ, overflow, hung)
      BY <2>2 DEF Fields
    <3>. QED BY <2>4, <3>2, <3>3
  <2>6. s = [s2 EXCEPT !.hci = VirtAlloc(@)]
    BY <2>3, <2>5
  <2> HIDE DEF s1, s2, s, fakes2, fakes1
  <2>7. s2.hci = hci
    BY <2>4 DEF Fields
  <2>8. s = [s2 EXCEPT !.hci = h]
    BY <2>6, <2>7
  <2> HIDE DEF h
  <2>9. s = Fields(fakes2, slots, h, evtQ, overflow, hung)
    BY <2>4, <2>8 DEF Fields
  <2>. QED BY <2>1, <2>9 DEF fakes2
<1> HIDE DEF y, s, es, h, v, x
<1>5. /\ fakes \in [Wiimotes -> WiimoteRec] /\ fakes[p] = y
      /\ \A w \in Wiimotes : w # p => fakes[w] = wm[w]
  BY <1>2, <1>3
<1> HIDE DEF fakes
<1>6. /\ s.wm = fakes /\ s.slots = slots /\ s.hci = h /\ s.evtQ = evtQ
      /\ s.overflow = overflow /\ s.hung = hung
  BY <1>4 DEF Fields
<1>7. State(s)
  BY <1>2, <1>4, <1>5, <1>6, NowFields DEF State
<1>8. CASE InjectAsserted(s, es) = Halt("inject")
  BY <1>1, <1>8
<1>9. CASE InjectAsserted(s, es) = t
  <2>1. /\ Queue(es) /\ Len(es) > 0
        /\ \A i \in 1..Len(es) :
              es[i] = Reply \/ (es[i] = ConCompl(p, v) /\ i = Len(es))
    BY CompletionQueue DEF es
  <2>2. /\ Queue(q) /\ Len(q) = Len(evtQ) + Len(es)
        /\ Len(evtQ) \in Nat /\ Len(es) \in Nat
        /\ \A i \in 1..Len(evtQ) + Len(es) :
              q[i] = IF i <= Len(evtQ) THEN evtQ[i] ELSE es[i - Len(evtQ)]
    BY <1>2, <2>1, QueueConcat, QueueLen
  <2>3. t = [s EXCEPT !.evtQ = q]
    BY <1>6
  <2> HIDE DEF q, t
  <2>4. t = Fields(s.wm, s.slots, s.hci, q, s.overflow, s.hung)
    BY <1>7, <2>3, StateExcept
  <2>5. /\ t.wm = fakes /\ t.slots = slots /\ t.hci = h /\ t.evtQ = q
        /\ t.hung = hung /\ t.overflow = overflow
    BY <1>6, <2>4 DEF Fields
  <2>6. AddsLast(evtQ, q, ConCompl(p, v))
    <3>1. \A i \in 1..Len(evtQ) : q[i] = evtQ[i]
      BY <2>2
    <3>2. ASSUME NEW i \in 1..Len(q), i > Len(evtQ)
          PROVE  q[i] = Reply \/ (q[i] = ConCompl(p, v) /\ i = Len(q))
      <4>1. /\ i - Len(evtQ) \in 1..Len(es) /\ q[i] = es[i - Len(evtQ)]
            /\ i - Len(evtQ) = Len(es) => i = Len(q)
        BY <2>2, <3>2
      <4>. QED BY <2>1, <4>1
    <3>3. Len(evtQ) < Len(q)
      BY <2>1, <2>2
    <3>. QED BY <2>2, <3>1, <3>2, <3>3 DEF AddsLast
  <2>7. Sound(t)
    <3>1. State(t)
      BY <1>2, <1>5, <1>6, <2>2, <2>4, <2>5, NowFields DEF State, Fields
    <3>2. Linked(t)
      BY <1>2, <1>3, <1>5, <2>5, NowFields DEF Linked, x
    <3>. QED BY <3>1, <3>2 DEF Sound
  <2>8. Now' = t /\ Becomes(t)
    BY <1>1, <1>9, <2>7, Next1 DEF Sound
  <2>. QED BY <1>3, <1>5, <2>5, <2>6, <2>7, <2>8 DEF Accepts, Becomes, h, v, x
<1>10. InjectAsserted(s, es) = t \/ InjectAsserted(s, es) = Halt("inject")
  BY DEF InjectAsserted
<1>. QED BY <1>8, <1>9, <1>10

\* After a reset no Wiimote is active, no gamepad has one, no handle is known.
LEMMA ResetResult ==
    ASSUME Sound(Now), Becomes(ResetState)
    PROVE  /\ Sound(Now') /\ hci' = HciReset /\ evtQ' = evtQ /\ hung' = hung
           /\ \A w \in Wiimotes : ~wm'[w].active
<1> DEFINE used == {wm[w].dev : w \in {x \in Wiimotes : wm[x].active}} \ {NoSlot}
           fakes == [w \in Wiimotes |-> [wm[w] EXCEPT !.active = FALSE]]
           table == [sl \in Slots |-> IF sl \in used THEN ReleaseWiimote(slots, sl)[sl]
                                                     ELSE slots[sl]]
           t == ResetState
<1>1. /\ wm \in [Wiimotes -> WiimoteRec] /\ slots \in [Slots -> SlotRec]
      /\ Queue(evtQ) /\ Linked(Now)
  BY NowFields DEF Sound, State
<1>2. t = Fields(fakes, table, HciReset, evtQ, overflow, hung)
  <2>1. t = [Now EXCEPT !.wm = fakes, !.slots = table, !.hci = HciReset]
    BY NowFields DEF ResetState
  <2> HIDE DEF fakes, table, t
  <2>2. t = [wm |-> fakes, slots |-> table, hci |-> HciReset, evtQ |-> evtQ,
             overflow |-> overflow, hung |-> hung]
    BY <2>1 DEF Now
  <2>. QED BY <2>2 DEF Fields
<1>3. ASSUME NEW w \in Wiimotes PROVE fakes[w] \in WiimoteRec /\ ~fakes[w].active
  <2> DEFINE x == wm[w]
             y == [x EXCEPT !.active = FALSE]
  <2>1. x \in WiimoteRec /\ fakes[w] = y
    BY <1>1
  <2> HIDE DEF x, fakes
  <2>2. y \in WiimoteRec /\ ~y.active
    BY <2>1 DEF WiimoteRec
  <2>. QED BY <2>1, <2>2
<1>4. fakes \in [Wiimotes -> WiimoteRec]
  <2>1. fakes = [w \in Wiimotes |-> fakes[w]]
    OBVIOUS
  <2> HIDE DEF fakes
  <2>. QED BY <1>3, <2>1
<1>5. ASSUME NEW sl \in Slots
      PROVE  /\ table[sl] \in SlotRec
             /\ table[sl].device # NoPad =>
                   \/ table[sl].assigned = NoWiimote
                   \/ sl \notin used /\ table[sl] = slots[sl]
  <2> DEFINE x == slots[sl]
             y == [x EXCEPT !.assigned = NoWiimote, !.delay = ReconnectDelay]
  <2>1. x \in SlotRec
    BY <1>1
  <2>2. ReleaseWiimote(slots, sl)[sl] = y
    BY <1>1 DEF ReleaseWiimote
  <2> HIDE DEF x
  <2>3. y \in SlotRec /\ y.assigned = NoWiimote
    BY <2>1, CoreAssumption DEF SlotRec
  <2> HIDE DEF y, used
  <2>4. table[sl] = IF sl \in used THEN y ELSE slots[sl]
    BY <2>2
  <2>. QED BY <2>1, <2>3, <2>4 DEF x
<1>6. table \in [Slots -> SlotRec]
  <2>1. table = [sl \in Slots |-> table[sl]]
    OBVIOUS
  <2> HIDE DEF table
  <2>. QED BY <1>5, <2>1
<1> HIDE DEF fakes, table, t
<1>7. /\ t.wm = fakes /\ t.slots = table /\ t.hci = HciReset /\ t.evtQ = evtQ
      /\ t.hung = hung /\ t.overflow = overflow
  BY <1>2 DEF Fields
<1>8. State(t)
  BY <1>1, <1>2, <1>4, <1>6, <1>7 DEF State
<1>9. Linked(t)
  <2> SUFFICES ASSUME NEW sl \in Slots, NEW w \in Wiimotes,
                      table[sl].device # NoPad, table[sl].assigned = w
               PROVE  FALSE
    BY <1>7 DEF Linked
  <2>1. w # NoWiimote /\ sl # NoSlot
    BY DEF Wiimotes, NoWiimote, Slots, NoSlot
  <2>2. sl \notin used /\ table[sl] = slots[sl]
    BY <1>5, <2>1
  <2>3. wm[w].active /\ wm[w].dev = sl
    BY <1>1, <2>2, NowFields DEF Linked
  <2>. QED BY <2>1, <2>2, <2>3
<1>10. Now' = t /\ Becomes(t)
  BY <1>8, Next1 DEF t
<1>. QED BY <1>3, <1>7, <1>8, <1>9, <1>10 DEF Becomes, Sound

-----------------------------------------------------------------------------
(* The tracker and the dongle                                               *)

DongleEvents ==
    {ConReq(r) : r \in Reals} \cup {ConCompl(r, h) : r \in Reals, h \in Phys}
    \cup {DisconCompl(h) : h \in Phys} \cup {OnHandle(h) : h \in Phys}
    \cup {Reply, ResetCompl}

LEMMA EventKinds ==
    ASSUME NEW e \in DongleEvents
    PROVE  /\ e.type \in {"con_req", "con_compl", "discon_compl", "on_handle",
                          "reply", "reset_compl"}
           /\ e.type = "con_compl" =>
                 e = ConCompl(e.peer, e.handle) /\ e.peer \in Reals /\ e.handle \in Phys
           /\ e.type = "discon_compl" => e = DisconCompl(e.handle) /\ e.handle \in Phys
           /\ e.type = "on_handle" => e.handle \in Phys
           /\ e.type = "reset_compl" => e = ResetCompl
BY DEF DongleEvents, ConReq, ConCompl, DisconCompl, OnHandle, Reply, ResetCompl

\* The tracker maps a new connection of the dongle,
Maps(e) ==
    /\ e.type = "con_compl" /\ Free(hci) # {}
    /\ Tracks(MapHandle(VirtAlloc(hci), e.handle, hci.last), ConCompl(e.peer, hci.last))

\* or unmaps one that has ended,
Unmaps(e) ==
    /\ e.type = "discon_compl" /\ WithPhys(hci, e.handle) # {}
    /\ Tracks(UnmapVirt(hci, GetVirt(hci, e.handle)),
              DisconCompl(GetVirt(hci, e.handle)))

\* or it stops, or passes on what needs no change of the table.
Passes(e) ==
    /\ Shedding
    /\ hung' = "no" => e.type \notin {"con_compl", "discon_compl"}

Finishes(e) == e.type = "reset_compl" /\ Tracks(hci, e)

LEMMA HaltStops ==
    ASSUME Sound(Now), NEW where, Becomes(Halt(where))
    PROVE  Shedding /\ hung' = where
<1>1. Halt(where).hung = where
  BY DEF Halt, Now
<1>. QED BY <1>1, HaltKeeps, ShedStep DEF Becomes

LEMMA TrackResult ==
    ASSUME Sound(Now), NEW e \in DongleEvents, Becomes(TrackEvent(e))
    PROVE  Maps(e) \/ Unmaps(e) \/ Passes(e) \/ Finishes(e)
<1> DEFINE v == GetVirt(hci, e.handle)
<1>0. Now = [Now EXCEPT !.hci = hci]
  BY DEF Now
<1>1. CASE e.type = "con_compl"
  <2> DEFINE mapped == MapHandle(VirtAlloc(hci), e.handle, hci.last)
             out == ConCompl(e.peer, hci.last)
  <2>1. TrackEvent(e) = IF Free(hci) = {} THEN Halt("map")
                        ELSE Inject([Now EXCEPT !.hci = mapped], out)
    BY <1>1 DEF TrackEvent
  <2> HIDE DEF mapped, out
  <2>2. CASE Free(hci) = {}
    <3>1. Shedding /\ hung' = "map"
      BY <2>1, <2>2, HaltStops
    <3>. QED BY <3>1 DEF Passes
  <2>3. CASE Free(hci) # {}
    <3>1. Tracks(mapped, out)
      BY <2>1, <2>3, InjectTracks
    <3>. QED BY <1>1, <2>3, <3>1 DEF Maps, mapped, out
  <2>. QED BY <2>2, <2>3
<1>2. CASE e.type = "discon_compl"
  <2> DEFINE unmapped == UnmapVirt(hci, v)
             out == DisconCompl(v)
  <2>1. TrackEvent(e) = IF WithPhys(hci, e.handle) = {} THEN Halt("event")
                        ELSE Inject([Now EXCEPT !.hci = unmapped], out)
    BY <1>2, NowFields DEF TrackEvent
  <2> HIDE DEF unmapped, out
  <2>2. CASE WithPhys(hci, e.handle) = {}
    <3>1. Shedding /\ hung' = "event"
      BY <2>1, <2>2, HaltStops
    <3>. QED BY <3>1 DEF Passes
  <2>3. CASE WithPhys(hci, e.handle) # {}
    <3>1. Tracks(unmapped, out)
      BY <2>1, <2>3, InjectTracks
    <3>. QED BY <1>2, <2>3, <3>1 DEF Unmaps, unmapped, out
  <2>. QED BY <2>2, <2>3
<1>3. CASE e.type = "on_handle"
  <2> DEFINE out == OnHandle(v)
  <2>1. TrackEvent(e) = IF WithPhys(hci, e.handle) = {} THEN Halt("event")
                        ELSE Inject(Now, out)
    BY <1>3 DEF TrackEvent
  <2>2. Plainly(out)
    BY DEF Plainly, OnHandle
  <2> HIDE DEF out
  <2>3. Shedding
    BY <2>1, <2>2, HaltStops, InjectSheds
  <2>. QED BY <1>3, <2>3 DEF Passes
<1>4. CASE e.type \in {"con_req", "reply"}
  <2>1. TrackEvent(e) = Inject(Now, e) /\ Plainly(e)
    BY <1>4 DEF TrackEvent, Plainly
  <2>. QED BY <1>4, <2>1, InjectSheds DEF Passes
<1>5. CASE e.type = "reset_compl"
  <2>1. TrackEvent(e) = Inject([Now EXCEPT !.hci = hci], e)
    BY <1>0, <1>5 DEF TrackEvent
  <2>2. Tracks(hci, e)
    BY <2>1, InjectTracks
  <2>. QED BY <1>5, <2>2 DEF Finishes
<1>. QED BY <1>1, <1>2, <1>3, <1>4, <1>5, EventKinds

\* The host takes the first event of the queue.
LEMMA ReadSound ==
    ASSUME Sound(Now), HostRead
    PROVE  Sound(Now')
<1> DEFINE q == Tail(evtQ)
           t == Fields(wm, slots, hci, q, overflow, hung)
<1>1. Now' = t
  BY DEF HostRead, Now, Fields
<1>2. Queue(evtQ) /\ evtQ # <<>>
  BY NowFields DEF Sound, State, HostRead
<1>3. Queue(q)
  BY <1>2, QueueTail
<1> HIDE DEF q
<1>4. t.wm = wm /\ t.slots = slots /\ t.hci = hci /\ t.evtQ = q
      /\ t.overflow = overflow /\ t.hung = hung
  BY DEF Fields
<1> HIDE DEF t
<1>5. Sound(t)
  <2>1. t = Fields(t.wm, t.slots, t.hci, t.evtQ, t.overflow, t.hung)
    BY <1>4 DEF t
  <2>. QED BY <1>3, <1>4, <2>1, NowFields DEF Sound, State, Linked
<1>. QED BY <1>1, <1>5

-----------------------------------------------------------------------------
(* The tracked state and its table                                          *)

EntryRec == [valid : {FALSE}] \cup [valid : {TRUE}, phys : Phys, virt : VirtHandles]

\* Table g is that of h but for entry i, which is e.
Rewrites(h, g, i, e) ==
    /\ i \in Entries /\ g.table[i] = e
    /\ \A j \in Entries : j # i => g.table[j] = h.table[j]

LEMMA AllocType ==
    ASSUME NEW h \in HciRec
    PROVE  /\ VirtAlloc(h) \in HciRec /\ VirtAlloc(h).table = h.table
           /\ VirtAlloc(h).last = (h.last + 1) % NumHandles
<1> DEFINE n == (h.last + 1) % NumHandles
<1>1. n \in VirtHandles
  <2>1. h.last \in Nat
    BY HciAssumption DEF HciRec, VirtHandles
  <2>. QED BY <2>1, HciAssumption DEF VirtHandles
<1>2. VirtAlloc(h) = [h EXCEPT !.last = n]
  BY DEF VirtAlloc
<1> HIDE DEF n
<1>. QED BY <1>1, <1>2 DEF HciRec, n

LEMMA EntriesNat ==
    ASSUME NEW S \in SUBSET Entries, S # {}
    PROVE  Min(S) \in S
BY MinIn DEF Entries

LEMMA TableChange ==
    ASSUME NEW h \in HciRec, NEW i \in Entries, NEW e \in EntryRec
    PROVE  /\ [h EXCEPT !.table[i] = e] \in HciRec
           /\ [h EXCEPT !.table[i] = e].last = h.last
           /\ Rewrites(h, [h EXCEPT !.table[i] = e], i, e)
<1> DEFINE table == [h.table EXCEPT ![i] = e]
           g == [h EXCEPT !.table = table]
<1>1. [h EXCEPT !.table[i] = e] = g
  OBVIOUS
<1>2. h.table \in [Entries -> EntryRec]
  BY DEF HciRec, EntryRec
<1>3. /\ table \in [Entries -> EntryRec] /\ table[i] = e
      /\ \A j \in Entries : j # i => table[j] = h.table[j]
  BY <1>2
<1> HIDE DEF table
<1>4. g \in HciRec /\ g.last = h.last /\ g.table = table
  BY <1>3 DEF HciRec, EntryRec
<1> HIDE DEF g
<1>5. Rewrites(h, g, i, e)
  BY <1>3, <1>4 DEF Rewrites
<1>. QED BY <1>1, <1>4, <1>5

LEMMA MapType ==
    ASSUME NEW h \in HciRec, Free(h) # {}, NEW p \in Phys, NEW v \in VirtHandles
    PROVE  /\ MapHandle(h, p, v) \in HciRec /\ MapHandle(h, p, v).last = h.last
           /\ \E i \in Entries : /\ ~h.table[i].valid
                                 /\ Rewrites(h, MapHandle(h, p, v), i, Mapped(p, v))
<1> DEFINE i == Min(Free(h))
<1>1. i \in Entries /\ ~h.table[i].valid
  <2>1. i \in Free(h)
    BY EntriesNat DEF Free
  <2>. QED BY <2>1 DEF Free
<1>2. Mapped(p, v) \in EntryRec
  BY DEF Mapped, EntryRec
<1>. QED BY <1>1, <1>2, TableChange DEF MapHandle

\* The handle of the host that stands for one of the dongle.
LEMMA VirtOf ==
    ASSUME NEW h \in HciRec, NEW p, WithPhys(h, p) # {}
    PROVE  \E i \in WithPhys(h, p) :
              /\ GetVirt(h, p) = h.table[i].virt /\ GetVirt(h, p) \in VirtHandles
              /\ i \in WithVirt(h, GetVirt(h, p))
<1> DEFINE i == Min(WithPhys(h, p))
<1>1. i \in WithPhys(h, p)
  BY EntriesNat DEF WithPhys
<1>2. i \in Entries /\ h.table[i].valid /\ h.table[i] \in EntryRec
  BY <1>1 DEF WithPhys, HciRec, EntryRec
<1>3. GetVirt(h, p) = h.table[i].virt
  BY DEF GetVirt
<1>4. h.table[i].virt \in VirtHandles
  BY <1>2 DEF EntryRec
<1>. QED BY <1>1, <1>2, <1>3, <1>4 DEF WithVirt

LEMMA UnmapType ==
    ASSUME NEW h \in HciRec, NEW v, WithVirt(h, v) # {}
    PROVE  /\ UnmapVirt(h, v) \in HciRec /\ UnmapVirt(h, v).last = h.last
           /\ \E i \in WithVirt(h, v) : Rewrites(h, UnmapVirt(h, v), i, Unmapped)
<1> DEFINE i == Min(WithVirt(h, v))
<1>1. i \in WithVirt(h, v) /\ i \in Entries
  BY EntriesNat DEF WithVirt
<1>2. Unmapped \in EntryRec
  BY DEF Unmapped, EntryRec
<1>. QED BY <1>1, <1>2, TableChange DEF UnmapVirt

LEMMA TrackedTypes ==
    /\ HciReset \in HciRec
    /\ \A h \in HciRec, on \in BOOLEAN :
          /\ SetScan(h, on) \in HciRec /\ SetScan(h, on).last = h.last
          /\ SetScan(h, on).table = h.table
<1>1. HciReset \in HciRec
  <2>1. 0 \in VirtHandles
    BY HciAssumption DEF VirtHandles
  <2>2. [i \in Entries |-> Unmapped] \in [Entries -> EntryRec]
    BY DEF Unmapped, EntryRec
  <2>. QED BY <2>1, <2>2 DEF HciRec, HciReset, EntryRec
<1>2. ASSUME NEW h \in HciRec, NEW on \in BOOLEAN
      PROVE  /\ SetScan(h, on) \in HciRec /\ SetScan(h, on).last = h.last
             /\ SetScan(h, on).table = h.table
  BY DEF SetScan, HciRec
<1>. QED BY <1>1, <1>2

-----------------------------------------------------------------------------
(* The dongle                                                               *)

DongleRec == [link : [Phys -> Reals \cup {Nobody}], evts : Seq(DongleEvents),
              acl : Seq(Phys), reset : BOOLEAN]

LEMMA DongleExcept ==
    ASSUME NEW d \in DongleRec, NEW x, NEW y
    PROVE  /\ [d EXCEPT !.evts = x]
                 = [link |-> d.link, evts |-> x, acl |-> d.acl, reset |-> d.reset]
           /\ [d EXCEPT !.acl = x]
                 = [link |-> d.link, evts |-> d.evts, acl |-> x, reset |-> d.reset]
           /\ [d EXCEPT !.reset = x]
                 = [link |-> d.link, evts |-> d.evts, acl |-> d.acl, reset |-> x]
           /\ [d EXCEPT !.link = x, !.evts = y]
                 = [link |-> x, evts |-> y, acl |-> d.acl, reset |-> d.reset]
<1> DEFINE a == d.link
           b == d.evts
           c == d.acl
           e == d.reset
<1>1. d = [link |-> a, evts |-> b, acl |-> c, reset |-> e]
  BY DEF DongleRec
<1> HIDE DEF a, b, c, e
<1>2. [d EXCEPT !.evts = x] = [link |-> a, evts |-> x, acl |-> c, reset |-> e]
  BY <1>1
<1>3. [d EXCEPT !.acl = x] = [link |-> a, evts |-> b, acl |-> x, reset |-> e]
  BY <1>1
<1>4. [d EXCEPT !.reset = x] = [link |-> a, evts |-> b, acl |-> c, reset |-> x]
  BY <1>1
<1> DEFINE d1 == [d EXCEPT !.link = x]
<1>5. [d EXCEPT !.link = x, !.evts = y] = [d1 EXCEPT !.evts = y]
  OBVIOUS
<1>6. d1 = [link |-> x, evts |-> b, acl |-> c, reset |-> e]
  BY <1>1
<1> HIDE DEF d1
<1>7. [d1 EXCEPT !.evts = y] = [link |-> x, evts |-> y, acl |-> c, reset |-> e]
  BY <1>6
<1>. QED BY <1>2, <1>3, <1>4, <1>5, <1>7 DEF a, b, c, e

\* Something the dongle reports.
Reports(e) ==
    /\ e \in DongleEvents
    /\ dongle' = [link |-> dongle.link, evts |-> Append(dongle.evts, e),
                  acl |-> dongle.acl, reset |-> dongle.reset]

\* A connection is opened or closed, and reported.
Links(h, p, e) ==
    /\ h \in Phys /\ p \in Reals \cup {Nobody} /\ e \in DongleEvents
    /\ dongle' = [link |-> [dongle.link EXCEPT ![h] = p],
                  evts |-> Append(dongle.evts, e),
                  acl |-> dongle.acl, reset |-> dongle.reset]

LEMMA ReportsType ==
    ASSUME dongle \in DongleRec, NEW e, Reports(e)
    PROVE  dongle' \in DongleRec
BY DEF DongleRec, Reports

LEMMA LinksType ==
    ASSUME dongle \in DongleRec, NEW h, NEW p, NEW e, Links(h, p, e)
    PROVE  dongle' \in DongleRec
<1>1. [dongle.link EXCEPT ![h] = p] \in [Phys -> Reals \cup {Nobody}]
  BY DEF DongleRec, Links
<1>2. Append(dongle.evts, e) \in Seq(DongleEvents)
  BY DEF DongleRec, Links
<1>. QED BY <1>1, <1>2 DEF DongleRec, Links

LEMMA LinksExcept ==
    ASSUME dongle \in DongleRec, NEW h \in Phys, NEW p \in Reals \cup {Nobody},
           NEW e \in DongleEvents,
           dongle' = [dongle EXCEPT !.link[h] = p, !.evts = Append(@, e)]
    PROVE  Links(h, p, e)
<1> DEFINE x == [dongle.link EXCEPT ![h] = p]
           y == Append(dongle.evts, e)
<1>1. dongle' = [dongle EXCEPT !.link = x, !.evts = y]
  OBVIOUS
<1> HIDE DEF x, y
<1>2. dongle' = [link |-> x, evts |-> y, acl |-> dongle.acl, reset |-> dongle.reset]
  BY <1>1, DongleExcept
<1>. QED BY <1>2 DEF Links, x, y

LEMMA ReportsExcept ==
    ASSUME dongle \in DongleRec, NEW e \in DongleEvents,
           dongle' = [dongle EXCEPT !.evts = Append(@, e)]
    PROVE  Reports(e)
<1> DEFINE y == Append(dongle.evts, e)
<1>1. dongle' = [dongle EXCEPT !.evts = y]
  OBVIOUS
<1> HIDE DEF y
<1>2. dongle' = [link |-> dongle.link, evts |-> y, acl |-> dongle.acl, reset |-> dongle.reset]
  BY <1>1, DongleExcept
<1>. QED BY <1>2 DEF Reports, y

\* What the dongle and the host's other pipe do besides.
LEMMA DongleOther ==
    ASSUME dongle \in DongleRec
    PROVE  /\ \A h \in Phys :
                 /\ [dongle EXCEPT !.acl = Append(@, h)] \in DongleRec
                 /\ [dongle EXCEPT !.acl = Append(@, h)].evts = dongle.evts
                 /\ [dongle EXCEPT !.acl = Append(@, h)].link = dongle.link
                 /\ [dongle EXCEPT !.acl = Append(@, h)].reset = dongle.reset
           /\ dongle.acl # <<>> =>
                 /\ [dongle EXCEPT !.acl = Tail(@)] \in DongleRec
                 /\ [dongle EXCEPT !.acl = Tail(@)].evts = dongle.evts
                 /\ [dongle EXCEPT !.acl = Tail(@)].link = dongle.link
                 /\ [dongle EXCEPT !.acl = Tail(@)].reset = dongle.reset
           /\ dongle.evts # <<>> =>
                 /\ Head(dongle.evts) \in DongleEvents
                 /\ [dongle EXCEPT !.evts = Tail(@)] \in DongleRec
                 /\ [dongle EXCEPT !.evts = Tail(@)].evts = Tail(dongle.evts)
                 /\ [dongle EXCEPT !.evts = Tail(@)].link = dongle.link
                 /\ [dongle EXCEPT !.evts = Tail(@)].reset = dongle.reset
           /\ [dongle EXCEPT !.reset = TRUE] \in DongleRec
           /\ [dongle EXCEPT !.reset = TRUE].evts = dongle.evts
           /\ [dongle EXCEPT !.reset = TRUE].link = dongle.link
           /\ [dongle EXCEPT !.reset = TRUE].reset
           /\ [link |-> [h \in Phys |-> Nobody], evts |-> <<ResetCompl>>,
               acl |-> <<>>, reset |-> FALSE] \in DongleRec
<1> DEFINE a == dongle.link
           b == dongle.evts
           c == dongle.acl
           d == dongle.reset
<1>1. a \in [Phys -> Reals \cup {Nobody}] /\ b \in Seq(DongleEvents) /\ c \in Seq(Phys)
      /\ d \in BOOLEAN
  BY DEF DongleRec
<1>2. ASSUME NEW x \in Seq(Phys)
      PROVE  LET t == [dongle EXCEPT !.acl = x]
             IN  t \in DongleRec /\ t.evts = b /\ t.link = a /\ t.reset = d
  <2>1. [dongle EXCEPT !.acl = x] = [link |-> a, evts |-> b, acl |-> x, reset |-> d]
    BY DongleExcept
  <2> HIDE DEF a, b, c, d
  <2>. QED BY <1>1, <2>1 DEF DongleRec
<1>3. ASSUME NEW x \in Seq(DongleEvents)
      PROVE  LET t == [dongle EXCEPT !.evts = x]
             IN  t \in DongleRec /\ t.evts = x /\ t.link = a /\ t.reset = d
  <2>1. [dongle EXCEPT !.evts = x] = [link |-> a, evts |-> x, acl |-> c, reset |-> d]
    BY DongleExcept
  <2> HIDE DEF a, b, c, d
  <2>. QED BY <1>1, <2>1 DEF DongleRec
<1>4. LET t == [dongle EXCEPT !.reset = TRUE]
      IN  t \in DongleRec /\ t.evts = b /\ t.link = a /\ t.reset
  <2>1. [dongle EXCEPT !.reset = TRUE] = [link |-> a, evts |-> b, acl |-> c, reset |-> TRUE]
    BY DongleExcept
  <2> HIDE DEF a, b, c, d
  <2>. QED BY <1>1, <2>1 DEF DongleRec
<1>5. [link |-> [h \in Phys |-> Nobody], evts |-> <<ResetCompl>>,
       acl |-> <<>>, reset |-> FALSE] \in DongleRec
  <2>1. ResetCompl \in DongleEvents
    BY DEF DongleEvents
  <2>2. <<ResetCompl>> \in Seq(DongleEvents)
    BY <2>1
  <2>. QED BY <2>2 DEF DongleRec
<1>6. \A h \in Phys : Append(c, h) \in Seq(Phys)
  BY <1>1
<1>7. c # <<>> => Tail(c) \in Seq(Phys)
  BY <1>1
<1>8. b # <<>> => Tail(b) \in Seq(DongleEvents) /\ Head(b) \in DongleEvents
  BY <1>1
<1>. QED BY <1>2, <1>3, <1>4, <1>5, <1>6, <1>7, <1>8

-----------------------------------------------------------------------------
(* The host                                                                 *)

\* What the host knows, as a value; a handle's record is a peer and a count.
Knows(r, a, c, b) == [requests |-> r, accepted |-> a, con |-> c, resetting |-> b]

ConShape(c) ==
    c = [v \in VirtHandles |-> [peer |-> c[v].peer, sent |-> c[v].sent]]

HostShape ==
    /\ host = Knows(host.requests, host.accepted, host.con, host.resetting)
    /\ ConShape(host.con)
    /\ host.resetting \in BOOLEAN

\* The host gets to know of no connection.
Forgets(c, d) ==
    ConShape(d) /\ \A v \in VirtHandles : d[v].peer \in {c[v].peer, Nobody}

HostCalm ==
    /\ HostShape' /\ host'.resetting = host.resetting
    /\ Forgets(host.con, host'.con)

LEMMA HostExcept ==
    ASSUME HostShape, NEW x, NEW y
    PROVE  /\ [host EXCEPT !.requests = x]
                 = Knows(x, host.accepted, host.con, host.resetting)
           /\ [host EXCEPT !.requests = x, !.accepted = y]
                 = Knows(x, y, host.con, host.resetting)
           /\ [host EXCEPT !.con = x]
                 = Knows(host.requests, host.accepted, x, host.resetting)
           /\ [host EXCEPT !.con = x, !.accepted = y]
                 = Knows(host.requests, y, x, host.resetting)
           /\ [host EXCEPT !.resetting = x]
                 = Knows(host.requests, host.accepted, host.con, x)
<1> DEFINE r == host.requests
           a == host.accepted
           c == host.con
           b == host.resetting
<1>1. host = [requests |-> r, accepted |-> a, con |-> c, resetting |-> b]
  BY DEF HostShape, Knows
<1> HIDE DEF r, a, c, b
<1>2. [host EXCEPT !.requests = x] = Knows(x, a, c, b)
  BY <1>1 DEF Knows
<1>3. [host EXCEPT !.con = x] = Knows(r, a, x, b)
  BY <1>1 DEF Knows
<1>4. [host EXCEPT !.resetting = x] = Knows(r, a, c, x)
  BY <1>1 DEF Knows
<1> DEFINE h1 == [host EXCEPT !.requests = x]
           h2 == [host EXCEPT !.con = x]
<1>5. /\ [host EXCEPT !.requests = x, !.accepted = y] = [h1 EXCEPT !.accepted = y]
      /\ [host EXCEPT !.con = x, !.accepted = y] = [h2 EXCEPT !.accepted = y]
  OBVIOUS
<1>6. h1 = Knows(x, a, c, b) /\ h2 = Knows(r, a, x, b)
  BY <1>2, <1>3
<1> HIDE DEF h1, h2
<1>7. /\ [h1 EXCEPT !.accepted = y] = Knows(x, y, c, b)
      /\ [h2 EXCEPT !.accepted = y] = Knows(r, y, x, b)
  BY <1>6 DEF Knows
<1>. QED BY <1>2, <1>3, <1>4, <1>5, <1>7 DEF r, a, c, b

LEMMA KnowsShape ==
    ASSUME NEW r, NEW a, NEW c, NEW b \in BOOLEAN, ConShape(c),
           host' = Knows(r, a, c, b)
    PROVE  HostShape' /\ host'.con = c /\ host'.resetting = b
BY DEF HostShape, Knows

LEMMA ForgetsNothing ==
    ASSUME HostShape
    PROVE  Forgets(host.con, host.con)
BY DEF HostShape, Forgets

\* One handle gets another record.
With(c, v, p, n) == [c EXCEPT ![v] = [peer |-> p, sent |-> n]]
Replaces(c, v, p, d) ==
    /\ ConShape(d)
    /\ \A u \in VirtHandles : d[u].peer = IF u = v THEN p ELSE c[u].peer

LEMMA ConExcept ==
    ASSUME HostShape, NEW v, NEW p, NEW n
    PROVE  Replaces(host.con, v, p, With(host.con, v, p, n))
<1> DEFINE c == host.con
           d == With(c, v, p, n)
           peer == [u \in VirtHandles |-> c[u].peer]
           sent == [u \in VirtHandles |-> c[u].sent]
           x == [peer |-> p, sent |-> n]
<1>1. c = [u \in VirtHandles |-> [peer |-> peer[u], sent |-> sent[u]]]
      /\ d = [c EXCEPT ![v] = x]
  BY DEF HostShape, ConShape, With
<1> HIDE DEF c, peer, sent, d
<1>2. d = [u \in VirtHandles |-> IF u = v THEN x ELSE [peer |-> peer[u], sent |-> sent[u]]]
  BY <1>1
<1>3. \A u \in VirtHandles :
         /\ d[u].peer = IF u = v THEN p ELSE peer[u]
         /\ d[u].sent = IF u = v THEN n ELSE sent[u]
         /\ c[u].peer = peer[u]
  BY <1>1, <1>2
<1>4. d = [u \in VirtHandles |-> [peer |-> d[u].peer, sent |-> d[u].sent]]
  <2> DEFINE f == [u \in VirtHandles |-> [peer |-> d[u].peer, sent |-> d[u].sent]]
  <2>1. ASSUME NEW u \in VirtHandles
        PROVE  d[u] = f[u]
    <3>1. d[u] = IF u = v THEN x ELSE [peer |-> peer[u], sent |-> sent[u]]
      BY <1>2
    <3>2. f[u] = [peer |-> IF u = v THEN p ELSE peer[u],
                  sent |-> IF u = v THEN n ELSE sent[u]]
      BY <1>3
    <3> HIDE DEF f
    <3>. QED BY <3>1, <3>2
  <2>2. d = [u \in VirtHandles |-> d[u]]
    BY <1>2
  <2>. QED BY <2>1, <2>2
<1>. QED BY <1>3, <1>4 DEF ConShape, Replaces, c, d

\* Counts change, peers do not.
LEMMA ConCounts ==
    ASSUME HostShape, NEW d, d = [v \in VirtHandles |-> d[v]],
           \A v \in VirtHandles : \E n : d[v] = [peer |-> host.con[v].peer, sent |-> n]
    PROVE  Forgets(host.con, d)
<1>1. ASSUME NEW v \in VirtHandles
      PROVE  d[v] = [peer |-> d[v].peer, sent |-> d[v].sent] /\ d[v].peer = host.con[v].peer
  <2>1. PICK n : d[v] = [peer |-> host.con[v].peer, sent |-> n]
    OBVIOUS
  <2>. QED BY <2>1
<1>2. ConShape(d)
  <2> DEFINE f == [v \in VirtHandles |-> [peer |-> d[v].peer, sent |-> d[v].sent]]
  <2>1. \A v \in VirtHandles : f[v] = d[v]
    BY <1>1
  <2>2. d = f
    BY <2>1
  <2>. QED BY <2>2 DEF ConShape
<1>. QED BY <1>1, <1>2 DEF Forgets

LEMMA CountExcept ==
    ASSUME HostShape, NEW v \in VirtHandles, NEW n
    PROVE  [host.con[v] EXCEPT !.sent = n] = [peer |-> host.con[v].peer, sent |-> n]
<1> DEFINE a == host.con[v].peer
           b == host.con[v].sent
           x == host.con[v]
<1>1. x = [peer |-> a, sent |-> b]
  BY DEF HostShape, ConShape
<1> HIDE DEF a, b, x
<1>2. [x EXCEPT !.sent = n] = [peer |-> a, sent |-> n]
  BY <1>1
<1>. QED BY <1>2 DEF a, x

\* The effect on the host's knowledge of everything it does but read and reset.
LEMMA HostEffects ==
    ASSUME HostShape
    PROVE  /\ UNCHANGED host => HostCalm
           /\ \A x, y : host' = [host EXCEPT !.requests = x, !.accepted = y] => HostCalm
           /\ \A x : host' = [host EXCEPT !.requests = x] => HostCalm
           /\ \A v \in VirtHandles :
                 host' = [host EXCEPT !.con[v] = [peer |-> Nobody, sent |-> 0]]
                 => HostCalm
           /\ \A v \in VirtHandles : host' = [host EXCEPT !.con[v].sent = @ + 1] => HostCalm
<1>1. host.resetting \in BOOLEAN /\ ConShape(host.con)
  BY DEF HostShape
<1>2. UNCHANGED host => HostCalm
  BY ForgetsNothing DEF HostCalm, HostShape
<1>3. ASSUME NEW x, NEW y, host' = [host EXCEPT !.requests = x, !.accepted = y]
      PROVE  HostCalm
  <2>1. host' = Knows(x, y, host.con, host.resetting)
    BY <1>3, HostExcept
  <2>. QED BY <1>1, <2>1, KnowsShape, ForgetsNothing DEF HostCalm
<1>4. ASSUME NEW x, host' = [host EXCEPT !.requests = x]
      PROVE  HostCalm
  <2>1. host' = Knows(x, host.accepted, host.con, host.resetting)
    BY <1>4, HostExcept
  <2>. QED BY <1>1, <2>1, KnowsShape, ForgetsNothing DEF HostCalm
<1>5. ASSUME NEW v \in VirtHandles,
             host' = [host EXCEPT !.con[v] = [peer |-> Nobody, sent |-> 0]]
      PROVE  HostCalm
  <2> DEFINE d == [host.con EXCEPT ![v] = [peer |-> Nobody, sent |-> 0]]
  <2>1. Forgets(host.con, d)
    <3>1. d = With(host.con, v, Nobody, 0)
      BY DEF With
    <3> HIDE DEF d
    <3>2. Replaces(host.con, v, Nobody, d)
      BY <3>1, ConExcept
    <3>. QED BY <3>2 DEF Forgets, Replaces
  <2>2. host' = [host EXCEPT !.con = d]
    BY <1>5
  <2> HIDE DEF d
  <2>3. host' = Knows(host.requests, host.accepted, d, host.resetting)
    BY <2>2, HostExcept
  <2>. QED BY <1>1, <2>1, <2>3, KnowsShape DEF HostCalm, Forgets
<1>6. ASSUME NEW v \in VirtHandles, host' = [host EXCEPT !.con[v].sent = @ + 1]
      PROVE  HostCalm
  <2> DEFINE n == host.con[v].sent + 1
             x == [host.con[v] EXCEPT !.sent = n]
             y == [peer |-> host.con[v].peer, sent |-> n]
             d == [host.con EXCEPT ![v] = x]
             d2 == [host.con EXCEPT ![v] = y]
  <2>1. d = d2
    BY CountExcept
  <2>2. Forgets(host.con, d2)
    <3>1. d2 = With(host.con, v, host.con[v].peer, n)
      BY DEF With
    <3> HIDE DEF d2, n
    <3>2. Replaces(host.con, v, host.con[v].peer, d2)
      BY <3>1, ConExcept
    <3>. QED BY <3>2 DEF Forgets, Replaces
  <2>3. host' = [host EXCEPT !.con = d]
    BY <1>6
  <2> HIDE DEF d, d2
  <2>4. host' = Knows(host.requests, host.accepted, d, host.resetting)
    BY <2>3, HostExcept
  <2>. QED BY <1>1, <2>1, <2>2, <2>4, KnowsShape DEF HostCalm, Forgets
<1>. QED BY <1>2, <1>3, <1>4, <1>5, <1>6

\* The host learns of a new connection.
Learns(e) ==
    /\ e.type = "con_compl" /\ ~host.resetting
    /\ HostShape' /\ host'.resetting = host.resetting
    /\ \A v \in VirtHandles :
          host'.con[v].peer = IF v = e.handle THEN e.peer ELSE host.con[v].peer

\* The reset is over.
Restarts(e) ==
    /\ e.type = "reset_compl"
    /\ HostShape' /\ ~host'.resetting /\ host'.con = host.con

LEMMA ReadEffects ==
    ASSUME HostShape, HostRead
    PROVE  LET e == Head(evtQ) IN
           \/ Learns(e)
           \/ Restarts(e)
           \/ HostCalm /\ e.type # "reset_compl"
                       /\ (e.type = "con_compl" => host.resetting)
<1> DEFINE e == Head(evtQ)
           counted == [v \in VirtHandles |->
                          IF v \in DOMAIN e.counts /\ host.con[v].peer # Nobody
                          THEN [host.con[v] EXCEPT !.sent = @ - e.counts[v]]
                          ELSE host.con[v]]
<1> DEFINE told == [host EXCEPT !.con[e.handle] = [peer |-> e.peer, sent |-> 0],
                                !.accepted = @ \ {e.peer}]
           closed == [host EXCEPT !.con[e.handle] = [peer |-> Nobody, sent |-> 0]]
           credited == [host EXCEPT !.con = counted]
           asked == [host EXCEPT !.requests = @ \cup {e.peer}]
           ready == [host EXCEPT !.resetting = FALSE]
<1>0. host' =
         IF e.type = "reset_compl" THEN ready
         ELSE IF host.resetting THEN host
         ELSE CASE e.type = "con_req" -> asked
                [] e.type = "con_compl" -> told
                [] e.type = "discon_compl" -> closed
                [] e.type = "num_compl" -> credited
                [] OTHER -> host
  BY SMT DEF HostRead
<1>1. host.resetting \in BOOLEAN /\ ConShape(host.con)
  BY DEF HostShape
<1> HIDE DEF e, counted, told, closed, credited, asked, ready
<1>2. CASE e.type = "reset_compl"
  <2>1. host' = [host EXCEPT !.resetting = FALSE]
    BY <1>0, <1>2 DEF ready
  <2>2. host' = Knows(host.requests, host.accepted, host.con, FALSE)
    BY <2>1, HostExcept
  <2>3. HostShape' /\ host'.con = host.con /\ host'.resetting = FALSE
    BY <1>1, <2>2, KnowsShape
  <2>. QED BY <1>2, <2>3 DEF Restarts, e
<1>3. CASE e.type # "reset_compl" /\ host.resetting
  <2>1. host' = host
    BY <1>0, <1>3
  <2>. QED BY <1>3, <2>1, HostEffects DEF e
<1>4. CASE e.type # "reset_compl" /\ ~host.resetting
  <2>1. CASE e.type = "con_compl"
    <3> DEFINE d == [host.con EXCEPT ![e.handle] = [peer |-> e.peer, sent |-> 0]]
               a == host.accepted \ {e.peer}
    <3>1. host' = [host EXCEPT !.con = d, !.accepted = a]
      BY <1>0, <1>4, <2>1 DEF told
    <3>2. /\ ConShape(d)
          /\ \A u \in VirtHandles : d[u].peer = IF u = e.handle THEN e.peer ELSE host.con[u].peer
      <4>1. d = With(host.con, e.handle, e.peer, 0)
        BY DEF With
      <4> HIDE DEF d
      <4>2. Replaces(host.con, e.handle, e.peer, d)
        BY <4>1, ConExcept
      <4>. QED BY <4>2 DEF Replaces
    <3> HIDE DEF d, a
    <3>3. host' = Knows(host.requests, a, d, host.resetting)
      BY <3>1, HostExcept
    <3>4. HostShape' /\ host'.con = d /\ host'.resetting = host.resetting
      BY <1>1, <3>2, <3>3, KnowsShape
    <3>5. Learns(e)
      BY <1>4, <2>1, <3>2, <3>4 DEF Learns
    <3>. QED BY <3>5 DEF e
  <2>2. CASE e.type = "discon_compl"
    <3> DEFINE d == [host.con EXCEPT ![e.handle] = [peer |-> Nobody, sent |-> 0]]
    <3>1. host' = [host EXCEPT !.con = d]
      BY <1>0, <1>4, <2>2 DEF closed
    <3>2. Forgets(host.con, d)
      <4>1. d = With(host.con, e.handle, Nobody, 0)
        BY DEF With
      <4> HIDE DEF d
      <4>2. Replaces(host.con, e.handle, Nobody, d)
        BY <4>1, ConExcept
      <4>. QED BY <4>2 DEF Forgets, Replaces
    <3> HIDE DEF d
    <3>3. host' = Knows(host.requests, host.accepted, d, host.resetting)
      BY <3>1, HostExcept
    <3>4. HostCalm
      BY <1>1, <3>2, <3>3, KnowsShape DEF HostCalm, Forgets
    <3>. QED BY <1>4, <2>2, <3>4 DEF e
  <2>3. CASE e.type = "num_compl"
    <3>1. host' = [host EXCEPT !.con = counted]
      BY <1>0, <1>4, <2>3 DEF credited
    <3>2. Forgets(host.con, counted)
      <4>1. counted = [v \in VirtHandles |-> counted[v]]
        BY DEF counted
      <4>2. ASSUME NEW v \in VirtHandles
            PROVE  \E n : counted[v] = [peer |-> host.con[v].peer, sent |-> n]
        <5> DEFINE m == host.con[v].sent - e.counts[v]
        <5>1. \/ counted[v] = [host.con[v] EXCEPT !.sent = m]
              \/ counted[v] = host.con[v]
          BY DEF counted
        <5>2. host.con[v] = [peer |-> host.con[v].peer, sent |-> host.con[v].sent]
          BY <1>1 DEF ConShape
        <5> HIDE DEF m, counted
        <5>3. [host.con[v] EXCEPT !.sent = m] = [peer |-> host.con[v].peer, sent |-> m]
          BY CountExcept
        <5>. QED BY <5>1, <5>2, <5>3, Zenon
      <4> HIDE DEF counted
      <4>. QED BY <4>1, <4>2, ConCounts
    <3>3. host' = Knows(host.requests, host.accepted, counted, host.resetting)
      BY <3>1, HostExcept
    <3>4. HostCalm
      BY <1>1, <3>2, <3>3, KnowsShape DEF HostCalm, Forgets
    <3>. QED BY <1>4, <2>3, <3>4 DEF e
  <2>4. CASE e.type = "con_req"
    <3> DEFINE x == host.requests \cup {e.peer}
    <3>1. host' = [host EXCEPT !.requests = x]
      BY <1>0, <1>4, <2>4 DEF asked
    <3> HIDE DEF x
    <3>. QED BY <2>4, <3>1, HostEffects DEF e
  <2>5. CASE e.type \notin {"con_compl", "discon_compl", "num_compl", "con_req"}
    <3>1. host' = host
      BY <1>0, <1>4, <2>5
    <3>. QED BY <1>4, <2>5, <3>1, HostEffects DEF e
  <2>. QED BY <2>1, <2>2, <2>3, <2>4, <2>5
<1>. QED BY <1>2, <1>3, <1>4

-----------------------------------------------------------------------------
(* Kinds of steps                                                           *)

TypeInv ==
    /\ Sound(Now) /\ plugged \in SUBSET Pads
    /\ hci \in HciRec /\ dongle \in DongleRec /\ HostShape

\* No connection is opened, none of the dongle is closed, no reset goes on.
ModuleCalm ==
    /\ Sound(Now') /\ hci' \in HciRec
    /\ hci'.last = hci.last /\ hci'.table = hci.table
    /\ \A w \in Wiimotes :
          Connected(Now', w) => Connected(Now, w) /\ wm'[w].handle = wm[w].handle
    /\ Adds(evtQ, evtQ')

Ordinary(e) == e.type \notin {"con_compl", "discon_compl", "reset_compl"}

DongleCalm ==
    /\ dongle' \in DongleRec
    /\ dongle'.link = dongle.link /\ dongle'.reset = dongle.reset
    /\ \/ dongle'.evts = dongle.evts
       \/ \E e \in DongleEvents : Ordinary(e) /\ dongle'.evts = Append(dongle.evts, e)

PadsStay == plugged' \in SUBSET Pads

CalmStep == ModuleCalm /\ HostCalm /\ DongleCalm /\ PadsStay

\* The host or the peer closes a connection of the dongle,
Closing(h) ==
    /\ ModuleCalm /\ HostCalm /\ PadsStay
    /\ h \in Phys /\ dongle.link[h] # Nobody /\ Links(h, Nobody, DisconCompl(h))

\* the host opens one,
Opening(h, p) ==
    /\ ModuleCalm /\ HostCalm /\ PadsStay
    /\ ~host.resetting
    /\ h \in FreePhys /\ p \in Reals /\ Links(h, p, ConCompl(p, h))

\* or one with a fake Wiimote.
Accepting(p) ==
    /\ Accepts(p) /\ HostCalm /\ PadsStay
    /\ ~host.resetting /\ p \in Wiimotes /\ UNCHANGED dongle

\* A reset is asked for,
Forgetting ==
    /\ Sound(Now') /\ hci' = HciReset /\ evtQ' = evtQ
    /\ \A w \in Wiimotes : ~wm'[w].active
    /\ ~host.resetting /\ PadsStay
    /\ HostShape' /\ host'.resetting /\ host'.con = NoCon
    /\ dongle' = [dongle EXCEPT !.reset = TRUE]

\* and performed.
Performing == DongleReset

\* The host reads an event; or the tracker sees one of the dongle.
Reading ==
    /\ Sound(Now') /\ UNCHANGED <<wm, slots, hci, dongle, plugged>>
    /\ evtQ # <<>> /\ evtQ' = Tail(evtQ)
    /\ LET e == Head(evtQ) IN
          \/ Learns(e)
          \/ Restarts(e)
          \/ HostCalm /\ e.type # "reset_compl" /\ (e.type = "con_compl" => host.resetting)

Tracking(e) ==
    /\ dongle.evts # <<>> /\ e = Head(dongle.evts) /\ e \in DongleEvents
    /\ dongle' \in DongleRec /\ dongle'.evts = Tail(dongle.evts)
    /\ dongle'.link = dongle.link /\ dongle'.reset = dongle.reset
    /\ UNCHANGED <<host, plugged>>
    /\ Maps(e) \/ Unmaps(e) \/ Passes(e) \/ Finishes(e)

AStep ==
    \/ CalmStep
    \/ \E h \in Phys : Closing(h)
    \/ \E h \in Phys, p \in Reals : Opening(h, p)
    \/ \E p \in Wiimotes : Accepting(p)
    \/ Forgetting \/ Performing \/ Reading
    \/ \E e \in DongleEvents : Tracking(e)

LEMMA ShedCalm ==
    ASSUME TypeInv, Shedding
    PROVE  ModuleCalm
<1>1. hci' = hci
  BY DEF Shedding, Sheds, Now
<1>2. Adds(evtQ, evtQ')
  BY DEF Shedding, Sheds, Now
<1>3. \A w \in Wiimotes :
         Connected(Now', w) => Connected(Now, w) /\ Now'.wm[w].handle = Now.wm[w].handle
  BY DEF Shedding, Sheds
<1>4. Now'.wm = wm' /\ Now.wm = wm
  BY DEF Now
<1>. QED BY <1>1, <1>2, <1>3, <1>4 DEF ModuleCalm, Shedding, TypeInv

LEMMA ModuleStays ==
    ASSUME TypeInv, UNCHANGED module
    PROVE  ModuleCalm
BY IdleSheds, ShedCalm DEF TypeInv

LEMMA DongleStays ==
    ASSUME TypeInv
    PROVE  /\ UNCHANGED dongle => DongleCalm
           /\ \A e \in DongleEvents : Ordinary(e) /\ Reports(e) => DongleCalm
<1>1. UNCHANGED dongle => DongleCalm
  BY DEF TypeInv, DongleCalm
<1>2. ASSUME NEW e \in DongleEvents, Ordinary(e), Reports(e) PROVE DongleCalm
  <2>1. dongle' \in DongleRec
    BY <1>2, ReportsType DEF TypeInv
  <2>. QED BY <1>2, <2>1 DEF Reports, DongleCalm
<1>. QED BY <1>1, <1>2

LEMMA OrdinaryEvents ==
    /\ Reply \in DongleEvents /\ Ordinary(Reply)
    /\ \A r \in Reals : ConReq(r) \in DongleEvents /\ Ordinary(ConReq(r))
    /\ \A h \in Phys : OnHandle(h) \in DongleEvents /\ Ordinary(OnHandle(h))
    /\ \A h \in Phys : DisconCompl(h) \in DongleEvents
    /\ \A h \in Phys, r \in Reals : ConCompl(r, h) \in DongleEvents
<1>1. /\ Ordinary(Reply) /\ \A r \in Reals : Ordinary(ConReq(r))
      /\ \A h \in Phys : Ordinary(OnHandle(h))
  BY DEF Ordinary, Reply, ConReq, OnHandle
<1>2. Reply \in DongleEvents /\ \A r \in Reals : ConReq(r) \in DongleEvents
  BY DEF DongleEvents
<1>3. \A h \in Phys :
         /\ OnHandle(h) \in DongleEvents /\ DisconCompl(h) \in DongleEvents
         /\ \A r \in Reals : ConCompl(r, h) \in DongleEvents
  BY DEF DongleEvents
<1>. QED BY <1>1, <1>2, <1>3

LEMMA TickKind ==
    ASSUME TypeInv, Tick
    PROVE  CalmStep
<1>1. PICK e1 \in EgcEvents(plugged) :
         \E e2 \in EgcEvents(PluggedAfter(plugged, e1)) : TickWith(e1, e2)
  BY DEF Tick
<1>2. PICK e2 \in EgcEvents(PluggedAfter(plugged, e1)) : TickWith(e1, e2)
  BY <1>1
<1>3. Shedding /\ PadsStay
  BY <1>2, TickSheds DEF TypeInv, PadsStay
<1>4. UNCHANGED <<host, dongle>>
  BY <1>2 DEF TickWith
<1>. QED BY <1>3, <1>4, ShedCalm, HostEffects, DongleStays DEF CalmStep, TypeInv

LEMMA ScanKind ==
    ASSUME TypeInv, NEW on \in BOOLEAN, HostScan(on)
    PROVE  CalmStep
<1> DEFINE h == SetScan(hci, on)
           t == [Now EXCEPT !.hci = h]
<1>1. Becomes(t) /\ UNCHANGED <<plugged, host, dongle>>
  BY NowFields DEF HostScan
<1>2. h \in HciRec /\ h.last = hci.last /\ h.table = hci.table
  BY TrackedTypes DEF TypeInv
<1> HIDE DEF h
<1>3. Sound(t) /\ t = Fields(wm, slots, h, evtQ, overflow, hung)
  BY NowHci DEF TypeInv
<1> HIDE DEF t
<1>4. Now' = t
  BY <1>1, <1>3, Next1 DEF Sound
<1>5. wm' = wm /\ hci' = h /\ evtQ' = evtQ
  BY <1>1, <1>3 DEF Becomes, Fields
<1>6. Adds(evtQ, evtQ)
  BY NowKeeps, NowFields DEF Sheds, TypeInv
<1>7. Now'.wm = wm' /\ Now.wm = wm
  BY DEF Now
<1>8. ModuleCalm
  BY <1>2, <1>3, <1>4, <1>5, <1>6, <1>7 DEF ModuleCalm, Connected
<1>. QED BY <1>1, <1>8, HostEffects, DongleStays DEF CalmStep, TypeInv, PadsStay

LEMMA AcceptKind ==
    ASSUME TypeInv, NEW p \in Peers, NEW master \in BOOLEAN, HostAccept(p, master)
    PROVE  \/ CalmStep
           \/ p \in Wiimotes /\ Accepting(p)
           \/ \E h \in Phys : p \in Reals /\ Opening(h, p)
<1>1. HostCalm
  BY HostEffects DEF HostAccept, TypeInv
<1>2. PadsStay /\ ~host.resetting
  BY DEF HostAccept, PadsStay, TypeInv, HostReady
<1>3. CASE p \in Wiimotes /\ Becomes(AcceptCon(Now, p, master)) /\ UNCHANGED dongle
  <2>1. Shedding \/ Accepts(p)
    BY <1>3, AcceptResult, HaltStops DEF TypeInv
  <2>. QED BY <1>1, <1>2, <1>3, <2>1, ShedCalm, DongleStays DEF CalmStep, Accepting
<1>4. ASSUME p \in Reals, UNCHANGED module, NEW h \in FreePhys,
             dongle' = [dongle EXCEPT !.link[h] = p, !.evts = Append(@, ConCompl(p, h))]
      PROVE  Opening(h, p) /\ h \in Phys
  <2>1. h \in Phys
    BY DEF FreePhys
  <2>2. Links(h, p, ConCompl(p, h))
    BY <1>4, <2>1, LinksExcept, OrdinaryEvents DEF TypeInv
  <2>. QED BY <1>1, <1>2, <1>4, <2>1, <2>2, ModuleStays DEF Opening
<1>. QED BY <1>3, <1>4 DEF HostAccept

LEMMA HostDisconnectKind ==
    ASSUME TypeInv, NEW v \in VirtHandles, HostDisconnect(v)
    PROVE  CalmStep \/ \E h \in Phys : Closing(h)
<1>1. Shedding
  BY HostDisconnectSheds DEF TypeInv
<1>2. HostCalm
  BY HostEffects DEF HostDisconnect, TypeInv
<1>3. PadsStay
  BY DEF HostDisconnect, PadsStay, TypeInv
<1>4. CASE UNCHANGED dongle
  BY <1>1, <1>2, <1>3, <1>4, ShedCalm, DongleStays DEF CalmStep
<1>5. CASE ~UNCHANGED dongle
  <2> DEFINE h == GetPhys(hci, v)
  <2>1. /\ WithVirt(hci, v) # {} /\ dongle.link[h] # Nobody
        /\ dongle' = [dongle EXCEPT !.link[h] = Nobody, !.evts = Append(@, DisconCompl(h))]
    BY <1>5 DEF HostDisconnect
  <2>2. h \in Phys
    <3> DEFINE i == Min(WithVirt(hci, v))
    <3>1. i \in WithVirt(hci, v)
      BY <2>1, EntriesNat DEF WithVirt
    <3>2. hci.table[i] \in EntryRec /\ hci.table[i].valid
      BY <3>1 DEF WithVirt, HciRec, EntryRec, TypeInv
    <3>3. hci.table[i].phys \in Phys
      BY <3>2 DEF EntryRec
    <3>. QED BY <3>3 DEF GetPhys
  <2> HIDE DEF h
  <2>3. Links(h, Nobody, DisconCompl(h))
    BY <2>1, <2>2, LinksExcept, OrdinaryEvents DEF TypeInv
  <2>4. Closing(h)
    BY <1>1, <1>2, <1>3, <2>1, <2>2, <2>3, ShedCalm DEF Closing
  <2>. QED BY <2>2, <2>4
<1>. QED BY <1>4, <1>5

LEMMA HostStepKind ==
    ASSUME TypeInv, HostStep
    PROVE  AStep
<1>1. ASSUME NEW on \in BOOLEAN, HostScan(on) PROVE AStep
  BY <1>1, ScanKind DEF AStep
<1>2. ASSUME NEW p \in Peers, NEW master \in BOOLEAN, HostAccept(p, master) PROVE AStep
  BY <1>2, AcceptKind DEF AStep
<1>3. ASSUME NEW p \in Peers, HostReject(p) PROVE AStep
  <2>1. Shedding
    BY <1>3, RejectSheds DEF TypeInv
  <2>2. HostCalm /\ UNCHANGED <<plugged, dongle>>
    BY <1>3, HostEffects DEF HostReject, TypeInv
  <2>. QED BY <2>1, <2>2, ShedCalm, DongleStays DEF AStep, CalmStep, PadsStay, TypeInv
<1>4. ASSUME NEW v \in VirtHandles, HostDisconnect(v) PROVE AStep
  BY <1>4, HostDisconnectKind DEF AStep
<1>5. ASSUME NEW v \in VirtHandles, NEW n \in CmdReplies, HostCommand(v, n) PROVE AStep
  <2>1. Shedding
    BY <1>5, HostCommandSheds DEF TypeInv
  <2>2. HostCalm /\ UNCHANGED <<plugged, dongle>>
    BY <1>5, HostEffects DEF HostCommand, TypeInv
  <2>. QED BY <2>1, <2>2, ShedCalm, DongleStays DEF AStep, CalmStep, PadsStay, TypeInv
<1>6. ASSUME NEW p \in Peers, HostRemoteName(p) PROVE AStep
  <2>1. Shedding
    BY <1>6, HostRemoteNameSheds DEF TypeInv
  <2>2. HostCalm /\ UNCHANGED <<plugged, dongle>>
    BY <1>6, HostEffects DEF HostRemoteName, TypeInv
  <2>. QED BY <2>1, <2>2, ShedCalm, DongleStays DEF AStep, CalmStep, PadsStay, TypeInv
<1>7. ASSUME HostReadLinkKeys PROVE AStep
  <2>1. Plainly(Reply)
    BY DEF Plainly, Reply
  <2>2. Shedding
    BY <1>7, <2>1, InjectSheds DEF HostReadLinkKeys, TypeInv
  <2>3. HostCalm /\ UNCHANGED plugged
    BY <1>7, HostEffects DEF HostReadLinkKeys, TypeInv
  <2>4. Reports(Reply)
    BY <1>7, ReportsExcept, OrdinaryEvents DEF HostReadLinkKeys, TypeInv
  <2>. QED BY <2>2, <2>3, <2>4, ShedCalm, DongleStays, OrdinaryEvents
           DEF AStep, CalmStep, PadsStay, TypeInv
<1>8. ASSUME NEW v \in VirtHandles, NEW refuse \in BOOLEAN, HostAcl(v, refuse) PROVE AStep
  <2>1. Shedding
    BY <1>8, HostAclSheds DEF TypeInv
  <2>2. HostCalm /\ UNCHANGED <<plugged, dongle>>
    BY <1>8, HostEffects DEF HostAcl, TypeInv
  <2>. QED BY <2>1, <2>2, ShedCalm, DongleStays DEF AStep, CalmStep, PadsStay, TypeInv
<1>9. ASSUME HostReset PROVE AStep
  <2>1. /\ Sound(Now') /\ hci' = HciReset /\ evtQ' = evtQ
        /\ \A w \in Wiimotes : ~wm'[w].active
    BY <1>9, ResetResult DEF HostReset, TypeInv
  <2>2. /\ host' = Knows({}, {}, NoCon, TRUE)
        /\ dongle' = [dongle EXCEPT !.reset = TRUE] /\ UNCHANGED plugged
        /\ ~host.resetting
    BY <1>9 DEF HostReset, Knows, HostReady
  <2>3. ConShape(NoCon)
    BY DEF ConShape, NoCon
  <2>4. HostShape' /\ host'.con = NoCon /\ host'.resetting
    BY <2>2, <2>3, KnowsShape
  <2>. QED BY <2>1, <2>2, <2>4 DEF AStep, Forgetting, PadsStay, TypeInv
<1>. QED BY <1>1, <1>2, <1>3, <1>4, <1>5, <1>6, <1>7, <1>8, <1>9 DEF HostStep

LEMMA DongleStepKind ==
    ASSUME TypeInv, DongleStep
    PROVE  AStep
<1>1. ASSUME NEW r \in Reals, RealRequest(r) PROVE AStep
  <2>1. Reports(ConReq(r)) /\ UNCHANGED <<module, plugged, host>>
    BY <1>1, ReportsExcept, OrdinaryEvents DEF RealRequest, TypeInv
  <2>. QED BY <2>1, ModuleStays, HostEffects, DongleStays, OrdinaryEvents
           DEF AStep, CalmStep, PadsStay, TypeInv
<1>2. ASSUME NEW h \in Phys, RealLeaves(h) PROVE AStep
  <2>1. Links(h, Nobody, DisconCompl(h)) /\ UNCHANGED <<module, plugged, host>>
    BY <1>2, LinksExcept, OrdinaryEvents DEF RealLeaves, TypeInv
  <2>2. Closing(h)
    BY <1>2, <2>1, ModuleStays, HostEffects DEF Closing, PadsStay, TypeInv, RealLeaves
  <2>. QED BY <2>2 DEF AStep
<1>3. ASSUME NEW h \in Phys, RealSends(h) PROVE AStep
  <2>1. UNCHANGED <<module, plugged, host>>
    BY <1>3 DEF RealSends
  <2>2. DongleCalm
    <3>1. CASE dongle' = [dongle EXCEPT !.acl = Append(@, h)]
      BY <3>1, DongleOther DEF DongleCalm, TypeInv
    <3>2. CASE dongle' = [dongle EXCEPT !.evts = Append(@, OnHandle(h))]
      BY <3>2, ReportsExcept, DongleStays, OrdinaryEvents DEF TypeInv
    <3>. QED BY <1>3, <3>1, <3>2 DEF RealSends
  <2>. QED BY <2>1, <2>2, ModuleStays, HostEffects DEF AStep, CalmStep, PadsStay, TypeInv
<1>4. ASSUME OH1Event PROVE AStep
  <2> DEFINE e == Head(dongle.evts)
  <2>1. /\ dongle.evts # <<>> /\ e \in DongleEvents
        /\ dongle' \in DongleRec /\ dongle'.evts = Tail(dongle.evts)
        /\ dongle'.link = dongle.link /\ dongle'.reset = dongle.reset
        /\ UNCHANGED <<host, plugged>>
    BY <1>4, DongleOther DEF OH1Event, TypeInv
  <2>2. Becomes(TrackEvent(e))
    BY <1>4 DEF OH1Event
  <2>3. Maps(e) \/ Unmaps(e) \/ Passes(e) \/ Finishes(e)
    BY <2>1, <2>2, TrackResult DEF TypeInv
  <2>4. Tracking(e)
    BY <2>1, <2>3 DEF Tracking
  <2>. QED BY <2>1, <2>4 DEF AStep
<1>5. ASSUME OH1Acl PROVE AStep
  <2>1. Shedding
    <3>1. Becomes(Halt("acl_in")) \/ Becomes(Now)
      BY <1>5 DEF OH1Acl
    <3>. QED BY <3>1, HaltStops, ShedStep, NowKeeps DEF TypeInv
  <2>2. DongleCalm /\ UNCHANGED <<plugged, host>>
    BY <1>5, DongleOther DEF OH1Acl, DongleCalm, TypeInv
  <2>. QED BY <2>1, <2>2, ShedCalm, HostEffects DEF AStep, CalmStep, PadsStay, TypeInv
<1>6. ASSUME DongleReset PROVE AStep
  BY <1>6 DEF AStep, Performing
<1>. QED BY <1>1, <1>2, <1>3, <1>4, <1>5, <1>6 DEF DongleStep

LEMMA StepKind ==
    ASSUME TypeInv, Next
    PROVE  AStep
<1>1. CASE HostRead
  <2>1. Sound(Now')
    BY <1>1, ReadSound DEF TypeInv
  <2>2. /\ UNCHANGED <<wm, slots, hci, dongle, plugged>> /\ evtQ # <<>>
        /\ evtQ' = Tail(evtQ)
    BY <1>1 DEF HostRead
  <2>3. Reading
    BY <1>1, <2>1, <2>2, ReadEffects DEF Reading, TypeInv
  <2>. QED BY <2>3 DEF AStep
<1>2. CASE Tick
  BY <1>2, TickKind DEF AStep
<1>. QED BY <1>1, <1>2, HostStepKind, DongleStepKind DEF Next

-----------------------------------------------------------------------------
(* Types, and the link between a gamepad and its Wiimote                    *)

LEMMA TypeInit ==
    ASSUME Init
    PROVE  TypeInv
<1>1. Sound(Now)
  <2>1. Now = Fields(wm, slots, hci, evtQ, overflow, hung)
    BY NowFields
  <2>2. wm \in [Wiimotes -> WiimoteRec]
    <3>1. 0 \in VirtHandles
      BY HciAssumption DEF VirtHandles
    <3>. QED BY <3>1 DEF Init, IdleWiimote, WiimoteRec
  <2>3. slots \in [Slots -> SlotRec] /\ \A sl \in Slots : slots[sl].device = NoPad
    BY DEF Init, EmptySlots, SlotRec
  <2>4. Queue(evtQ)
    BY EmptySeq DEF Init, Queue
  <2>. QED BY <2>1, <2>2, <2>3, <2>4, NowFields DEF Sound, State, Linked
<1>2. plugged \in SUBSET Pads /\ hci \in HciRec
  BY TrackedTypes DEF Init
<1>3. dongle \in DongleRec
  BY EmptySeq DEF Init, DongleRec
<1>4. HostShape
  BY DEF Init, HostShape, ConShape, Knows, NoCon
<1>. QED BY <1>1, <1>2, <1>3, <1>4 DEF TypeInv

LEMMA TypeStep ==
    ASSUME TypeInv, AStep
    PROVE  TypeInv'
<1>1. CASE CalmStep
  BY <1>1 DEF CalmStep, ModuleCalm, DongleCalm, HostCalm, PadsStay, TypeInv
<1>2. ASSUME NEW h \in Phys, Closing(h) PROVE TypeInv'
  <2>1. dongle' \in DongleRec
    BY <1>2, LinksType DEF Closing, TypeInv
  <2>. QED BY <1>2, <2>1 DEF Closing, ModuleCalm, HostCalm, PadsStay, TypeInv
<1>3. ASSUME NEW h \in Phys, NEW p \in Reals, Opening(h, p) PROVE TypeInv'
  <2>1. dongle' \in DongleRec
    BY <1>3, LinksType DEF Opening, TypeInv
  <2>. QED BY <1>3, <2>1 DEF Opening, ModuleCalm, HostCalm, PadsStay, TypeInv
<1>4. ASSUME NEW p \in Wiimotes, Accepting(p) PROVE TypeInv'
  BY <1>4, AllocType DEF Accepting, Accepts, HostCalm, PadsStay, TypeInv
<1>5. CASE Forgetting
  BY <1>5, DongleOther, TrackedTypes DEF Forgetting, PadsStay, TypeInv
<1>6. CASE Performing
  <2>1. UNCHANGED module /\ UNCHANGED <<plugged, host>>
    BY <1>6 DEF Performing, DongleReset
  <2>2. dongle' \in DongleRec
    BY <1>6, DongleOther DEF Performing, DongleReset, TypeInv
  <2>3. ModuleCalm /\ HostCalm
    BY <2>1, ModuleStays, HostEffects DEF TypeInv
  <2>. QED BY <2>1, <2>2, <2>3 DEF ModuleCalm, HostCalm, TypeInv
<1>7. CASE Reading
  <2>1. HostShape'
    BY <1>7 DEF Reading, Learns, Restarts, HostCalm
  <2>. QED BY <1>7, <2>1 DEF Reading, TypeInv
<1>8. ASSUME NEW e \in DongleEvents, Tracking(e) PROVE TypeInv'
  <2>1. dongle' \in DongleRec /\ plugged' \in SUBSET Pads /\ HostShape'
    BY <1>8, HostEffects DEF Tracking, HostCalm, TypeInv
  <2>2. CASE Maps(e)
    <3>1. e.handle \in Phys
      BY <2>2, EventKinds DEF Maps
    <3>2. VirtAlloc(hci) \in HciRec /\ Free(VirtAlloc(hci)) # {} /\ hci.last \in VirtHandles
      BY <2>2, AllocType DEF Maps, Free, TypeInv, HciRec
    <3>3. hci' \in HciRec
      BY <2>2, <3>1, <3>2, MapType DEF Maps, Tracks
    <3>. QED BY <2>1, <2>2, <3>3 DEF Maps, Tracks, TypeInv
  <2>3. CASE Unmaps(e)
    <3>1. WithVirt(hci, GetVirt(hci, e.handle)) # {}
      BY <2>3, VirtOf DEF Unmaps, TypeInv
    <3>2. hci' \in HciRec
      BY <2>3, <3>1, UnmapType DEF Unmaps, Tracks, TypeInv
    <3>. QED BY <2>1, <2>3, <3>2 DEF Unmaps, Tracks, TypeInv
  <2>4. CASE Passes(e)
    BY <2>1, <2>4, ShedCalm DEF Passes, ModuleCalm, TypeInv
  <2>5. CASE Finishes(e)
    BY <2>1, <2>5 DEF Finishes, Tracks, TypeInv
  <2>. QED BY <1>8, <2>2, <2>3, <2>4, <2>5 DEF Tracking
<1>. QED BY <1>1, <1>2, <1>3, <1>4, <1>5, <1>6, <1>7, <1>8 DEF AStep

LEMMA TypeStutter ==
    ASSUME TypeInv, UNCHANGED vars
    PROVE  TypeInv'
<1>1. Now' = Now
  BY DEF vars, Now
<1>. QED BY <1>1 DEF TypeInv, vars, HostShape

LEMMA TypeCorrect == Spec => []TypeInv
<1>1. Init => TypeInv
  BY TypeInit
<1>2. TypeInv /\ [Next]_vars => TypeInv'
  BY StepKind, TypeStep, TypeStutter
<1>. QED BY <1>1, <1>2, PTL DEF Spec

\* A gamepad and the Wiimote that input_device.c assigned to it name each other,
\* whoever was plugged in, unplugged, rejected, disconnected or reset in between
\* (input_device_handle_removed, fake_wiimote_disconnect and the assignment of
\* the periodic timer), for any number of gamepads and Wiimotes.
THEOREM LinkKept == Spec => []AssignedLink
<1>1. TypeInv => AssignedLink
  BY NowFields DEF TypeInv, Sound, Linked, AssignedLink
<1>. QED BY <1>1, TypeCorrect, PTL

-----------------------------------------------------------------------------
(* One owner                                                                *)

Joined(w) == wm[w].active /\ wm[w].baseband = "complete"
Valid(i) == hci.table[i].valid
Virt(i) == hci.table[i].virt

\* Handles in use are different, and were all given out by the counter.
Handles ==
    /\ \A w \in Wiimotes : Joined(w) => wm[w].handle < hci.last
    /\ \A w, x \in Wiimotes :
          Joined(w) /\ Joined(x) /\ wm[w].handle = wm[x].handle => w = x
    /\ \A i \in Entries : Valid(i) => Virt(i) < hci.last
    /\ \A i, j \in Entries : Valid(i) /\ Valid(j) /\ Virt(i) = Virt(j) => i = j
    /\ \A w \in Wiimotes, i \in Entries :
          Joined(w) /\ Valid(i) => wm[w].handle # Virt(i)

LEMMA JoinedConnected ==
    \A w : /\ Connected(Now, w) <=> Joined(w)
           /\ Connected(Now', w) <=> Joined(w)'
BY DEF Connected, Joined, Now

LEMMA LastNat ==
    ASSUME TypeInv
    PROVE  /\ hci.last \in Nat
           /\ \A w \in Wiimotes : wm[w].handle \in Nat /\ wm[w].handle \in VirtHandles
           /\ \A i \in Entries : Valid(i) => /\ Virt(i) \in Nat /\ Virt(i) \in VirtHandles
                                             /\ hci.table[i].phys \in Phys
<1>1. hci.last \in VirtHandles /\ hci.table \in [Entries -> EntryRec]
  BY DEF TypeInv, HciRec, EntryRec
<1>2. wm \in [Wiimotes -> WiimoteRec]
  BY NowFields DEF TypeInv, Sound, State
<1>3. \A w \in Wiimotes : wm[w].handle \in VirtHandles
  BY <1>2 DEF WiimoteRec
<1>4. ASSUME NEW i \in Entries, Valid(i)
      PROVE  Virt(i) \in VirtHandles /\ hci.table[i].phys \in Phys
  <2> DEFINE x == hci.table[i]
  <2>1. x \in EntryRec /\ x.valid
    BY <1>1, <1>4 DEF Valid
  <2> HIDE DEF x
  <2>2. x.virt \in VirtHandles /\ x.phys \in Phys
    BY <2>1 DEF EntryRec
  <2>. QED BY <2>2 DEF Virt, x
<1>5. VirtHandles \in SUBSET Nat
  BY HciAssumption DEF VirtHandles
<1>. QED BY <1>1, <1>3, <1>4, <1>5

LEMMA NextHandle ==
    ASSUME TypeInv, HandlesLeft
    PROVE  VirtAlloc(hci).last = hci.last + 1
<1>1. hci.last \in Nat /\ NumHandles \in Nat \ {0} /\ hci.last + 1 < NumHandles
  BY LastNat, HciAssumption DEF HandlesLeft
<1>2. (hci.last + 1) % NumHandles = hci.last + 1
  BY <1>1
<1>. QED BY <1>2, AllocType DEF TypeInv

LEMMA MapsEffect ==
    ASSUME TypeInv, HandlesLeft, NEW e \in DongleEvents, Maps(e)
    PROVE  /\ hci'.last = hci.last + 1 /\ wm' = wm /\ hung' = hung
           /\ evtQ' = evtQ \/ evtQ' = Append(evtQ, ConCompl(e.peer, hci.last))
           /\ e = ConCompl(e.peer, e.handle) /\ e.handle \in Phys /\ e.peer \in Reals
           /\ \E i \in Entries :
                 ~Valid(i) /\ Rewrites(hci, hci', i, Mapped(e.handle, hci.last))
<1> DEFINE h == VirtAlloc(hci)
<1>1. e = ConCompl(e.peer, e.handle) /\ e.handle \in Phys /\ e.peer \in Reals
  BY EventKinds DEF Maps
<1>2. h \in HciRec /\ h.table = hci.table /\ h.last = hci.last + 1
  BY AllocType, NextHandle DEF TypeInv
<1>3. Free(h) # {} /\ hci.last \in VirtHandles
  BY <1>2 DEF Maps, Free, TypeInv, HciRec
<1> HIDE DEF h
<1>4. hci' = MapHandle(h, e.handle, hci.last)
  BY DEF Maps, Tracks, h
<1>5. hci'.last = hci.last + 1
  BY <1>1, <1>2, <1>3, <1>4, MapType
<1>6. \E i \in Entries : ~h.table[i].valid /\ Rewrites(h, hci', i, Mapped(e.handle, hci.last))
  BY <1>1, <1>2, <1>3, <1>4, MapType
<1>. QED BY <1>1, <1>2, <1>5, <1>6 DEF Maps, Tracks, Valid, Rewrites

LEMMA UnmapsEffect ==
    ASSUME TypeInv, Handles, NEW e \in DongleEvents, Unmaps(e)
    PROVE  /\ hci'.last = hci.last /\ wm' = wm /\ hung' = hung
           /\ e = DisconCompl(e.handle) /\ e.handle \in Phys
           /\ \E v : evtQ' = evtQ \/ evtQ' = Append(evtQ, DisconCompl(v))
           /\ \E i \in WithPhys(hci, e.handle) : Rewrites(hci, hci', i, Unmapped)
<1> DEFINE v == GetVirt(hci, e.handle)
<1>1. PICK j \in WithPhys(hci, e.handle) :
         v = hci.table[j].virt /\ v \in VirtHandles /\ j \in WithVirt(hci, v)
  BY VirtOf DEF Unmaps, TypeInv
<1>2. hci' = UnmapVirt(hci, v)
  BY DEF Unmaps, Tracks
<1> HIDE DEF v
<1>3. PICK i \in WithVirt(hci, v) : Rewrites(hci, hci', i, Unmapped)
  BY <1>1, <1>2, UnmapType DEF TypeInv
<1>4. i = j
  BY <1>1, <1>3 DEF Handles, WithVirt, Valid, Virt
<1>5. hci'.last = hci.last
  BY <1>1, <1>2, UnmapType DEF TypeInv
<1>6. e = DisconCompl(e.handle) /\ e.handle \in Phys
  BY EventKinds DEF Unmaps
<1>. QED BY <1>1, <1>3, <1>4, <1>5, <1>6 DEF Unmaps, Tracks

LEMMA CalmHandles ==
    ASSUME Handles, ModuleCalm
    PROVE  Handles'
<1>1. \A w \in Wiimotes : Joined(w)' => Joined(w) /\ wm'[w].handle = wm[w].handle
  BY JoinedConnected DEF ModuleCalm
<1>2. \A i \in Entries : (Valid(i)' <=> Valid(i)) /\ Virt(i)' = Virt(i)
  BY DEF ModuleCalm, Valid, Virt
<1>3. hci'.last = hci.last
  BY DEF ModuleCalm
<1>. QED BY <1>1, <1>2, <1>3 DEF Handles

\* No handle in use is the next one, which a fake Wiimote or an entry gets.
LEMMA NewHandles ==
    ASSUME TypeInv, Handles, hci'.last = hci.last + 1,
           NEW U, NEW E,
           \A w \in Wiimotes : Joined(w)' /\ w \notin U =>
                                  Joined(w) /\ wm'[w].handle = wm[w].handle,
           \A w \in Wiimotes : w \in U => wm'[w].handle = hci.last,
           \A w, x \in U : w = x,
           \A i \in Entries : Valid(i)' /\ i \notin E => Valid(i) /\ Virt(i)' = Virt(i),
           \A i \in Entries : i \in E => Virt(i)' = hci.last,
           \A i, j \in E : i = j,
           U = {} \/ E = {}
    PROVE  Handles'
<1>1. hci.last \in Nat /\ \A w \in Wiimotes : wm[w].handle \in Nat
  BY LastNat
<1>2. \A i \in Entries : Valid(i) => Virt(i) \in Nat
  BY LastNat
<1>3. ASSUME NEW w \in Wiimotes, Joined(w)'
      PROVE  \/ w \in U /\ wm'[w].handle = hci.last
             \/ w \notin U /\ Joined(w) /\ wm'[w].handle = wm[w].handle
                           /\ wm[w].handle < hci.last
  BY <1>3 DEF Handles
<1>4. ASSUME NEW i \in Entries, Valid(i)'
      PROVE  \/ i \in E /\ Virt(i)' = hci.last
             \/ i \notin E /\ Valid(i) /\ Virt(i)' = Virt(i) /\ Virt(i) < hci.last
  BY <1>4 DEF Handles
<1>5. \A w \in Wiimotes : Joined(w)' => wm'[w].handle < hci'.last
  BY <1>1, <1>3
<1>6. \A i \in Entries : Valid(i)' => Virt(i)' < hci'.last
  BY <1>1, <1>2, <1>4
<1>7. ASSUME NEW w \in Wiimotes, NEW x \in Wiimotes, Joined(w)', Joined(x)',
             wm'[w].handle = wm'[x].handle
      PROVE  w = x
  BY <1>1, <1>3, <1>7 DEF Handles
<1>8. ASSUME NEW i \in Entries, NEW j \in Entries, Valid(i)', Valid(j)',
             Virt(i)' = Virt(j)'
      PROVE  i = j
  BY <1>1, <1>2, <1>4, <1>8 DEF Handles
<1>9. ASSUME NEW w \in Wiimotes, NEW i \in Entries, Joined(w)', Valid(i)'
      PROVE  wm'[w].handle # Virt(i)'
  BY <1>1, <1>2, <1>3, <1>4, <1>9 DEF Handles
<1>. QED BY <1>5, <1>6, <1>7, <1>8, <1>9 DEF Handles

LEMMA HandlesStep ==
    ASSUME TypeInv, HandlesLeft, Handles, AStep
    PROVE  Handles'
<1>1. CASE CalmStep
  BY <1>1, CalmHandles DEF CalmStep
<1>2. ASSUME NEW h \in Phys, Closing(h) PROVE Handles'
  BY <1>2, CalmHandles DEF Closing
<1>3. ASSUME NEW h \in Phys, NEW p \in Reals, Opening(h, p) PROVE Handles'
  BY <1>3, CalmHandles DEF Opening
<1>4. ASSUME NEW p \in Wiimotes, Accepting(p) PROVE Handles'
  <2>1. /\ hci'.last = hci.last + 1 /\ hci'.table = hci.table
        /\ wm'[p].handle = hci.last
        /\ \A w \in Wiimotes : w # p => wm'[w] = wm[w]
    BY <1>4, NextHandle, AllocType DEF Accepting, Accepts, TypeInv
  <2>2. \A w \in Wiimotes : Joined(w)' /\ w \notin {p} =>
            Joined(w) /\ wm'[w].handle = wm[w].handle
    BY <2>1 DEF Joined
  <2>3. \A i \in Entries : Valid(i)' /\ i \notin {} => Valid(i) /\ Virt(i)' = Virt(i)
    BY <2>1 DEF Valid, Virt
  <2>4. \A w \in Wiimotes : w \in {p} => wm'[w].handle = hci.last
    BY <2>1
  <2> DEFINE U == {p}
             E == {}
  <2>5. /\ \A w, x \in U : w = x
        /\ \A i, j \in E : i = j
        /\ \A i \in Entries : i \in E => Virt(i)' = hci.last
        /\ U = {} \/ E = {}
    OBVIOUS
  <2>6. /\ \A w \in Wiimotes : Joined(w)' /\ w \notin U =>
                Joined(w) /\ wm'[w].handle = wm[w].handle
        /\ \A i \in Entries : Valid(i)' /\ i \notin E => Valid(i) /\ Virt(i)' = Virt(i)
        /\ \A w \in Wiimotes : w \in U => wm'[w].handle = hci.last
    BY <2>2, <2>3, <2>4
  <2> HIDE DEF U, E
  <2>. QED BY <2>1, <2>5, <2>6, NewHandles, Zenon
<1>5. CASE Forgetting
  <2>1. \A w \in Wiimotes : ~Joined(w)'
    BY <1>5 DEF Forgetting, Joined
  <2>2. \A i \in Entries : ~Valid(i)'
    BY <1>5 DEF Forgetting, Valid, HciReset, Unmapped
  <2>. QED BY <2>1, <2>2 DEF Handles
<1>6. CASE Performing
  <2>1. UNCHANGED module
    BY <1>6 DEF Performing, DongleReset
  <2>. QED BY <2>1, ModuleStays, CalmHandles
<1>7. CASE Reading
  BY <1>7 DEF Reading, Handles, Joined, Valid, Virt
<1>8. ASSUME NEW e \in DongleEvents, Tracking(e) PROVE Handles'
  <2>1. CASE Maps(e)
    <3>1. hci'.last = hci.last + 1 /\ wm' = wm
      BY <2>1, MapsEffect
    <3>2. PICK i \in Entries :
             ~Valid(i) /\ Rewrites(hci, hci', i, Mapped(e.handle, hci.last))
      BY <2>1, MapsEffect
    <3>3. \A w \in Wiimotes : Joined(w)' /\ w \notin {} =>
              Joined(w) /\ wm'[w].handle = wm[w].handle
      BY <3>1 DEF Joined
    <3>4. \A j \in Entries : Valid(j)' /\ j \notin {i} => Valid(j) /\ Virt(j)' = Virt(j)
      BY <3>2 DEF Rewrites, Valid, Virt
    <3>5. \A j \in Entries : j \in {i} => Virt(j)' = hci.last
      BY <3>2 DEF Rewrites, Virt, Mapped
    <3> DEFINE U == {}
               E == {i}
    <3>6. /\ \A w, x \in U : w = x
          /\ \A a, b \in E : a = b
          /\ \A w \in Wiimotes : w \in U => wm'[w].handle = hci.last
          /\ U = {} \/ E = {}
      OBVIOUS
    <3>7. /\ \A w \in Wiimotes : Joined(w)' /\ w \notin U =>
                  Joined(w) /\ wm'[w].handle = wm[w].handle
          /\ \A j \in Entries : Valid(j)' /\ j \notin E => Valid(j) /\ Virt(j)' = Virt(j)
          /\ \A j \in Entries : j \in E => Virt(j)' = hci.last
      BY <3>3, <3>4, <3>5
    <3> HIDE DEF U, E
    <3>. QED BY <3>1, <3>6, <3>7, NewHandles, Zenon
  <2>2. CASE Unmaps(e)
    <3>1. hci'.last = hci.last /\ wm' = wm
      BY <2>2, UnmapsEffect
    <3>2. PICK i \in Entries : Rewrites(hci, hci', i, Unmapped)
      BY <2>2, UnmapsEffect DEF WithPhys
    <3>3. ~Valid(i)' /\ \A j \in Entries : j # i => hci'.table[j] = hci.table[j]
      BY <3>2 DEF Rewrites, Valid, Unmapped
    <3>4. \A j \in Entries : Valid(j)' => Valid(j) /\ Virt(j)' = Virt(j)
      BY <3>3 DEF Valid, Virt
    <3>. QED BY <3>1, <3>4 DEF Handles, Joined
  <2>3. CASE Passes(e)
    BY <2>3, ShedCalm, CalmHandles DEF Passes
  <2>4. CASE Finishes(e)
    BY <2>4 DEF Finishes, Tracks, Handles, Joined, Valid, Virt
  <2>. QED BY <1>8, <2>1, <2>2, <2>3, <2>4 DEF Tracking
<1>. QED BY <1>1, <1>2, <1>3, <1>4, <1>5, <1>6, <1>7, <1>8 DEF AStep

LEMMA HandlesInit ==
    ASSUME Init
    PROVE  Handles
<1>1. \A w \in Wiimotes : ~Joined(w)
  BY DEF Init, IdleWiimote, Joined
<1>2. \A i \in Entries : ~Valid(i)
  BY DEF Init, HciReset, Unmapped, Valid
<1>. QED BY <1>1, <1>2 DEF Handles

LEMMA HandlesOneOwner ==
    ASSUME Handles
    PROVE  OneOwner
<1> SUFFICES ASSUME NEW v \in VirtHandles
             PROVE  Cardinality(FakesOf(Now, v)) + Cardinality(WithVirt(hci, v)) <= 1
  BY DEF OneOwner
<1> DEFINE A == FakesOf(Now, v)
           B == WithVirt(hci, v)
<1>1. A = {w \in Wiimotes : Joined(w) /\ wm[w].handle = v}
  BY JoinedConnected, NowFields DEF FakesOf
<1>2. B = {i \in Entries : Valid(i) /\ Virt(i) = v}
  BY DEF WithVirt, Valid, Virt
<1> HIDE DEF A, B
<1>3. /\ \A a, b \in A : a = b
      /\ \A a, b \in B : a = b
      /\ A = {} \/ B = {}
  BY <1>1, <1>2 DEF Handles
<1>4. Cardinality(A) \in Nat /\ Cardinality(A) <= 1
  BY <1>3, AtMostOne
<1>5. Cardinality(B) \in Nat /\ Cardinality(B) <= 1
  BY <1>3, AtMostOne
<1>6. Cardinality({}) = 0
  BY FS_EmptySet
<1>7. Cardinality(A) + Cardinality(B) <= 1
  BY <1>3, <1>4, <1>5, <1>6
<1>. QED BY <1>7 DEF A, B

LEMMA HandlesCorrect == Spec /\ []HandlesLeft => []Handles
<1>1. Init => Handles
  BY HandlesInit
<1>2. TypeInv /\ HandlesLeft /\ Handles /\ [Next]_vars => Handles'
  <2>1. ASSUME TypeInv, HandlesLeft, Handles, Next PROVE Handles'
    BY <2>1, StepKind, HandlesStep
  <2>2. ASSUME Handles, UNCHANGED vars PROVE Handles'
    BY <2>2 DEF Handles, Joined, Valid, Virt, vars
  <2>. QED BY <2>1, <2>2
<1>. QED BY <1>1, <1>2, TypeCorrect, PTL DEF Spec

\* No connection handle belongs to two fake Wiimotes, two entries of the table
\* of hci_state.c, or to one of each, as long as hci_con_handle_virt_alloc has
\* not come back to its first handle: fake and real Wiimotes share its counter,
\* which a reset restarts together with everything that was given a handle.
THEOREM NoSharedHandle == Spec /\ []HandlesLeft => []OneOwner
<1>1. Handles => OneOwner
  BY HandlesOneOwner
<1>. QED BY <1>1, HandlesCorrect, PTL

-----------------------------------------------------------------------------
(* Events in a queue                                                        *)

\* Where the ends of resets are, and new connections,
Ends(q) == {i \in 1..Len(q) : q[i].type = "reset_compl"}
Opens(q) == {i \in 1..Len(q) : q[i].type = "con_compl"}

\* new connections with handle h of the dongle, and ends of them.
OpensOf(q, h) == {i \in 1..Len(q) : q[i].type = "con_compl" /\ q[i].handle = h}
ClosesOf(q, h) == {i \in 1..Len(q) : q[i].type = "discon_compl" /\ q[i].handle = h}

LEMMA AddsEvents ==
    ASSUME NEW q, NEW r, Queue(q), Adds(q, r)
    PROVE  /\ Ends(r) = Ends(q) /\ Opens(r) = Opens(q)
           /\ \A i \in Opens(q) : r[i] = q[i]
<1>1. Len(q) \in Nat /\ Len(r) \in Nat /\ Len(q) <= Len(r)
  BY QueueLen DEF Adds
<1>2. \A i \in 1..Len(q) : i \in 1..Len(r) /\ r[i] = q[i]
  BY <1>1 DEF Adds
<1>3. \A i \in 1..Len(r) : r[i].type \in {"con_compl", "reset_compl"} => i \in 1..Len(q)
  BY <1>1 DEF Adds, Plainly
<1>. QED BY <1>2, <1>3 DEF Ends, Opens

LEMMA AddsLastEvents ==
    ASSUME NEW q, NEW r, NEW p, NEW v, Queue(q), AddsLast(q, r, ConCompl(p, v))
    PROVE  /\ Ends(r) = Ends(q)
           /\ \A i \in Opens(r) : (i \in Opens(q) /\ r[i] = q[i]) \/ r[i] = ConCompl(p, v)
<1> DEFINE e == ConCompl(p, v)
<1>1. Len(q) \in Nat /\ Len(r) \in Nat /\ Len(q) < Len(r)
  BY QueueLen DEF AddsLast
<1>2. \A i \in 1..Len(q) : i \in 1..Len(r) /\ r[i] = q[i]
  BY <1>1 DEF AddsLast
<1>3. e.type = "con_compl"
  BY DEF ConCompl
<1> HIDE DEF e
<1>0. Plainly(Reply)
  BY DEF Plainly, Reply
<1>4. \A i \in 1..Len(r) : i \notin 1..Len(q) => Plainly(r[i]) \/ r[i] = e
  BY <1>0, <1>1 DEF AddsLast, e
<1>5. Ends(r) = Ends(q)
  BY <1>2, <1>3, <1>4 DEF Ends, Plainly
<1>6. \A i \in Opens(r) : (i \in Opens(q) /\ r[i] = q[i]) \/ r[i] = e
  BY <1>2, <1>4 DEF Opens, Plainly
<1>. QED BY <1>5, <1>6 DEF e

LEMMA AppendEvents ==
    ASSUME NEW q, NEW e, Queue(q)
    PROVE  /\ Queue(Append(q, e)) /\ Len(q) \in Nat
           /\ Len(q) + 1 \in 1..Len(Append(q, e)) /\ Append(q, e)[Len(q) + 1] = e
           /\ \A i \in 1..Len(q) : i \in 1..Len(Append(q, e)) /\ Append(q, e)[i] = q[i]
           /\ \A i \in 1..Len(Append(q, e)) : i \in 1..Len(q) \/ i = Len(q) + 1
<1> DEFINE r == Append(q, e)
<1>1. /\ Queue(r) /\ Len(r) = Len(q) + 1 /\ Len(q) \in Nat /\ r[Len(q) + 1] = e
      /\ \A i \in 1..Len(q) : r[i] = q[i]
  BY QueueAppend, QueueLen
<1> HIDE DEF r
<1>. QED BY <1>1 DEF r

LEMMA TailEvents ==
    ASSUME NEW q, Queue(q), q # <<>>
    PROVE  /\ Queue(Tail(q)) /\ 1 \in 1..Len(q) /\ Head(q) = q[1]
           /\ \A i \in 1..Len(Tail(q)) : i \in Nat /\ i + 1 \in 1..Len(q) /\ Tail(q)[i] = q[i + 1]
           /\ \A i \in 1..Len(q) : i # 1 =>
                 i - 1 \in 1..Len(Tail(q)) /\ Tail(q)[i - 1] = q[i] /\ i \in Nat
<1> DEFINE r == Tail(q)
<1>1. /\ Queue(r) /\ Len(r) = Len(q) - 1 /\ Len(q) \in Nat \ {0} /\ Head(q) = q[1]
      /\ \A i \in 1..Len(q) - 1 : r[i] = q[i + 1]
  BY QueueTail
<1> HIDE DEF r
<1>2. \A i \in 1..Len(r) : i \in Nat /\ i + 1 \in 1..Len(q) /\ r[i] = q[i + 1]
  BY <1>1
<1>3. ASSUME NEW i \in 1..Len(q), i # 1
      PROVE  i - 1 \in 1..Len(r) /\ r[i - 1] = q[i] /\ i \in Nat
  <2>1. i - 1 \in 1..Len(q) - 1 /\ (i - 1) + 1 = i /\ i \in Nat
    BY <1>1, <1>3
  <2>2. r[i - 1] = q[(i - 1) + 1]
    BY <1>1, <2>1
  <2>. QED BY <1>1, <2>1, <2>2
<1>. QED BY <1>1, <1>2, <1>3 DEF r

\* The ends of resets in a queue with one event more or less.
LEMMA AppendEnds ==
    ASSUME NEW q, NEW e, Queue(q)
    PROVE  /\ e.type # "reset_compl" => Ends(Append(q, e)) = Ends(q)
           /\ e.type = "reset_compl" => Ends(Append(q, e)) = Ends(q) \cup {Len(q) + 1}
<1> DEFINE r == Append(q, e)
           n == Len(q) + 1
<1>1. /\ n \in 1..Len(r) /\ r[n] = e
      /\ \A i \in 1..Len(q) : i \in 1..Len(r) /\ r[i] = q[i]
      /\ \A i \in 1..Len(r) : i \in 1..Len(q) \/ i = n
  BY AppendEvents
<1> HIDE DEF r, n
<1>. QED BY <1>1 DEF Ends, r, n

LEMMA TailEnds ==
    ASSUME NEW q, Queue(q), q # <<>>, \A i, j \in Ends(q) : i = j
    PROVE  /\ Head(q).type = "reset_compl" => Ends(q) # {} /\ Ends(Tail(q)) = {}
           /\ Ends(q) = {} => Ends(Tail(q)) = {}
           /\ \A i, j \in Ends(Tail(q)) : i = j
<1> DEFINE r == Tail(q)
<1>1. /\ 1 \in 1..Len(q) /\ Head(q) = q[1]
      /\ \A i \in 1..Len(r) : i \in Nat /\ i + 1 \in 1..Len(q) /\ r[i] = q[i + 1]
  BY TailEvents
<1> HIDE DEF r
<1>2. \A i \in Ends(r) : i \in 1..Len(r) /\ i \in Nat /\ i + 1 \in Ends(q)
  BY <1>1 DEF Ends
<1>3. Head(q).type = "reset_compl" => 1 \in Ends(q)
  BY <1>1 DEF Ends
<1>4. \A i, j \in Ends(r) : i = j
  <2> SUFFICES ASSUME NEW i \in Ends(r), NEW j \in Ends(r) PROVE i = j
    OBVIOUS
  <2>1. i + 1 = j + 1 /\ i \in Nat /\ j \in Nat
    BY <1>2
  <2>. QED BY <2>1
<1>5. ASSUME 1 \in Ends(q), NEW i \in Ends(r) PROVE FALSE
  <2>1. i + 1 = 1 /\ i \in Nat /\ i \in 1..Len(r)
    BY <1>2, <1>5
  <2>. QED BY <2>1
<1>6. Ends(q) = {} => Ends(r) = {}
  BY <1>2
<1>. QED BY <1>3, <1>4, <1>5, <1>6 DEF r

-----------------------------------------------------------------------------
(* A reset                                                                  *)

\* A reset that the host waits for is in one place: not yet performed by the
\* dongle, reported by it, or reported to the host.
Resets ==
    /\ dongle.reset => Ends(dongle.evts) = {}
    /\ dongle.reset \/ Ends(dongle.evts) # {} => Ends(evtQ) = {}
    /\ dongle.reset \/ Ends(dongle.evts) # {} \/ Ends(evtQ) # {} => host.resetting
    /\ \A i, j \in Ends(dongle.evts) : i = j
    /\ \A i, j \in Ends(evtQ) : i = j

LEMMA Queues ==
    ASSUME TypeInv
    PROVE  Queue(evtQ) /\ Queue(dongle.evts)
BY NowFields DEF TypeInv, Sound, State, Queue, DongleRec

LEMMA QuietResets ==
    ASSUME Resets, Ends(evtQ') = Ends(evtQ), Ends(dongle'.evts) = Ends(dongle.evts),
           dongle'.reset = dongle.reset, host'.resetting = host.resetting
    PROVE  Resets'
BY DEF Resets

LEMMA ResetsStep ==
    ASSUME TypeInv, Resets, AStep
    PROVE  Resets'
<1>0. Queue(evtQ) /\ Queue(dongle.evts)
  BY Queues
<1>1. ASSUME ModuleCalm PROVE Ends(evtQ') = Ends(evtQ)
  BY <1>0, <1>1, AddsEvents DEF ModuleCalm
<1>2. CASE CalmStep
  <2>1. Ends(dongle'.evts) = Ends(dongle.evts) /\ dongle'.reset = dongle.reset
    BY <1>0, <1>2, AppendEnds DEF CalmStep, DongleCalm, Ordinary
  <2>. QED BY <1>1, <1>2, <2>1, QuietResets DEF CalmStep, HostCalm
<1>3. ASSUME NEW h \in Phys, Closing(h) PROVE Resets'
  <2>1. dongle'.evts = Append(dongle.evts, DisconCompl(h)) /\ dongle'.reset = dongle.reset
    BY <1>3 DEF Closing, Links
  <2>2. Ends(dongle'.evts) = Ends(dongle.evts)
    BY <1>0, <2>1, AppendEnds DEF DisconCompl
  <2>. QED BY <1>1, <1>3, <2>1, <2>2, QuietResets DEF Closing, HostCalm
<1>4. ASSUME NEW h \in Phys, NEW p \in Reals, Opening(h, p) PROVE Resets'
  <2>1. dongle'.evts = Append(dongle.evts, ConCompl(p, h)) /\ dongle'.reset = dongle.reset
    BY <1>4 DEF Opening, Links
  <2>2. Ends(dongle'.evts) = Ends(dongle.evts)
    BY <1>0, <2>1, AppendEnds DEF ConCompl
  <2>. QED BY <1>1, <1>4, <2>1, <2>2, QuietResets DEF Opening, HostCalm
<1>5. ASSUME NEW p \in Wiimotes, Accepting(p) PROVE Resets'
  <2>1. Ends(evtQ') = Ends(evtQ)
    BY <1>0, <1>5, AddsLastEvents DEF Accepting, Accepts
  <2>. QED BY <1>5, <2>1, QuietResets DEF Accepting, HostCalm
<1>6. CASE Forgetting
  <2>1. ~host.resetting /\ host'.resetting /\ evtQ' = evtQ
    BY <1>6 DEF Forgetting
  <2>2. Ends(evtQ) = {} /\ Ends(dongle.evts) = {}
    BY <2>1 DEF Resets
  <2>3. dongle'.evts = dongle.evts /\ dongle'.reset
    BY <1>6, DongleOther DEF Forgetting, TypeInv
  <2>. QED BY <2>1, <2>2, <2>3 DEF Resets
<1>7. CASE Performing
  <2>1. /\ dongle.reset /\ UNCHANGED <<module, host>>
        /\ dongle'.evts = <<ResetCompl>> /\ ~dongle'.reset
    BY <1>7 DEF Performing, DongleReset
  <2>2. evtQ' = evtQ /\ host' = host
    BY <2>1 DEF module
  <2>3. host.resetting /\ Ends(evtQ) = {}
    BY <2>1 DEF Resets
  <2>4. \A i, j \in Ends(dongle'.evts) : i = j
    <3> DEFINE e == ResetCompl
               r == <<e>>
    <3>1. Len(r) = 1
      BY Zenon, SMT
    <3> HIDE DEF r
    <3>2. \A i \in Ends(r) : i = 1
      BY <3>1 DEF Ends
    <3>. QED BY <2>1, <3>2 DEF r
  <2>. QED BY <2>1, <2>2, <2>3, <2>4 DEF Resets
<1>8. CASE Reading
  <2> DEFINE e == Head(evtQ)
  <2>1. /\ evtQ # <<>> /\ evtQ' = Tail(evtQ) /\ UNCHANGED dongle
        /\ Learns(e) \/ Restarts(e) \/ (HostCalm /\ e.type # "reset_compl")
    BY <1>8 DEF Reading
  <2>2. \A i, j \in Ends(evtQ) : i = j
    BY DEF Resets
  <2>3. /\ e.type = "reset_compl" => Ends(evtQ) # {} /\ Ends(evtQ') = {}
        /\ Ends(evtQ) = {} => Ends(evtQ') = {}
        /\ \A i, j \in Ends(evtQ') : i = j
    BY <1>0, <2>1, <2>2, TailEnds
  <2> HIDE DEF e
  <2>4. CASE Restarts(e)
    <3>1. Ends(evtQ) # {} /\ Ends(evtQ') = {}
      BY <2>3, <2>4 DEF Restarts
    <3>2. ~dongle.reset /\ Ends(dongle.evts) = {}
      BY <3>1 DEF Resets
    <3>. QED BY <2>1, <3>1, <3>2 DEF Resets
  <2>5. CASE host'.resetting = host.resetting
    BY <2>1, <2>3, <2>5 DEF Resets
  <2>. QED BY <2>1, <2>4, <2>5 DEF Learns, HostCalm
<1>9. ASSUME NEW e \in DongleEvents, Tracking(e) PROVE Resets'
  <2>1. /\ dongle.evts # <<>> /\ e = Head(dongle.evts) /\ dongle'.evts = Tail(dongle.evts)
        /\ dongle'.reset = dongle.reset /\ host' = host
    BY <1>9 DEF Tracking
  <2>2. \A i, j \in Ends(dongle.evts) : i = j
    BY DEF Resets
  <2>3. /\ e.type = "reset_compl" => Ends(dongle.evts) # {} /\ Ends(dongle'.evts) = {}
        /\ Ends(dongle.evts) = {} => Ends(dongle'.evts) = {}
        /\ \A i, j \in Ends(dongle'.evts) : i = j
    BY <1>0, <2>1, <2>2, TailEnds
  <2>4. CASE Ends(evtQ') = Ends(evtQ)
    BY <2>1, <2>3, <2>4 DEF Resets
  <2>5. CASE Finishes(e) /\ ~(Ends(evtQ') = Ends(evtQ))
    <3>1. evtQ' = Append(evtQ, e) /\ e.type = "reset_compl"
      BY <2>5 DEF Finishes, Tracks
    <3>2. Ends(evtQ') = Ends(evtQ) \cup {Len(evtQ) + 1}
      BY <1>0, <3>1, AppendEnds
    <3>3. ~dongle.reset /\ host.resetting /\ Ends(evtQ) = {} /\ Ends(dongle'.evts) = {}
      BY <2>3, <3>1 DEF Resets
    <3>. QED BY <2>1, <3>2, <3>3 DEF Resets
  <2>6. CASE Maps(e)
    <3>1. evtQ' = evtQ \/ evtQ' = Append(evtQ, ConCompl(e.peer, hci.last))
      BY <2>6 DEF Maps, Tracks
    <3>2. Ends(evtQ') = Ends(evtQ)
      BY <1>0, <3>1, AppendEnds DEF ConCompl
    <3>. QED BY <2>4, <3>2
  <2>7. CASE Unmaps(e)
    <3>1. evtQ' = evtQ \/ evtQ' = Append(evtQ, DisconCompl(GetVirt(hci, e.handle)))
      BY <2>7 DEF Unmaps, Tracks
    <3>2. Ends(evtQ') = Ends(evtQ)
      BY <1>0, <3>1, AppendEnds DEF DisconCompl
    <3>. QED BY <2>4, <3>2
  <2>8. CASE Passes(e)
    BY <1>1, <2>4, <2>8, ShedCalm DEF Passes
  <2>. QED BY <1>9, <2>4, <2>5, <2>6, <2>7, <2>8 DEF Tracking
<1>. QED BY <1>2, <1>3, <1>4, <1>5, <1>6, <1>7, <1>8, <1>9 DEF AStep

-----------------------------------------------------------------------------
(* A connection of the dongle                                               *)

\* Handle h of the dongle: q are the events it has yet to report, T the entries
\* of the table that map h, l the peer that is behind it.
Agrees(q, T, l, h) ==
    /\ \A i, j \in OpensOf(q, h) : i = j
    /\ \A i, j \in ClosesOf(q, h) : i = j
    /\ \A i \in OpensOf(q, h), j \in ClosesOf(q, h) : i < j
    /\ \A i, j \in T : i = j
    /\ OpensOf(q, h) # {} => T = {}
    /\ l # Nobody => /\ ClosesOf(q, h) = {}
                     /\ T = {} => OpensOf(q, h) # {}
                     /\ \A i \in OpensOf(q, h) : q[i].peer = l
    /\ l = Nobody => (ClosesOf(q, h) # {} <=> T # {} \/ OpensOf(q, h) # {})

\* Event e is about another handle, or about none.
Elsewhere(e, h) == e.type \in {"con_compl", "discon_compl"} => e.handle # h

\* Queue r is q with event e behind it, as handle h sees it,
Appended(q, r, e, h) ==
    LET n == Len(q) + 1
    IN  /\ \A i \in OpensOf(q, h) : r[i] = q[i] /\ i < n
        /\ Elsewhere(e, h) => /\ OpensOf(r, h) = OpensOf(q, h)
                              /\ ClosesOf(r, h) = ClosesOf(q, h)
        /\ e.type = "con_compl" /\ e.handle = h
           => /\ OpensOf(r, h) = OpensOf(q, h) \cup {n} /\ r[n] = e
              /\ ClosesOf(r, h) = ClosesOf(q, h)
        /\ e.type = "discon_compl" /\ e.handle = h
           => /\ OpensOf(r, h) = OpensOf(q, h)
              /\ ClosesOf(r, h) = ClosesOf(q, h) \cup {n}

\* or without its first event e.
Tailed(q, r, e, h) ==
    /\ e = q[1]
    /\ \A i \in OpensOf(r, h) :
          i \in Nat /\ i + 1 \in OpensOf(q, h) /\ i + 1 # 1 /\ r[i] = q[i + 1]
    /\ \A i \in ClosesOf(r, h) : i \in Nat /\ i + 1 \in ClosesOf(q, h) /\ i + 1 # 1
    /\ \A i \in OpensOf(q, h) : i \in Nat \ {0} /\ (i # 1 => i - 1 \in OpensOf(r, h))
    /\ \A i \in ClosesOf(q, h) : i \in Nat \ {0} /\ (i # 1 => i - 1 \in ClosesOf(r, h))
    /\ 1 \in OpensOf(q, h) <=> e.type = "con_compl" /\ e.handle = h
    /\ 1 \in ClosesOf(q, h) <=> e.type = "discon_compl" /\ e.handle = h

LEMMA AppendOf ==
    ASSUME NEW q, NEW e, NEW h, Queue(q)
    PROVE  Appended(q, Append(q, e), e, h)
<1> DEFINE r == Append(q, e)
           n == Len(q) + 1
<1>1. /\ n \in 1..Len(r) /\ r[n] = e
      /\ \A i \in 1..Len(q) : i \in 1..Len(r) /\ r[i] = q[i]
      /\ \A i \in 1..Len(r) : i \in 1..Len(q) \/ i = n
  BY AppendEvents
<1>2. \A i \in 1..Len(q) : i < n
  BY AppendEvents
<1> HIDE DEF r, n
<1>3. \A i \in OpensOf(q, h) : r[i] = q[i] /\ i < n
  BY <1>1, <1>2 DEF OpensOf
<1>4. Elsewhere(e, h) => OpensOf(r, h) = OpensOf(q, h) /\ ClosesOf(r, h) = ClosesOf(q, h)
  BY <1>1 DEF OpensOf, ClosesOf, Elsewhere
<1>5. e.type = "con_compl" /\ e.handle = h
      => OpensOf(r, h) = OpensOf(q, h) \cup {n} /\ ClosesOf(r, h) = ClosesOf(q, h)
  BY <1>1 DEF OpensOf, ClosesOf
<1>6. e.type = "discon_compl" /\ e.handle = h
      => OpensOf(r, h) = OpensOf(q, h) /\ ClosesOf(r, h) = ClosesOf(q, h) \cup {n}
  BY <1>1 DEF OpensOf, ClosesOf
<1>. QED BY <1>1, <1>3, <1>4, <1>5, <1>6 DEF Appended, r, n

LEMMA TailOf ==
    ASSUME NEW q, NEW h, Queue(q), q # <<>>
    PROVE  Tailed(q, Tail(q), Head(q), h)
<1> DEFINE r == Tail(q)
           e == Head(q)
<1>1. /\ 1 \in 1..Len(q) /\ e = q[1]
      /\ \A i \in 1..Len(r) : i \in Nat /\ i + 1 \in 1..Len(q) /\ r[i] = q[i + 1]
      /\ \A i \in 1..Len(q) : i # 1 => i - 1 \in 1..Len(r) /\ r[i - 1] = q[i] /\ i \in Nat
  BY TailEvents
<1>2. \A i \in 1..Len(r) : i + 1 # 1
  <2> SUFFICES ASSUME NEW i \in 1..Len(r) PROVE i + 1 # 1
    OBVIOUS
  <2>1. i \in Nat /\ i >= 1
    BY <1>1
  <2>. QED BY <2>1
<1>3. \A i \in 1..Len(q) : i \in Nat \ {0}
  BY QueueLen
<1> HIDE DEF r, e
<1>4. \A i \in OpensOf(r, h) :
         i \in Nat /\ i + 1 \in OpensOf(q, h) /\ i + 1 # 1 /\ r[i] = q[i + 1]
  BY <1>1, <1>2 DEF OpensOf
<1>5. \A i \in ClosesOf(r, h) : i \in Nat /\ i + 1 \in ClosesOf(q, h) /\ i + 1 # 1
  BY <1>1, <1>2 DEF ClosesOf
<1>6. \A i \in OpensOf(q, h) : i \in Nat \ {0} /\ (i # 1 => i - 1 \in OpensOf(r, h))
  BY <1>1, <1>3 DEF OpensOf
<1>7. \A i \in ClosesOf(q, h) : i \in Nat \ {0} /\ (i # 1 => i - 1 \in ClosesOf(r, h))
  BY <1>1, <1>3 DEF ClosesOf
<1>8. /\ 1 \in OpensOf(q, h) <=> e.type = "con_compl" /\ e.handle = h
      /\ 1 \in ClosesOf(q, h) <=> e.type = "discon_compl" /\ e.handle = h
  BY <1>1 DEF OpensOf, ClosesOf
<1>. QED BY <1>1, <1>4, <1>5, <1>6, <1>7, <1>8 DEF Tailed, r, e

\* Events about other handles come and go.
LEMMA AgreesAppend ==
    ASSUME NEW q, NEW T, NEW l, NEW h, NEW e,
           Queue(q), Agrees(q, T, l, h), Elsewhere(e, h)
    PROVE  Agrees(Append(q, e), T, l, h)
<1> DEFINE r == Append(q, e)
<1>1. Appended(q, r, e, h)
  BY AppendOf
<1> HIDE DEF r
<1>2. Agrees(r, T, l, h)
  BY <1>1 DEF Agrees, Appended
<1>. QED BY <1>2 DEF r

\* A queue that has lost its first event, which is of a kind that T knows.
LEMMA TailOrder ==
    ASSUME NEW q, NEW h, Queue(q), q # <<>>,
           \A i, j \in OpensOf(q, h) : i = j,
           \A i, j \in ClosesOf(q, h) : i = j,
           \A i \in OpensOf(q, h), j \in ClosesOf(q, h) : i < j
    PROVE  LET r == Tail(q) IN
           /\ \A i, j \in OpensOf(r, h) : i = j
           /\ \A i, j \in ClosesOf(r, h) : i = j
           /\ \A i \in OpensOf(r, h), j \in ClosesOf(r, h) : i < j
<1> DEFINE r == Tail(q)
           A == OpensOf(q, h)
           B == ClosesOf(q, h)
           C == OpensOf(r, h)
           D == ClosesOf(r, h)
<1>0. Tailed(q, r, Head(q), h)
  BY TailOf
<1> HIDE DEF r
<1>1. /\ \A i \in C : i \in Nat /\ i + 1 \in A
      /\ \A i \in D : i \in Nat /\ i + 1 \in B
  BY <1>0 DEF Tailed
<1>2. /\ \A i, j \in A : i = j
      /\ \A i, j \in B : i = j
      /\ \A i \in A, j \in B : i < j
  OBVIOUS
<1> HIDE DEF A, B, C, D
<1>3. ASSUME NEW i \in C, NEW j \in C PROVE i = j
  <2>1. i + 1 = j + 1 /\ i \in Nat /\ j \in Nat
    BY <1>1, <1>2
  <2>. QED BY <2>1
<1>4. ASSUME NEW i \in D, NEW j \in D PROVE i = j
  <2>1. i + 1 = j + 1 /\ i \in Nat /\ j \in Nat
    BY <1>1, <1>2
  <2>. QED BY <2>1
<1>5. ASSUME NEW i \in C, NEW j \in D PROVE i < j
  <2>1. i + 1 < j + 1 /\ i \in Nat /\ j \in Nat
    BY <1>1, <1>2
  <2>. QED BY <2>1
<1>. QED BY <1>3, <1>4, <1>5 DEF A, B, C, D, r

LEMMA AgreesTail ==
    ASSUME NEW q, NEW T, NEW l, NEW h,
           Queue(q), q # <<>>, Agrees(q, T, l, h), Elsewhere(Head(q), h)
    PROVE  Agrees(Tail(q), T, l, h)
<1> DEFINE r == Tail(q)
           A == OpensOf(q, h)
           B == ClosesOf(q, h)
           C == OpensOf(r, h)
           D == ClosesOf(r, h)
<1>0. Tailed(q, r, Head(q), h)
  BY TailOf
<1>3. /\ \A i, j \in C : i = j
      /\ \A i, j \in D : i = j
      /\ \A i \in C, j \in D : i < j
  BY TailOrder DEF Agrees
<1> HIDE DEF r
<1>1. /\ \A i \in C : i + 1 \in A /\ r[i] = q[i + 1]
      /\ \A i \in D : i + 1 \in B
      /\ \A i \in A : i # 1 => i - 1 \in C
      /\ \A i \in B : i # 1 => i - 1 \in D
  BY <1>0 DEF Tailed
<1>2. 1 \notin A /\ 1 \notin B
  BY <1>0 DEF Elsewhere, Tailed
<1>4. (C = {} <=> A = {}) /\ (D = {} <=> B = {})
  BY <1>1, <1>2
<1>5. l # Nobody => \A i \in C : r[i].peer = l
  BY <1>1 DEF Agrees
<1>6. /\ \A i, j \in T : i = j
      /\ A # {} => T = {}
      /\ l # Nobody => B = {} /\ (T = {} => A # {})
      /\ l = Nobody => (B # {} <=> T # {} \/ A # {})
  BY DEF Agrees
<1> HIDE DEF A, B, C, D, r
<1>7. /\ C # {} => T = {}
      /\ l # Nobody => D = {} /\ (T = {} => C # {})
      /\ l = Nobody => (D # {} <=> T # {} \/ C # {})
  BY <1>4, <1>6
<1>. QED BY <1>3, <1>5, <1>6, <1>7 DEF Agrees, C, D, r

\* The peer leaves, or the host closes the connection.
LEMMA AgreesClosing ==
    ASSUME NEW q, NEW T, NEW l, NEW h,
           Queue(q), Agrees(q, T, l, h), l # Nobody
    PROVE  Agrees(Append(q, DisconCompl(h)), T, Nobody, h)
<1> DEFINE e == DisconCompl(h)
           r == Append(q, e)
           n == Len(q) + 1
<1>1. e.type = "discon_compl" /\ e.handle = h
  BY DEF DisconCompl
<1> HIDE DEF e
<1>0. Appended(q, r, e, h)
  BY AppendOf
<1> HIDE DEF r
<1>2. /\ OpensOf(r, h) = OpensOf(q, h) /\ ClosesOf(r, h) = ClosesOf(q, h) \cup {n}
      /\ \A i \in OpensOf(q, h) : i < n
  BY <1>0, <1>1 DEF Appended
<1> HIDE DEF n
<1>3. ClosesOf(q, h) = {} /\ (T = {} => OpensOf(q, h) # {})
  BY DEF Agrees
<1>. QED BY <1>2, <1>3 DEF Agrees, r, e

\* A connection is opened with a handle of which no event is left.
LEMMA AgreesOpening ==
    ASSUME NEW q, NEW T, NEW h, NEW p,
           Queue(q), Agrees(q, T, Nobody, h), ClosesOf(q, h) = {}, p # Nobody
    PROVE  T = {} /\ Agrees(Append(q, ConCompl(p, h)), T, p, h)
<1> DEFINE e == ConCompl(p, h)
           r == Append(q, e)
           n == Len(q) + 1
<1>1. e.type = "con_compl" /\ e.handle = h /\ e.peer = p
  BY DEF ConCompl
<1> HIDE DEF e
<1>0. Appended(q, r, e, h)
  BY AppendOf
<1> HIDE DEF r
<1>2. /\ OpensOf(r, h) = OpensOf(q, h) \cup {n} /\ ClosesOf(r, h) = ClosesOf(q, h)
      /\ r[n] = e
  BY <1>0, <1>1 DEF Appended
<1> HIDE DEF n
<1>3. T = {} /\ OpensOf(q, h) = {}
  BY DEF Agrees
<1>. QED BY <1>1, <1>2, <1>3 DEF Agrees, r, e

\* The tracker sees the event of a new connection and maps it.
LEMMA AgreesMapped ==
    ASSUME NEW q, NEW T, NEW l, NEW h, NEW i,
           Queue(q), q # <<>>, Agrees(q, T, l, h),
           Head(q).type = "con_compl", Head(q).handle = h
    PROVE  /\ T = {} /\ l \in {Head(q).peer, Nobody}
           /\ Agrees(Tail(q), {i}, l, h)
<1> DEFINE r == Tail(q)
           A == OpensOf(q, h)
           B == ClosesOf(q, h)
           C == OpensOf(r, h)
           D == ClosesOf(r, h)
           U == {i}
<1>0. Tailed(q, r, Head(q), h)
  BY TailOf
<1>2. /\ \A j, k \in C : j = k
      /\ \A j, k \in D : j = k
      /\ \A j \in C, k \in D : j < k
  BY TailOrder DEF Agrees
<1> HIDE DEF r
<1>1. /\ \A j \in C : j + 1 \in A /\ j + 1 # 1
      /\ \A j \in D : j + 1 \in B
      /\ \A j \in B : j # 1 => j - 1 \in D
      /\ 1 \in A /\ 1 \notin B /\ Head(q) = q[1]
  BY <1>0 DEF Tailed
<1>3. /\ \A j, k \in A : j = k
      /\ A # {} => T = {}
      /\ l # Nobody => B = {} /\ \A j \in A : q[j].peer = l
      /\ l = Nobody => (B # {} <=> T # {} \/ A # {})
  BY DEF Agrees
<1>4. U # {} /\ \A j, k \in U : j = k
  OBVIOUS
<1> HIDE DEF A, B, C, D, U, r
<1>5. C = {} /\ (D = {} <=> B = {})
  BY <1>1, <1>3
<1>6. T = {} /\ l \in {Head(q).peer, Nobody}
  BY <1>1, <1>3
<1>7. /\ C # {} => U = {}
      /\ l # Nobody => D = {} /\ (U = {} => C # {}) /\ \A j \in C : r[j].peer = l
      /\ l = Nobody => (D # {} <=> U # {} \/ C # {})
  BY <1>1, <1>3, <1>4, <1>5
<1>8. Agrees(r, U, l, h)
  BY <1>2, <1>4, <1>7 DEF Agrees, C, D
<1>. QED BY <1>6, <1>8 DEF U, r

\* The tracker sees the end of a connection and unmaps it.
LEMMA AgreesUnmapped ==
    ASSUME NEW q, NEW T, NEW l, NEW h,
           Queue(q), q # <<>>, Agrees(q, T, l, h),
           Head(q).type = "discon_compl", Head(q).handle = h
    PROVE  l = Nobody /\ Agrees(Tail(q), {}, l, h)
<1> DEFINE r == Tail(q)
           A == OpensOf(q, h)
           B == ClosesOf(q, h)
           C == OpensOf(r, h)
           D == ClosesOf(r, h)
           U == {}
<1>0. Tailed(q, r, Head(q), h)
  BY TailOf
<1>2. /\ \A j, k \in C : j = k
      /\ \A j, k \in D : j = k
      /\ \A j \in C, k \in D : j < k
  BY TailOrder DEF Agrees
<1> HIDE DEF r
<1>1. /\ \A j \in C : j + 1 \in A
      /\ \A j \in D : j + 1 \in B /\ j + 1 # 1
      /\ \A j \in A : j \in Nat \ {0}
      /\ 1 \in B
  BY <1>0 DEF Tailed
<1>3. /\ \A j, k \in B : j = k
      /\ \A j \in A, k \in B : j < k
      /\ l # Nobody => B = {}
  BY DEF Agrees
<1> HIDE DEF A, B, C, D, r
<1>4. D = {}
  BY <1>1, <1>3
<1>5. A = {}
  <2> SUFFICES ASSUME NEW j \in A PROVE FALSE
    OBVIOUS
  <2>1. j < 1 /\ j \in Nat \ {0}
    BY <1>1, <1>3
  <2>. QED BY <2>1
<1>6. C = {} /\ l = Nobody
  BY <1>1, <1>3, <1>5
<1>7. U = {} /\ \A j, k \in U : j = k
  OBVIOUS
<1> HIDE DEF U
<1>8. Agrees(r, U, l, h)
  BY <1>2, <1>4, <1>6, <1>7 DEF Agrees, C, D
<1>. QED BY <1>6, <1>8 DEF U, r

\* Where nothing is mapped, linked or left to report.
LEMMA AgreesNothing ==
    ASSUME NEW q, NEW h, OpensOf(q, h) = {}, ClosesOf(q, h) = {}
    PROVE  Agrees(q, {}, Nobody, h)
BY DEF Agrees

-----------------------------------------------------------------------------
(* Who is behind a handle                                                   *)

\* While the host waits for the end of a reset nothing is connected, and new
\* connections it might be told of come before that end, and are discarded.
Cleared ==
    host.resetting =>
        /\ \A w \in Wiimotes : ~Joined(w)
        /\ \A i \in Entries : ~Valid(i)
        /\ \A v \in VirtHandles : ~Known(v)
        /\ \A i \in Opens(evtQ), j \in Ends(evtQ) : i < j

\* Handle v was given out, and if a peer is still behind it, it is p.
Belongs(p, v) ==
    /\ v \in VirtHandles /\ v < hci.last
    /\ \A w \in Wiimotes : Joined(w) /\ wm[w].handle = v => w = p
    /\ \A i \in Entries : Valid(i) /\ Virt(i) = v
                             => dongle.link[hci.table[i].phys] \in {p, Nobody}

\* The host was told, or will be by an event on its way, that p is behind v.
Told(p, v) ==
    \/ v \in VirtHandles /\ Known(v) /\ host.con[v].peer = p
    \/ \E i \in Opens(evtQ) : evtQ[i].peer = p /\ evtQ[i].handle = v

Claims == ~host.resetting => \A p, v : Told(p, v) => Belongs(p, v)

\* The table, the links and the events of the dongle agree.
Mirrors ==
    hung = "no" /\ ~dongle.reset =>
        \A h \in Phys : Agrees(dongle.evts, WithPhys(hci, h), dongle.link[h], h)

Full == Handles /\ Resets /\ Cleared /\ Claims /\ Mirrors

\* New connections in a queue with one event more or less.
LEMMA AppendOpens ==
    ASSUME NEW q, NEW e, Queue(q)
    PROVE  /\ \A i \in Opens(Append(q, e)) :
                 \/ i \in Opens(q) /\ Append(q, e)[i] = q[i]
                 \/ e.type = "con_compl" /\ Append(q, e)[i] = e
           /\ \A i \in Opens(q) : i < Len(q) + 1
<1> DEFINE r == Append(q, e)
           n == Len(q) + 1
<1>1. /\ r[n] = e
      /\ \A i \in 1..Len(q) : r[i] = q[i]
      /\ \A i \in 1..Len(r) : i \in 1..Len(q) \/ i = n
  BY AppendEvents
<1>2. \A i \in 1..Len(q) : i < n
  BY AppendEvents
<1> HIDE DEF r, n
<1>3. ASSUME NEW i \in Opens(r)
      PROVE  (i \in Opens(q) /\ r[i] = q[i]) \/ (e.type = "con_compl" /\ r[i] = e)
  <2>1. i \in 1..Len(r) /\ r[i].type = "con_compl"
    BY DEF Opens
  <2>2. CASE i = n
    BY <1>1, <2>1, <2>2
  <2>3. CASE i \in 1..Len(q)
    <3>1. r[i] = q[i]
      BY <1>1, <2>3
    <3>2. i \in Opens(q)
      BY <2>1, <2>3, <3>1 DEF Opens
    <3>. QED BY <3>1, <3>2
  <2>. QED BY <1>1, <2>1, <2>2, <2>3
<1>4. \A i \in Opens(q) : i < n
  BY <1>2 DEF Opens
<1>. QED BY <1>3, <1>4 DEF r, n

LEMMA TailOpens ==
    ASSUME NEW q, Queue(q), q # <<>>
    PROVE  /\ \A i \in Opens(Tail(q)) : i \in Nat /\ i + 1 \in Opens(q) /\ Tail(q)[i] = q[i + 1]
           /\ \A i \in Ends(Tail(q)) : i \in Nat /\ i + 1 \in Ends(q)
           /\ Head(q).type = "con_compl" => 1 \in Opens(q) /\ Head(q) = q[1]
           /\ Head(q).type = "reset_compl" => 1 \in Ends(q)
           /\ \A i \in Opens(q) : ~(i < 1)
<1> DEFINE r == Tail(q)
<1>1. /\ 1 \in 1..Len(q) /\ Head(q) = q[1]
      /\ \A i \in 1..Len(r) : i \in Nat /\ i + 1 \in 1..Len(q) /\ r[i] = q[i + 1]
  BY TailEvents
<1>2. \A i \in 1..Len(q) : ~(i < 1)
  BY QueueLen
<1> HIDE DEF r
<1>3. \A i \in Opens(r) : i \in Nat /\ i + 1 \in Opens(q) /\ r[i] = q[i + 1]
  BY <1>1 DEF Opens
<1>4. \A i \in Ends(r) : i \in Nat /\ i + 1 \in Ends(q)
  BY <1>1 DEF Ends
<1>5. Head(q).type = "con_compl" => 1 \in Opens(q) /\ Head(q) = q[1]
  BY <1>1 DEF Opens
<1>6. Head(q).type = "reset_compl" => 1 \in Ends(q)
  BY <1>1 DEF Ends
<1>7. \A i \in Opens(q) : ~(i < 1)
  BY <1>2 DEF Opens
<1>. QED BY <1>3, <1>4, <1>5, <1>6, <1>7 DEF r

LEMMA ClearedCalm ==
    ASSUME TypeInv, Cleared, ModuleCalm, HostCalm
    PROVE  Cleared'
<1> SUFFICES ASSUME host'.resetting
             PROVE  /\ \A w \in Wiimotes : ~Joined(w)'
                    /\ \A i \in Entries : ~Valid(i)'
                    /\ \A v \in VirtHandles : ~Known(v)'
                    /\ \A i \in Opens(evtQ'), j \in Ends(evtQ') : i < j
  BY DEF Cleared
<1>1. host.resetting
  BY DEF HostCalm
<1>2. \A w \in Wiimotes : ~Joined(w)'
  BY <1>1, JoinedConnected DEF Cleared, ModuleCalm
<1>3. \A i \in Entries : ~Valid(i)'
  BY <1>1 DEF Cleared, ModuleCalm, Valid
<1>4. \A v \in VirtHandles : ~Known(v)'
  BY <1>1 DEF Cleared, HostCalm, Forgets, Known
<1>5. Opens(evtQ') = Opens(evtQ) /\ Ends(evtQ') = Ends(evtQ)
  BY Queues, AddsEvents DEF ModuleCalm
<1>. QED BY <1>1, <1>2, <1>3, <1>4, <1>5 DEF Cleared

LEMMA ClearedStep ==
    ASSUME TypeInv, ResetQuiet, Resets, Cleared, AStep
    PROVE  Cleared'
<1>1. CASE CalmStep
  BY <1>1, ClearedCalm DEF CalmStep
<1>2. ASSUME NEW h \in Phys, Closing(h) PROVE Cleared'
  BY <1>2, ClearedCalm DEF Closing
<1>3. ASSUME NEW h \in Phys, NEW p \in Reals, Opening(h, p) PROVE Cleared'
  BY <1>3, ClearedCalm DEF Opening
<1>4. ASSUME NEW p \in Wiimotes, Accepting(p) PROVE Cleared'
  BY <1>4 DEF Accepting, HostCalm, Cleared
<1>5. CASE Forgetting
  <2>1. \A w \in Wiimotes : ~Joined(w)'
    BY <1>5 DEF Forgetting, Joined
  <2>2. \A i \in Entries : ~Valid(i)'
    BY <1>5 DEF Forgetting, HciReset, Unmapped, Valid
  <2>3. \A v \in VirtHandles : ~Known(v)'
    BY <1>5 DEF Forgetting, NoCon, Known
  <2>4. Ends(evtQ') = {}
    BY <1>5 DEF Forgetting, Resets
  <2>. QED BY <2>1, <2>2, <2>3, <2>4 DEF Cleared
<1>6. CASE Performing
  <2>1. UNCHANGED <<wm, hci, evtQ, host>>
    BY <1>6 DEF Performing, DongleReset, module
  <2>. QED BY <2>1 DEF Cleared, Joined, Valid, Known
<1>7. CASE Reading
  <2> DEFINE e == Head(evtQ)
             q == Tail(evtQ)
  <2>1. /\ wm' = wm /\ hci' = hci /\ evtQ # <<>> /\ evtQ' = q
        /\ Learns(e) \/ Restarts(e) \/ HostCalm
    BY <1>7 DEF Reading
  <2>2. /\ \A i \in Opens(q) : i \in Nat /\ i + 1 \in Opens(evtQ)
        /\ \A i \in Ends(q) : i \in Nat /\ i + 1 \in Ends(evtQ)
    BY <2>1, Queues, TailOpens
  <2> HIDE DEF e, q
  <2>3. CASE HostCalm /\ host.resetting
    <3>1. \A v \in VirtHandles : ~Known(v)'
      BY <2>3 DEF Cleared, HostCalm, Forgets, Known
    <3>2. ASSUME NEW i \in Opens(q), NEW j \in Ends(q) PROVE i < j
      <4>1. i + 1 < j + 1 /\ i \in Nat /\ j \in Nat
        BY <2>2, <2>3 DEF Cleared
      <4>. QED BY <4>1
    <3>. QED BY <2>1, <2>3, <3>1, <3>2 DEF Cleared, Joined, Valid
  <2>4. CASE ~host'.resetting
    BY <2>4 DEF Cleared
  <2>. QED BY <2>1, <2>3, <2>4 DEF Learns, Restarts, HostCalm
<1>8. ASSUME NEW e \in DongleEvents, Tracking(e) PROVE Cleared'
  <2>1. host' = host /\ dongle.evts # <<>> /\ e = Head(dongle.evts)
    BY <1>8 DEF Tracking
  <2>2. CASE Maps(e)
    <3>1. ~host.resetting
      BY <2>1, <2>2 DEF Maps, ResetQuiet
    <3>. QED BY <2>1, <3>1 DEF Cleared
  <2>3. CASE Unmaps(e)
    <3>1. ~host.resetting
      BY <2>3 DEF Unmaps, Cleared, WithPhys, Valid
    <3>. QED BY <2>1, <3>1 DEF Cleared
  <2>4. CASE Passes(e)
    <3>1. HostCalm
      BY <2>1, HostEffects DEF TypeInv
    <3>. QED BY <2>4, <3>1, ShedCalm, ClearedCalm DEF Passes
  <2>5. CASE Finishes(e)
    <3>1. wm' = wm /\ hci' = hci /\ e.type = "reset_compl"
      BY <2>5 DEF Finishes, Tracks
    <3>2. CASE evtQ' = evtQ
      BY <2>1, <3>1, <3>2 DEF Cleared, Joined, Valid, Known
    <3>3. CASE evtQ' = Append(evtQ, e)
      <4> DEFINE n == Len(evtQ) + 1
      <4>1. Ends(evtQ') = Ends(evtQ) \cup {n}
        BY <3>1, <3>3, Queues, AppendEnds
      <4>2. \A i \in Opens(evtQ') : i \in Opens(evtQ) /\ i < n
        <5>1. e.type # "con_compl"
          BY <3>1
        <5>. QED BY <3>3, <5>1, Queues, AppendOpens
      <4> HIDE DEF n
      <4>3. host.resetting => \A i \in Opens(evtQ'), j \in Ends(evtQ') : i < j
        BY <4>1, <4>2 DEF Cleared
      <4>. QED BY <2>1, <3>1, <4>3 DEF Cleared, Joined, Valid, Known
    <3>. QED BY <2>5, <3>2, <3>3 DEF Finishes, Tracks
  <2>. QED BY <1>8, <2>2, <2>3, <2>4, <2>5 DEF Tracking
<1>. QED BY <1>1, <1>2, <1>3, <1>4, <1>5, <1>6, <1>7, <1>8 DEF AStep

\* Connections end, or begin with the next handle; none of the dongle changes hands.
Widens ==
    /\ hci'.last \in {hci.last, hci.last + 1}
    /\ \A w \in Wiimotes : Joined(w)' =>
          \/ wm'[w].handle = hci.last
          \/ Joined(w) /\ wm'[w].handle = wm[w].handle
    /\ \A i \in Entries : Valid(i)' =>
          \/ Virt(i)' = hci.last
          \/ /\ Valid(i) /\ hci'.table[i] = hci.table[i]
             /\ dongle'.link[hci.table[i].phys]
                   \in {dongle.link[hci.table[i].phys], Nobody}

LEMMA BelongsKept ==
    ASSUME TypeInv, Widens, NEW p, NEW v, Belongs(p, v)
    PROVE  Belongs(p, v)'
<1>1. v \in Nat /\ hci.last \in Nat /\ v < hci.last /\ v \in VirtHandles
  <2>1. v \in Nat
    BY HciAssumption DEF Belongs, VirtHandles
  <2>. QED BY <2>1, LastNat DEF Belongs
<1>2. v < hci'.last /\ v # hci.last
  BY <1>1 DEF Widens
<1>3. \A w \in Wiimotes : Joined(w)' /\ wm'[w].handle = v => w = p
  BY <1>2 DEF Widens, Belongs
<1>4. ASSUME NEW i \in Entries, Valid(i)', Virt(i)' = v
      PROVE  dongle'.link[hci'.table[i].phys] \in {p, Nobody}
  <2>1. /\ Valid(i) /\ hci'.table[i] = hci.table[i]
        /\ dongle'.link[hci.table[i].phys] \in {dongle.link[hci.table[i].phys], Nobody}
    BY <1>2, <1>4 DEF Widens
  <2>2. Virt(i) = v
    BY <1>4, <2>1 DEF Virt
  <2>. QED BY <2>1, <2>2 DEF Belongs
<1>. QED BY <1>1, <1>2, <1>3, <1>4 DEF Belongs

\* What the host was told stays true; what it is told now is to be shown.
LEMMA ClaimsKept ==
    ASSUME TypeInv, Claims, Widens, ~host.resetting,
           \A p, v : Told(p, v)' => Told(p, v) \/ Belongs(p, v)'
    PROVE  Claims'
<1> SUFFICES ASSUME NEW p, NEW v, Told(p, v)' PROVE Belongs(p, v)'
  BY DEF Claims
<1>1. CASE Told(p, v)
  BY <1>1, BelongsKept DEF Claims
<1>. QED BY <1>1

\* What the host is told is what it was told before, and what events N say.
LEMMA Tells ==
    ASSUME Forgets(host.con, host'.con), NEW N,
           \A i \in Opens(evtQ') : \/ \E j \in Opens(evtQ) : evtQ'[i] = evtQ[j]
                                   \/ evtQ'[i] \in N
    PROVE  \A p, v : Told(p, v)' =>
              Told(p, v) \/ \E e \in N : e.peer = p /\ e.handle = v
<1> SUFFICES ASSUME NEW p, NEW v, Told(p, v)'
             PROVE  Told(p, v) \/ \E e \in N : e.peer = p /\ e.handle = v
  OBVIOUS
<1>1. CASE v \in VirtHandles /\ Known(v)' /\ host'.con[v].peer = p
  BY <1>1 DEF Forgets, Known, Told
<1>2. CASE \E i \in Opens(evtQ') : evtQ'[i].peer = p /\ evtQ'[i].handle = v
  <2>1. PICK i \in Opens(evtQ') : evtQ'[i].peer = p /\ evtQ'[i].handle = v
    BY <1>2
  <2>2. CASE \E j \in Opens(evtQ) : evtQ'[i] = evtQ[j]
    BY <2>1, <2>2 DEF Told
  <2>3. CASE evtQ'[i] \in N
    BY <2>1, <2>3
  <2>. QED BY <2>2, <2>3
<1>. QED BY <1>1, <1>2 DEF Told

\* A step that opens no connection.
LEMMA ClaimsCalm ==
    ASSUME TypeInv, Claims, ModuleCalm, HostCalm,
           \A i \in Entries : Valid(i) => dongle'.link[hci.table[i].phys]
                                  \in {dongle.link[hci.table[i].phys], Nobody}
    PROVE  Claims'
<1>1. CASE host.resetting
  BY <1>1 DEF HostCalm, Claims
<1>2. CASE ~host.resetting
  <2>1. Widens
    <3>1. \A w \in Wiimotes : Joined(w)' => Joined(w) /\ wm'[w].handle = wm[w].handle
      BY JoinedConnected DEF ModuleCalm
    <3>2. \A i \in Entries : Valid(i)' => Valid(i) /\ hci'.table[i] = hci.table[i]
      BY DEF ModuleCalm, Valid
    <3>. QED BY <3>1, <3>2 DEF Widens, ModuleCalm
  <2>2. \A i \in Opens(evtQ') : \E j \in Opens(evtQ) : evtQ'[i] = evtQ[j]
    BY Queues, AddsEvents DEF ModuleCalm
  <2> DEFINE N == {}
  <2>3. \A e \in N : FALSE
    OBVIOUS
  <2> HIDE DEF N
  <2>4. \A p, v : Told(p, v)' => Told(p, v) \/ \E e \in N : e.peer = p /\ e.handle = v
    BY <2>2, Tells DEF HostCalm
  <2>. QED BY <1>2, <2>1, <2>3, <2>4, ClaimsKept
<1>. QED BY <1>1, <1>2

\* A step of the tracker, or an accepted connection: event e tells of a new one.
LEMMA ClaimsNew ==
    ASSUME TypeInv, Claims, Widens, ~host.resetting,
           Forgets(host.con, host'.con), NEW a, NEW b,
           \A i \in Opens(evtQ') : \/ \E j \in Opens(evtQ) : evtQ'[i] = evtQ[j]
                                   \/ evtQ'[i] = ConCompl(a, b),
           Belongs(a, b)'
    PROVE  Claims'
<1> DEFINE N == {ConCompl(a, b)}
<1>1. \A e \in N : e.peer = a /\ e.handle = b
  BY DEF ConCompl
<1>2. \A i \in Opens(evtQ') : (\E j \in Opens(evtQ) : evtQ'[i] = evtQ[j]) \/ evtQ'[i] \in N
  OBVIOUS
<1> HIDE DEF N
<1>3. \A p, v : Told(p, v)' => Told(p, v) \/ \E e \in N : e.peer = p /\ e.handle = v
  BY <1>2, Tells
<1>4. \A p, v : Told(p, v)' => Told(p, v) \/ Belongs(p, v)'
  BY <1>1, <1>3
<1>. QED BY <1>4, ClaimsKept

LEMMA ClaimsAccepting ==
    ASSUME TypeInv, HandlesLeft, Handles, Claims, NEW a \in Wiimotes, Accepting(a)
    PROVE  Claims'
<1>0. PICK b : b = hci.last
  OBVIOUS
<1>1. /\ hci'.last = b + 1 /\ hci'.table = hci.table /\ wm'[a].handle = b
      /\ \A w \in Wiimotes : w # a => wm'[w] = wm[w]
      /\ AddsLast(evtQ, evtQ', ConCompl(a, b))
      /\ dongle' = dongle /\ ~host.resetting /\ HostCalm
  BY <1>0, NextHandle, AllocType DEF Accepting, Accepts, TypeInv
<1>2. b \in Nat /\ b \in VirtHandles
  BY <1>0, LastNat DEF TypeInv, HciRec
<1>3. \A w \in Wiimotes : Joined(w)' =>
         w = a \/ (Joined(w) /\ wm'[w].handle = wm[w].handle /\ wm[w].handle # b)
  <2>1. \A w \in Wiimotes : Joined(w) => wm[w].handle # b
    BY <1>0, LastNat DEF Handles
  <2>. QED BY <1>1, <2>1 DEF Joined
<1>4. \A i \in Entries : Valid(i)' => Valid(i) /\ hci'.table[i] = hci.table[i] /\ Virt(i)' # b
  <2>1. \A i \in Entries : Valid(i) => Virt(i) # b
    BY <1>0, LastNat DEF Handles
  <2>. QED BY <1>1, <2>1 DEF Valid, Virt
<1>5. Widens
  BY <1>0, <1>1, <1>3, <1>4 DEF Widens
<1>6. Belongs(a, b)'
  <2>1. b < hci'.last
    BY <1>1, <1>2
  <2>2. \A w \in Wiimotes : Joined(w)' /\ wm'[w].handle = b => w = a
    BY <1>3
  <2>. QED BY <1>2, <1>4, <2>1, <2>2 DEF Belongs
<1>7. \A i \in Opens(evtQ') :
         (\E j \in Opens(evtQ) : evtQ'[i] = evtQ[j]) \/ evtQ'[i] = ConCompl(a, b)
  BY <1>1, Queues, AddsLastEvents
<1>. QED BY <1>1, <1>5, <1>6, <1>7, ClaimsNew DEF HostCalm

LEMMA MirrorsNow ==
    ASSUME Resets, Mirrors, hung = "no", ~host.resetting
    PROVE  /\ ~dongle.reset
           /\ \A h \in Phys : Agrees(dongle.evts, WithPhys(hci, h), dongle.link[h], h)
BY DEF Resets, Mirrors

\* No event is left of a handle that the dongle may use again.
LEMMA FreeHandle ==
    ASSUME TypeInv, NEW h \in FreePhys
    PROVE  dongle.link[h] = Nobody /\ ClosesOf(dongle.evts, h) = {}
<1>1. /\ dongle.link[h] = Nobody
      /\ \A i \in DOMAIN dongle.evts : dongle.evts[i] # DisconCompl(h)
  BY DEF FreePhys
<1>2. ASSUME NEW i \in ClosesOf(dongle.evts, h) PROVE FALSE
  <2>1. /\ i \in 1..Len(dongle.evts) /\ DOMAIN dongle.evts = 1..Len(dongle.evts)
        /\ dongle.evts[i].type = "discon_compl" /\ dongle.evts[i].handle = h
    BY Queues, QueueLen DEF ClosesOf
  <2>2. dongle.evts[i] \in DongleEvents
    BY <2>1 DEF TypeInv, DongleRec
  <2>. QED BY <1>1, <2>1, <2>2, EventKinds
<1>. QED BY <1>1, <1>2

LEMMA OpeningFacts ==
    ASSUME TypeInv, Resets, Mirrors, hung = "no",
           NEW h \in Phys, NEW p \in Reals, Opening(h, p)
    PROVE  /\ WithPhys(hci, h) = {}
           /\ Agrees(dongle'.evts, {}, p, h)
           /\ dongle'.link = [dongle.link EXCEPT ![h] = p]
           /\ dongle'.evts = Append(dongle.evts, ConCompl(p, h))
           /\ dongle'.reset = dongle.reset
<1>1. /\ dongle'.link = [dongle.link EXCEPT ![h] = p]
      /\ dongle'.evts = Append(dongle.evts, ConCompl(p, h))
      /\ dongle'.reset = dongle.reset
  BY DEF Opening, Links
<1>2. dongle.link[h] = Nobody /\ ClosesOf(dongle.evts, h) = {}
  BY FreeHandle DEF Opening
<1>3. Agrees(dongle.evts, WithPhys(hci, h), Nobody, h)
  BY <1>2, MirrorsNow DEF Opening
<1>4. p # Nobody
  BY CoreAssumption
<1> DEFINE q == dongle.evts
           T == WithPhys(hci, h)
<1>5. Queue(q)
  BY Queues
<1> HIDE DEF q, T
<1>6. T = {} /\ Agrees(Append(q, ConCompl(p, h)), T, p, h)
  BY <1>2, <1>3, <1>4, <1>5, AgreesOpening DEF q, T
<1>. QED BY <1>1, <1>6 DEF q, T

LEMMA MapsFacts ==
    ASSUME TypeInv, Resets, Mirrors, hung = "no", ~host.resetting,
           NEW e \in DongleEvents, Tracking(e), Maps(e), NEW i
    PROVE  /\ WithPhys(hci, e.handle) = {}
           /\ dongle.link[e.handle] \in {e.peer, Nobody}
           /\ Agrees(dongle'.evts, {i}, dongle.link[e.handle], e.handle)
<1> DEFINE q == dongle.evts
           h == e.handle
           T == WithPhys(hci, h)
           l == dongle.link[h]
<1>1. /\ q # <<>> /\ e = Head(q) /\ dongle'.evts = Tail(q) /\ e.type = "con_compl"
      /\ h \in Phys /\ Queue(q)
  BY EventKinds, Queues DEF Tracking, Maps
<1>2. Agrees(q, T, l, h)
  BY <1>1, MirrorsNow
<1> HIDE DEF q, h, T, l
<1>3. /\ T = {} /\ l \in {Head(q).peer, Nobody}
      /\ Agrees(Tail(q), {i}, l, h)
  BY <1>1, <1>2, AgreesMapped DEF h
<1>. QED BY <1>1, <1>3 DEF q, h, T, l

LEMMA ClaimsReading ==
    ASSUME TypeInv, Resets, Cleared, Claims, Reading
    PROVE  Claims'
<1> DEFINE e == Head(evtQ)
           q == Tail(evtQ)
<1>1. /\ wm' = wm /\ hci' = hci /\ dongle' = dongle /\ evtQ # <<>> /\ evtQ' = q
      /\ Learns(e) \/ Restarts(e) \/ HostCalm
  BY DEF Reading
<1>2. Widens
  BY <1>1 DEF Widens, Joined, Valid
<1>3. /\ \A i \in Opens(q) : i \in Nat /\ i + 1 \in Opens(evtQ) /\ q[i] = evtQ[i + 1]
      /\ e.type = "con_compl" => 1 \in Opens(evtQ) /\ e = evtQ[1]
      /\ e.type = "reset_compl" => 1 \in Ends(evtQ)
      /\ \A i \in Opens(evtQ) : ~(i < 1)
  BY <1>1, Queues, TailOpens
<1> HIDE DEF e, q
<1>4. \A i \in Opens(evtQ') : \E j \in Opens(evtQ) : evtQ'[i] = evtQ[j]
  BY <1>1, <1>3
<1>5. CASE Learns(e)
  <2>1. ~host.resetting /\ e.type = "con_compl"
        /\ \A v \in VirtHandles :
              host'.con[v].peer = IF v = e.handle THEN e.peer ELSE host.con[v].peer
    BY <1>5 DEF Learns
  <2>2. ASSUME NEW p, NEW v, Told(p, v)' PROVE Told(p, v)
    <3>1. CASE v \in VirtHandles /\ Known(v)' /\ host'.con[v].peer = p
      <4>1. CASE v = e.handle
        <5>1. p = e.peer
          BY <2>1, <3>1, <4>1
        <5>. QED BY <1>3, <2>1, <4>1, <5>1 DEF Told
      <4>2. CASE v # e.handle
        BY <2>1, <3>1, <4>2 DEF Known, Told
      <4>. QED BY <4>1, <4>2
    <3>2. CASE \E i \in Opens(evtQ') : evtQ'[i].peer = p /\ evtQ'[i].handle = v
      BY <1>4, <3>2 DEF Told
    <3>. QED BY <2>2, <3>1, <3>2 DEF Told
  <2>. QED BY <1>2, <2>1, <2>2, ClaimsKept
<1>6. CASE Restarts(e)
  <2>1. 1 \in Ends(evtQ) /\ host'.con = host.con
    BY <1>3, <1>6 DEF Restarts
  <2>2. host.resetting
    BY <2>1 DEF Resets
  <2>3. Opens(evtQ) = {}
    BY <1>3, <2>1, <2>2 DEF Cleared
  <2>4. Opens(evtQ') = {}
    BY <1>4, <2>3
  <2>5. \A v \in VirtHandles : ~Known(v)'
    BY <2>1, <2>2 DEF Cleared, Known
  <2>. QED BY <2>4, <2>5 DEF Claims, Told
<1>7. CASE HostCalm
  <2>1. CASE host.resetting
    BY <1>7, <2>1 DEF HostCalm, Claims
  <2>2. CASE ~host.resetting
    <3> DEFINE N == {}
    <3>1. \A x \in N : FALSE
      OBVIOUS
    <3> HIDE DEF N
    <3>2. \A p, v : Told(p, v)' => Told(p, v) \/ \E x \in N : x.peer = p /\ x.handle = v
      BY <1>4, <1>7, Tells DEF HostCalm
    <3>. QED BY <1>2, <2>2, <3>1, <3>2, ClaimsKept
  <2>. QED BY <2>1, <2>2
<1>. QED BY <1>1, <1>5, <1>6, <1>7

LEMMA ClaimsTracking ==
    ASSUME TypeInv, HandlesLeft, Handles, Resets, Claims, Mirrors, hung = "no",
           NEW e \in DongleEvents, Tracking(e)
    PROVE  Claims'
<1>1. /\ host' = host /\ HostCalm /\ dongle'.link = dongle.link
      /\ Forgets(host.con, host'.con)
  BY HostEffects, ForgetsNothing DEF Tracking, TypeInv
<1>2. CASE host.resetting
  BY <1>1, <1>2 DEF Claims
<1>3. CASE ~host.resetting /\ Maps(e)
  <2> DEFINE a == e.peer
  <2>1. PICK b : b = hci.last
    OBVIOUS
  <2>2. /\ hci'.last = b + 1 /\ wm' = wm
        /\ evtQ' = evtQ \/ evtQ' = Append(evtQ, ConCompl(a, b))
    BY <1>3, <2>1, MapsEffect
  <2>3. PICK i \in Entries : Rewrites(hci, hci', i, Mapped(e.handle, b))
    BY <1>3, <2>1, MapsEffect
  <2>4. b \in Nat /\ b \in VirtHandles
    BY <2>1, LastNat DEF TypeInv, HciRec
  <2>5. hci'.table[i].phys = e.handle /\ Virt(i)' = b
    BY <2>3 DEF Rewrites, Mapped, Virt
  <2>6. \A j \in Entries : j # i => hci'.table[j] = hci.table[j]
    BY <2>3 DEF Rewrites
  <2>7. Widens
    BY <1>1, <2>1, <2>2, <2>5, <2>6 DEF Widens, Joined, Valid
  <2>8. \A w \in Wiimotes : ~(Joined(w)' /\ wm'[w].handle = b)
    <3>1. \A w \in Wiimotes : Joined(w) => wm[w].handle # b
      BY <2>1, LastNat DEF Handles
    <3>. QED BY <2>2, <3>1 DEF Joined
  <2>9. \A j \in Entries : Valid(j)' /\ Virt(j)' = b => j = i
    <3>1. \A j \in Entries : Valid(j) => Virt(j) # b
      BY <2>1, LastNat DEF Handles
    <3>. QED BY <2>6, <3>1 DEF Valid, Virt
  <2>10. dongle.link[e.handle] \in {a, Nobody}
    BY <1>3, MapsFacts
  <2>11. Belongs(a, b)'
    <3>1. b < hci'.last
      BY <2>2, <2>4
    <3>2. \A j \in Entries : Valid(j)' /\ Virt(j)' = b
                               => dongle'.link[hci'.table[j].phys] \in {a, Nobody}
      BY <1>1, <2>5, <2>9, <2>10
    <3>. QED BY <2>4, <2>8, <3>1, <3>2 DEF Belongs
  <2>12. \A j \in Opens(evtQ') :
            (\E k \in Opens(evtQ) : evtQ'[j] = evtQ[k]) \/ evtQ'[j] = ConCompl(a, b)
    <3>1. CASE evtQ' = evtQ
      BY <3>1
    <3>2. CASE evtQ' = Append(evtQ, ConCompl(a, b))
      <4> DEFINE x == ConCompl(a, b)
                 r == Append(evtQ, x)
      <4>1. \A j \in Opens(r) : (j \in Opens(evtQ) /\ r[j] = evtQ[j])
                                \/ (x.type = "con_compl" /\ r[j] = x)
        <5> HIDE DEF x
        <5>. QED BY Queues, AppendOpens
      <4>2. evtQ' = r
        BY <3>2
      <4> HIDE DEF x, r
      <4>3. \A j \in Opens(evtQ') : (j \in Opens(evtQ) /\ evtQ'[j] = evtQ[j]) \/ evtQ'[j] = x
        BY <4>1, <4>2
      <4>. QED BY <4>3 DEF x
    <3>. QED BY <2>2, <3>1, <3>2
  <2> HIDE DEF a
  <2>. QED BY <1>1, <1>3, <2>7, <2>11, <2>12, ClaimsNew
<1>4. CASE ~host.resetting /\ (Unmaps(e) \/ Finishes(e))
  <2>1. /\ hci'.last = hci.last /\ wm' = wm
        /\ \A i \in Entries : Valid(i)' => Valid(i) /\ hci'.table[i] = hci.table[i]
    <3>1. CASE Unmaps(e)
      <4>1. hci'.last = hci.last /\ wm' = wm
        BY <3>1, UnmapsEffect
      <4>2. PICK i \in Entries : Rewrites(hci, hci', i, Unmapped)
        BY <3>1, UnmapsEffect DEF WithPhys
      <4>. QED BY <4>1, <4>2 DEF Rewrites, Unmapped, Valid
    <3>2. CASE Finishes(e)
      BY <3>2 DEF Finishes, Tracks, Valid
    <3>. QED BY <1>4, <3>1, <3>2
  <2>2. Widens
    BY <1>1, <2>1 DEF Widens, Joined
  <2>3. \A i \in Opens(evtQ') : \E j \in Opens(evtQ) : evtQ'[i] = evtQ[j]
    <3>1. CASE evtQ' = evtQ
      BY <3>1
    <3>2. ASSUME NEW x, x.type # "con_compl", evtQ' = Append(evtQ, x)
          PROVE  \A i \in Opens(evtQ') : \E j \in Opens(evtQ) : evtQ'[i] = evtQ[j]
      BY <3>2, Queues, AppendOpens
    <3>3. CASE Unmaps(e)
      <4>1. PICK v : evtQ' = evtQ \/ evtQ' = Append(evtQ, DisconCompl(v))
        BY <3>3, UnmapsEffect
      <4>2. DisconCompl(v).type # "con_compl"
        BY DEF DisconCompl
      <4>. QED BY <3>1, <3>2, <4>1, <4>2
    <3>4. CASE Finishes(e)
      <4>1. (evtQ' = evtQ \/ evtQ' = Append(evtQ, e)) /\ e.type # "con_compl"
        BY <3>4 DEF Finishes, Tracks
      <4>. QED BY <3>1, <3>2, <4>1
    <3>. QED BY <1>4, <3>3, <3>4
  <2> DEFINE N == {}
  <2>4. \A x \in N : FALSE
    OBVIOUS
  <2> HIDE DEF N
  <2>5. \A p, v : Told(p, v)' => Told(p, v) \/ \E x \in N : x.peer = p /\ x.handle = v
    BY <1>1, <2>3, Tells
  <2>. QED BY <1>4, <2>2, <2>4, <2>5, ClaimsKept
<1>5. CASE Passes(e)
  BY <1>1, <1>5, ShedCalm, ClaimsCalm DEF Passes
<1>. QED BY <1>2, <1>3, <1>4, <1>5 DEF Tracking

LEMMA ClaimsStep ==
    ASSUME TypeInv, HandlesLeft, Full, hung = "no", AStep
    PROVE  Claims'
<1>0. Handles /\ Resets /\ Cleared /\ Claims /\ Mirrors
  BY DEF Full
<1>1. CASE CalmStep
  BY <1>0, <1>1, ClaimsCalm DEF CalmStep, DongleCalm
<1>2. ASSUME NEW h \in Phys, Closing(h) PROVE Claims'
  <2>1. dongle'.link = [dongle.link EXCEPT ![h] = Nobody] /\ dongle.link \in [Phys -> Reals \cup {Nobody}]
    BY <1>2 DEF Closing, Links, TypeInv, DongleRec
  <2>2. \A i \in Entries : Valid(i) => hci.table[i].phys \in Phys
    BY LastNat
  <2>3. \A i \in Entries : Valid(i) => dongle'.link[hci.table[i].phys]
                                          \in {dongle.link[hci.table[i].phys], Nobody}
    BY <2>1, <2>2
  <2>. QED BY <1>0, <1>2, <2>3, ClaimsCalm DEF Closing
<1>3. ASSUME NEW h \in Phys, NEW p \in Reals, Opening(h, p) PROVE Claims'
  <2>1. /\ dongle'.link = [dongle.link EXCEPT ![h] = p]
        /\ dongle.link \in [Phys -> Reals \cup {Nobody}] /\ WithPhys(hci, h) = {}
    BY <1>0, <1>3, OpeningFacts DEF TypeInv, DongleRec
  <2>2. \A i \in Entries : Valid(i) => hci.table[i].phys \in Phys /\ hci.table[i].phys # h
    BY <2>1, LastNat DEF WithPhys, Valid
  <2>3. \A i \in Entries : Valid(i) => dongle'.link[hci.table[i].phys]
                                          \in {dongle.link[hci.table[i].phys], Nobody}
    BY <2>1, <2>2
  <2>. QED BY <1>0, <1>3, <2>3, ClaimsCalm DEF Opening
<1>4. ASSUME NEW p \in Wiimotes, Accepting(p) PROVE Claims'
  BY <1>0, <1>4, ClaimsAccepting
<1>5. CASE Forgetting
  BY <1>5 DEF Forgetting, Claims
<1>6. CASE Performing
  BY <1>0, <1>6 DEF Performing, DongleReset, Resets, Claims
<1>7. CASE Reading
  BY <1>0, <1>7, ClaimsReading
<1>8. ASSUME NEW e \in DongleEvents, Tracking(e) PROVE Claims'
  BY <1>0, <1>8, ClaimsTracking
<1>. QED BY <1>1, <1>2, <1>3, <1>4, <1>5, <1>6, <1>7, <1>8 DEF AStep

LEMMA MirrorsCalm ==
    ASSUME TypeInv, Mirrors, hung = "no", ModuleCalm, DongleCalm
    PROVE  Mirrors'
<1> SUFFICES ASSUME ~dongle'.reset, NEW h \in Phys
             PROVE  Agrees(dongle'.evts, WithPhys(hci', h), dongle'.link[h], h)
  BY DEF Mirrors
<1> DEFINE q == dongle.evts
           T == WithPhys(hci, h)
           l == dongle.link[h]
<1>1. Agrees(q, T, l, h) /\ Queue(q)
  BY Queues DEF DongleCalm, Mirrors
<1>2. WithPhys(hci', h) = T /\ dongle'.link[h] = l
  BY DEF ModuleCalm, DongleCalm, WithPhys
<1>3. dongle'.evts = q \/ \E e \in DongleEvents : Ordinary(e) /\ dongle'.evts = Append(q, e)
  BY DEF DongleCalm
<1>4. \A e : Ordinary(e) => Elsewhere(e, h)
  BY DEF Ordinary, Elsewhere
<1> HIDE DEF q, T, l
<1>. QED BY <1>1, <1>2, <1>3, <1>4, AgreesAppend

LEMMA MirrorsClosing ==
    ASSUME TypeInv, Mirrors, hung = "no", NEW g \in Phys, Closing(g)
    PROVE  Mirrors'
<1> SUFFICES ASSUME ~dongle'.reset, NEW h \in Phys
             PROVE  Agrees(dongle'.evts, WithPhys(hci', h), dongle'.link[h], h)
  BY DEF Mirrors
<1> DEFINE q == dongle.evts
           T == WithPhys(hci, h)
           l == dongle.link[h]
           e == DisconCompl(g)
<1>1. /\ dongle'.evts = Append(q, e) /\ dongle'.reset = dongle.reset
      /\ dongle'.link = [dongle.link EXCEPT ![g] = Nobody]
      /\ dongle.link \in [Phys -> Reals \cup {Nobody}] /\ dongle.link[g] # Nobody
  BY DEF Closing, Links, TypeInv, DongleRec
<1>2. Agrees(q, T, l, h) /\ Queue(q)
  BY <1>1, Queues DEF Mirrors
<1>3. WithPhys(hci', h) = T
  BY DEF Closing, ModuleCalm, WithPhys
<1>4. e.handle = g
  BY DEF DisconCompl
<1>5. CASE h = g
  <2>1. dongle'.link[h] = Nobody /\ l # Nobody
    BY <1>1, <1>5
  <2> HIDE DEF q, T, l
  <2>2. Agrees(Append(q, DisconCompl(h)), T, Nobody, h)
    BY <1>2, <2>1, AgreesClosing
  <2>. QED BY <1>1, <1>3, <1>5, <2>1, <2>2
<1>6. CASE h # g
  <2>1. dongle'.link[h] = l /\ Elsewhere(e, h)
    BY <1>1, <1>4, <1>6 DEF Elsewhere
  <2> HIDE DEF q, T, l, e
  <2>2. Agrees(Append(q, e), T, l, h)
    BY <1>2, <2>1, AgreesAppend
  <2>. QED BY <1>1, <1>3, <2>1, <2>2
<1>. QED BY <1>5, <1>6

LEMMA MirrorsOpening ==
    ASSUME TypeInv, Resets, Mirrors, hung = "no",
           NEW g \in Phys, NEW p \in Reals, Opening(g, p)
    PROVE  Mirrors'
<1> SUFFICES ASSUME ~dongle'.reset, NEW h \in Phys
             PROVE  Agrees(dongle'.evts, WithPhys(hci', h), dongle'.link[h], h)
  BY DEF Mirrors
<1> DEFINE q == dongle.evts
           T == WithPhys(hci, h)
           l == dongle.link[h]
           e == ConCompl(p, g)
<1>1. /\ WithPhys(hci, g) = {}
      /\ Agrees(dongle'.evts, {}, p, g)
      /\ dongle'.link = [dongle.link EXCEPT ![g] = p]
      /\ dongle'.evts = Append(q, e) /\ dongle'.reset = dongle.reset
      /\ dongle.link \in [Phys -> Reals \cup {Nobody}]
  BY OpeningFacts DEF TypeInv, DongleRec
<1>2. Agrees(q, T, l, h) /\ Queue(q)
  BY <1>1, Queues DEF Mirrors
<1>3. WithPhys(hci', h) = T
  BY DEF Opening, ModuleCalm, WithPhys
<1>4. e.handle = g
  BY DEF ConCompl
<1>5. CASE h = g
  BY <1>1, <1>3, <1>5
<1>6. CASE h # g
  <2>1. dongle'.link[h] = l /\ Elsewhere(e, h)
    BY <1>1, <1>4, <1>6 DEF Elsewhere
  <2> HIDE DEF q, T, l, e
  <2>2. Agrees(Append(q, e), T, l, h)
    BY <1>2, <2>1, AgreesAppend
  <2>. QED BY <1>1, <1>3, <2>1, <2>2
<1>. QED BY <1>5, <1>6

LEMMA MirrorsPerforming ==
    ASSUME TypeInv, Resets, Cleared, Performing
    PROVE  Mirrors'
<1> SUFFICES ASSUME NEW h \in Phys
             PROVE  Agrees(dongle'.evts, WithPhys(hci', h), dongle'.link[h], h)
  BY DEF Mirrors
<1> DEFINE e == ResetCompl
           q == <<e>>
<1>1. /\ dongle'.evts = q /\ dongle'.link[h] = Nobody /\ hci' = hci /\ dongle.reset
  BY DEF Performing, DongleReset, module
<1>2. WithPhys(hci', h) = {}
  BY <1>1 DEF Resets, Cleared, WithPhys, Valid
<1>3. Len(q) = 1 /\ q[1] = e
  BY Zenon, SMT
<1>4. e.type = "reset_compl"
  BY DEF ResetCompl
<1> HIDE DEF e, q
<1>5. OpensOf(q, h) = {} /\ ClosesOf(q, h) = {}
  BY <1>3, <1>4 DEF OpensOf, ClosesOf
<1>. QED BY <1>1, <1>2, <1>5, AgreesNothing

LEMMA MirrorsTracking ==
    ASSUME TypeInv, HandlesLeft, Handles, Resets, Cleared, Mirrors, ResetQuiet,
           hung = "no", NEW e \in DongleEvents, Tracking(e)
    PROVE  Mirrors'
<1> SUFFICES ASSUME hung' = "no", ~dongle'.reset, NEW h \in Phys
             PROVE  Agrees(dongle'.evts, WithPhys(hci', h), dongle'.link[h], h)
  BY DEF Mirrors
<1> DEFINE q == dongle.evts
           T == WithPhys(hci, h)
           l == dongle.link[h]
<1>1. /\ q # <<>> /\ e = Head(q) /\ dongle'.evts = Tail(q)
      /\ dongle'.link[h] = l /\ dongle'.reset = dongle.reset
  BY DEF Tracking
<1>2. Agrees(q, T, l, h) /\ Queue(q)
  BY <1>1, Queues DEF Mirrors
<1>3. ASSUME Elsewhere(e, h), WithPhys(hci', h) = T
      PROVE  Agrees(dongle'.evts, WithPhys(hci', h), dongle'.link[h], h)
  <2> HIDE DEF q, T, l
  <2>1. Agrees(Tail(q), T, l, h)
    BY <1>1, <1>2, <1>3, AgreesTail
  <2>. QED BY <1>1, <1>3, <2>1
<1>4. CASE Maps(e)
  <2>1. PICK i \in Entries : ~Valid(i) /\ Rewrites(hci, hci', i, Mapped(e.handle, hci.last))
    BY <1>4, MapsEffect
  <2>2. /\ hci'.table[i].valid /\ hci'.table[i].phys = e.handle
        /\ \A j \in Entries : j # i => hci'.table[j] = hci.table[j]
    BY <2>1 DEF Rewrites, Mapped
  <2>3. CASE e.handle = h
    <3>1. ~host.resetting
      BY <1>1, <1>4 DEF Maps, ResetQuiet
    <3>2. T = {} /\ Agrees(dongle'.evts, {i}, l, h)
      BY <1>4, <2>3, <3>1, MapsFacts
    <3>3. WithPhys(hci', h) = {i}
      BY <2>1, <2>2, <2>3, <3>2 DEF WithPhys
    <3>. QED BY <1>1, <3>2, <3>3
  <2>4. CASE e.handle # h
    <3>1. WithPhys(hci', h) = T
      BY <2>1, <2>2, <2>4 DEF WithPhys, Valid
    <3>. QED BY <1>3, <2>4, <3>1 DEF Elsewhere
  <2>. QED BY <2>3, <2>4
<1>5. CASE Unmaps(e)
  <2>1. PICK i \in WithPhys(hci, e.handle) : Rewrites(hci, hci', i, Unmapped)
    BY <1>5, UnmapsEffect
  <2>2. /\ i \in Entries /\ hci.table[i].phys = e.handle /\ ~hci'.table[i].valid
        /\ \A j \in Entries : j # i => hci'.table[j] = hci.table[j]
    BY <2>1 DEF Rewrites, Unmapped, WithPhys
  <2>3. CASE e.handle = h
    <3>1. Head(q).type = "discon_compl" /\ Head(q).handle = h
      BY <1>1, <1>5, <2>3 DEF Unmaps
    <3>2. WithPhys(hci', h) = {}
      <4>1. \A j \in T : j = i
        BY <1>2, <2>1, <2>3 DEF Agrees
      <4>. QED BY <2>2, <4>1 DEF WithPhys
    <3> HIDE DEF q, T, l
    <3>3. Agrees(Tail(q), {}, l, h)
      BY <1>1, <1>2, <3>1, AgreesUnmapped
    <3>. QED BY <1>1, <3>2, <3>3
  <2>4. CASE e.handle # h
    <3>1. WithPhys(hci', h) = T
      BY <2>2, <2>4 DEF WithPhys
    <3>. QED BY <1>3, <2>4, <3>1 DEF Elsewhere
  <2>. QED BY <2>3, <2>4
<1>6. CASE Passes(e)
  <2>1. Elsewhere(e, h)
    BY <1>6 DEF Passes, Elsewhere
  <2>2. WithPhys(hci', h) = T
    BY <1>6, ShedCalm DEF Passes, ModuleCalm, WithPhys
  <2>. QED BY <1>3, <2>1, <2>2
<1>7. CASE Finishes(e)
  <2>1. Elsewhere(e, h) /\ WithPhys(hci', h) = T
    BY <1>7 DEF Finishes, Tracks, Elsewhere
  <2>. QED BY <1>3, <2>1
<1>. QED BY <1>4, <1>5, <1>6, <1>7 DEF Tracking

LEMMA MirrorsStep ==
    ASSUME TypeInv, HandlesLeft, ResetQuiet, Full, hung = "no", AStep
    PROVE  Mirrors'
<1>0. Handles /\ Resets /\ Cleared /\ Claims /\ Mirrors
  BY DEF Full
<1>1. CASE CalmStep
  BY <1>0, <1>1, MirrorsCalm DEF CalmStep
<1>2. ASSUME NEW h \in Phys, Closing(h) PROVE Mirrors'
  BY <1>0, <1>2, MirrorsClosing
<1>3. ASSUME NEW h \in Phys, NEW p \in Reals, Opening(h, p) PROVE Mirrors'
  BY <1>0, <1>3, MirrorsOpening
<1>4. ASSUME NEW p \in Wiimotes, Accepting(p) PROVE Mirrors'
  <2>1. dongle' = dongle /\ hci'.table = hci.table
    BY <1>4, AllocType DEF Accepting, Accepts, TypeInv
  <2>. QED BY <1>0, <2>1 DEF Mirrors, WithPhys
<1>5. CASE Forgetting
  <2>1. dongle'.reset
    BY <1>5, DongleOther DEF Forgetting, TypeInv
  <2>. QED BY <2>1 DEF Mirrors
<1>6. CASE Performing
  BY <1>0, <1>6, MirrorsPerforming
<1>7. CASE Reading
  BY <1>0, <1>7 DEF Reading, Mirrors
<1>8. ASSUME NEW e \in DongleEvents, Tracking(e) PROVE Mirrors'
  BY <1>0, <1>8, MirrorsTracking
<1>. QED BY <1>1, <1>2, <1>3, <1>4, <1>5, <1>6, <1>7, <1>8 DEF AStep

LEMMA FullInit ==
    ASSUME Init
    PROVE  Full
<1> DEFINE q == <<>>
<1>1. Len(q) = 0
  OBVIOUS
<1>2. evtQ = q /\ dongle.evts = q /\ ~dongle.reset /\ ~host.resetting
  BY DEF Init
<1>3. /\ \A v \in VirtHandles : ~Known(v)
      /\ \A h \in Phys : dongle.link[h] = Nobody /\ WithPhys(hci, h) = {}
  BY DEF Init, NoCon, Known, HciReset, Unmapped, WithPhys
<1> HIDE DEF q
<1>4. /\ Ends(q) = {} /\ Opens(q) = {}
      /\ \A h : OpensOf(q, h) = {} /\ ClosesOf(q, h) = {}
  BY <1>1 DEF Ends, Opens, OpensOf, ClosesOf
<1>5. Resets /\ Cleared
  BY <1>2, <1>4 DEF Resets, Cleared
<1>6. Claims
  BY <1>2, <1>3, <1>4 DEF Claims, Told
<1>7. Mirrors
  BY <1>2, <1>3, <1>4, AgreesNothing DEF Mirrors
<1>. QED BY <1>5, <1>6, <1>7, HandlesInit DEF Full

LEMMA FullCorrect == Spec /\ []HandlesLeft /\ []ResetQuiet => []Full
<1>1. Init => Full
  BY FullInit
<1>2. TypeInv /\ HandlesLeft /\ ResetQuiet /\ Full /\ [Next]_vars => Full'
  <2>1. ASSUME TypeInv, HandlesLeft, ResetQuiet, Full, Next PROVE Full'
    <3>1. AStep /\ hung = "no"
      BY <2>1, StepKind DEF Next
    <3>2. Handles' /\ Resets' /\ Cleared'
      BY <2>1, <3>1, HandlesStep, ResetsStep, ClearedStep DEF Full
    <3>. QED BY <2>1, <3>1, <3>2, ClaimsStep, MirrorsStep DEF Full
  <2>2. ASSUME Full, UNCHANGED vars PROVE Full'
    <3>1. Handles' /\ Resets' /\ Cleared' /\ Mirrors'
      BY <2>2 DEF Full, vars, Handles, Resets, Cleared, Mirrors, Joined, Valid, Virt, Known
    <3>2. Claims'
      BY <2>2 DEF Full, vars, Claims, Told, Belongs, Joined, Valid, Virt, Known
    <3>. QED BY <3>1, <3>2 DEF Full
  <2>. QED BY <2>1, <2>2
<1>. QED BY <1>1, <1>2, TypeCorrect, PTL DEF Spec

LEMMA FullMirrors ==
    ASSUME TypeInv, Full
    PROVE  TableMirrorsDongle
<1> SUFFICES ASSUME hung = "no", ~dongle.reset, NEW h \in Phys
             PROVE  /\ Cardinality(WithPhys(hci, h)) <= 1
                    /\ WithPhys(hci, h) # {} => \/ dongle.link[h] # Nobody
                                                \/ InEvts(DisconCompl(h))
                    /\ dongle.link[h] # Nobody => \/ WithPhys(hci, h) # {}
                                                  \/ InEvts(ConCompl(dongle.link[h], h))
  BY DEF TableMirrorsDongle
<1> DEFINE q == dongle.evts
           T == WithPhys(hci, h)
           l == dongle.link[h]
<1>1. Agrees(q, T, l, h)
  BY DEF Full, Mirrors
<1>2. Cardinality(T) <= 1
  <2>1. \A i, j \in T : i = j
    BY <1>1 DEF Agrees
  <2> HIDE DEF T
  <2>. QED BY <2>1, AtMostOne
<1>3. /\ DOMAIN q = 1..Len(q)
      /\ \A i \in 1..Len(q) : q[i] \in DongleEvents
  BY Queues, QueueLen DEF TypeInv, DongleRec
<1>4. ASSUME NEW i \in ClosesOf(q, h) PROVE InEvts(DisconCompl(h))
  <2>1. i \in DOMAIN q /\ q[i] = DisconCompl(h)
    BY <1>3, EventKinds DEF ClosesOf
  <2>. QED BY <2>1 DEF InEvts
<1>5. ASSUME NEW i \in OpensOf(q, h), q[i].peer = l PROVE InEvts(ConCompl(l, h))
  <2>1. i \in DOMAIN q /\ q[i] = ConCompl(l, h)
    BY <1>3, <1>5, EventKinds DEF OpensOf
  <2>. QED BY <2>1 DEF InEvts
<1>6. T # {} /\ l = Nobody => ClosesOf(q, h) # {}
  BY <1>1 DEF Agrees
<1>7. l # Nobody /\ T = {} => \E i \in OpensOf(q, h) : q[i].peer = l
  BY <1>1 DEF Agrees
<1>. QED BY <1>2, <1>4, <1>5, <1>6, <1>7

LEMMA FullRoutes ==
    ASSUME TypeInv, Full
    PROVE  NoMisroute
<1> SUFFICES ASSUME NEW v \in VirtHandles, Known(v)
             PROVE  Receiver(v) \in {host.con[v].peer, Nobody}
  BY DEF NoMisroute
<1> DEFINE p == host.con[v].peer
           fakes == FakesOf(Now, v)
           entries == WithVirt(hci, v)
<1>1. Belongs(p, v)
  <2>1. ~host.resetting
    BY DEF Full, Cleared
  <2>. QED BY <2>1 DEF Full, Claims, Told
<1>2. CASE fakes # {}
  <2>1. Min(fakes) \in fakes
    BY <1>2, FirstFake
  <2>2. \A w \in fakes : w = p
    BY <1>1, JoinedConnected, NowFields DEF FakesOf, Belongs
  <2>3. Receiver(v) = Min(fakes)
    BY <1>2 DEF Receiver
  <2>. QED BY <2>1, <2>2, <2>3
<1>3. CASE fakes = {} /\ entries # {}
  <2>1. Min(entries) \in entries
    BY <1>3, EntriesNat DEF WithVirt
  <2>2. \A i \in entries : dongle.link[hci.table[i].phys] \in {p, Nobody}
    BY <1>1 DEF WithVirt, Belongs, Valid, Virt
  <2>3. Receiver(v) = dongle.link[hci.table[Min(entries)].phys]
    BY <1>3 DEF Receiver, GetPhys
  <2>. QED BY <2>1, <2>2, <2>3
<1>4. CASE fakes = {} /\ entries = {}
  BY <1>4 DEF Receiver
<1>. QED BY <1>2, <1>3, <1>4

\* As long as no connection of before a reset is tracked after the command, and
\* no handle is given out twice, the table of hci_state.c follows the dongle: the
\* handles it maps are those of open connections and of connections whose end the
\* dongle has yet to report, and every open connection is mapped once, or will be.
THEOREM TableFollows == Spec /\ []HandlesLeft /\ []ResetQuiet => []TableMirrorsDongle
<1>. QED BY TypeCorrect, FullCorrect, FullMirrors, PTL

\* Under the same conditions what the host sends on a handle reaches the fake or
\* real Wiimote that it was told is behind that handle, or nobody (the lookups of
\* fake_wiimote_mgr.c, then those of hci_state.c), however late the host learns
\* of the end of a connection, and whatever was reset or given out since.
THEOREM RoutedRight == Spec /\ []HandlesLeft /\ []ResetQuiet => []NoMisroute
<1>. QED BY TypeCorrect, FullCorrect, FullRoutes, PTL

-----------------------------------------------------------------------------
(* What a queue of events credits                                           *)

LEMMA Induct ==
    ASSUME NEW S, 0 \in S, \A n \in Nat : n \in S => n + 1 \in S
    PROVE  Nat \subseteq S
<1> DEFINE bad == Nat \ S
<1>1. SUFFICES ASSUME bad # {} PROVE FALSE
  OBVIOUS
<1>2. PICK x \in bad : \A y \in bad : ~(<<y, x>> \in OpToRel(<, Nat))
  BY <1>1, NatLessThanWellFounded, WFMin
<1>3. /\ x \in Nat /\ x \notin S
      /\ \A y \in bad : ~(y < x)
  BY <1>2, Zenon DEF OpToRel
<1>4. x - 1 \in Nat /\ x - 1 < x /\ (x - 1) + 1 = x
  BY <1>3
<1>5. x - 1 \in S
  BY <1>3, <1>4
<1>. QED BY <1>3, <1>4, <1>5

\* Two sums grow by the same steps, the second from its place k on.
Climb(f, g, d, k, m) ==
    /\ f[0] = 0 /\ g[k] \in Nat /\ d \in [1..m -> Nat]
    /\ \A n \in 1..m : f[n] = f[n - 1] + d[n] /\ g[n + k] = g[n - 1 + k] + d[n]

LEMMA Climbs ==
    ASSUME NEW m \in Nat, NEW k \in Nat, NEW d, NEW f, NEW g, Climb(f, g, d, k, m)
    PROVE  f[m] \in Nat /\ g[m + k] = g[k] + f[m]
<1> DEFINE P(n) == f[n] \in Nat /\ g[n + k] = g[k] + f[n]
           S == {n \in Nat : n <= m => P(n)}
<1>1. P(0)
  <2>1. 0 + k = k
    OBVIOUS
  <2>. QED BY <2>1 DEF Climb
<1>2. ASSUME NEW n \in Nat, P(n), n + 1 <= m
      PROVE  P(n + 1)
  <2> DEFINE j == n + 1
  <2>1. j \in 1..m /\ j - 1 = n
    BY <1>2
  <2> HIDE DEF j
  <2>2. f[j] = f[n] + d[j] /\ g[j + k] = g[n + k] + d[j] /\ d[j] \in Nat
    BY <2>1 DEF Climb
  <2>3. g[k] \in Nat /\ f[n] \in Nat /\ g[n + k] = g[k] + f[n]
    BY <1>2 DEF Climb
  <2>4. P(j)
    BY <2>2, <2>3
  <2>. QED BY <2>4 DEF j
<1>3. Nat \subseteq S
  <2>1. 0 \in S
    BY <1>1
  <2>2. \A n \in Nat : n \in S => n + 1 \in S
    BY <1>2
  <2> HIDE DEF S
  <2>. QED BY <2>1, <2>2, Induct
<1> HIDE DEF P
<1>4. P(m)
  BY <1>3
<1>. QED BY <1>4 DEF P

\* f is the sum of what the first events of q credit for v.
Sums(f, q, v) ==
    f = [n \in 0..Len(q) |-> IF n = 0 THEN 0 ELSE f[n - 1] + Worth(q[n], v)]

LEMMA SumsExist ==
    ASSUME NEW q, NEW v, Len(q) \in Nat
    PROVE  \E f : Sums(f, q, v)
<1> DEFINE Up(n, e) == e + Worth(q[n], v)
           S == {n \in Nat : \E f : f = [k \in 0..n |-> IF k = 0 THEN 0 ELSE Up(k, f[k - 1])]}
<1> HIDE DEF Up
<1>1. 0 \in S
  <2>1. \A k \in 0..0 : k = 0
    OBVIOUS
  <2>2. [k \in 0..0 |-> 0] = [k \in 0..0 |-> IF k = 0 THEN 0 ELSE Up(k, [j \in 0..0 |-> 0][k - 1])]
    BY <2>1
  <2>. QED BY <2>2
<1>2. ASSUME NEW n \in Nat, n \in S
      PROVE  n + 1 \in S
  <2>1. PICK f : f = [k \in 0..n |-> IF k = 0 THEN 0 ELSE Up(k, f[k - 1])]
    BY <1>2
  <2> DEFINE g == [k \in 0..n + 1 |-> IF k \in 0..n THEN f[k] ELSE Up(k, f[n])]
  <2>2. ASSUME NEW k \in 0..n + 1
        PROVE  g[k] = IF k = 0 THEN 0 ELSE Up(k, g[k - 1])
    <3>1. CASE k = 0
      BY <2>1, <3>1
    <3>2. CASE k \in 1..n
      <4>1. k \in 0..n /\ k # 0 /\ k - 1 \in 0..n /\ k - 1 \in 0..n + 1
        BY <3>2
      <4>2. f[k] = Up(k, f[k - 1])
        BY <2>1, <4>1
      <4>3. g[k] = f[k] /\ g[k - 1] = f[k - 1]
        BY <4>1
      <4>. QED BY <4>1, <4>2, <4>3
    <3>3. CASE k = n + 1
      <4>1. k \notin 0..n /\ k # 0 /\ k - 1 = n /\ n \in 0..n /\ n \in 0..n + 1
        BY <3>3
      <4>2. g[k] = Up(k, f[n]) /\ g[n] = f[n]
        BY <4>1
      <4>. QED BY <4>1, <4>2
    <3>4. k = 0 \/ k \in 1..n \/ k = n + 1
      OBVIOUS
    <3>. QED BY <3>1, <3>2, <3>3, <3>4
  <2>3. g = [k \in 0..n + 1 |-> g[k]]
    OBVIOUS
  <2> HIDE DEF g
  <2>4. g = [k \in 0..n + 1 |-> IF k = 0 THEN 0 ELSE Up(k, g[k - 1])]
    BY <2>2, <2>3
  <2>. QED BY <2>4
<1>3. Len(q) \in S
  <2> HIDE DEF S
  <2>. QED BY <1>1, <1>2, Induct
<1>. QED BY <1>3 DEF Sums, Up

LEMMA CreditsSum ==
    ASSUME NEW q, NEW v, Len(q) \in Nat
    PROVE  \E f : /\ f[0] = 0 /\ CreditsIn(q, v) = f[Len(q)]
                  /\ \A n \in 1..Len(q) : f[n] = f[n - 1] + Worth(q[n], v)
<1> DEFINE f == CHOOSE f : Sums(f, q, v)
<1>1. Sums(f, q, v)
  BY SumsExist, Zenon
<1>2. CreditsIn(q, v) = f[Len(q)]
  BY Zenon DEF CreditsIn, Sums
<1> HIDE DEF f
<1>3. f[0] = 0
  BY <1>1 DEF Sums
<1>4. \A n \in 1..Len(q) : f[n] = f[n - 1] + Worth(q[n], v)
  BY <1>1 DEF Sums
<1>. QED BY <1>2, <1>3, <1>4

\* Every event of a queue credits some number of packets.
Counts(q, v) == \A i \in 1..Len(q) : Worth(q[i], v) \in Nat

LEMMA CreditsNone ==
    ASSUME NEW q, NEW v, Len(q) \in Nat, \A i \in 1..Len(q) : Worth(q[i], v) = 0
    PROVE  CreditsIn(q, v) = 0
<1> DEFINE m == Len(q)
           d == [n \in 1..m |-> 0]
           g == [n \in 0..m |-> 0]
<1>1. PICK f : /\ f[0] = 0 /\ CreditsIn(q, v) = f[m]
               /\ \A n \in 1..m : f[n] = f[n - 1] + Worth(q[n], v)
  BY CreditsSum
<1>2. \A n \in 1..m : n - 1 \in 0..m /\ n \in 0..m /\ n + 0 = n /\ n - 1 + 0 = n - 1
  OBVIOUS
<1>3. Climb(f, g, d, 0, m)
  BY <1>1, <1>2 DEF Climb
<1>4. m \in Nat /\ 0 \in Nat /\ m + 0 = m /\ g[0] = 0 /\ g[m] = 0
  OBVIOUS
<1> HIDE DEF d, g, m
<1>5. f[m] \in Nat /\ g[m + 0] = g[0] + f[m]
  BY <1>3, <1>4, Climbs
<1>. QED BY <1>1, <1>4, <1>5

\* Events behind a queue add what they credit.
LEMMA CreditsGrown ==
    ASSUME NEW q, NEW r, NEW v, Len(q) \in Nat, Len(r) \in Nat, Len(q) <= Len(r),
           Counts(q, v), \A i \in 1..Len(q) : r[i] = q[i]
    PROVE  /\ CreditsIn(q, v) \in Nat
           /\ (\A i \in 1..Len(r) : i > Len(q) => Worth(r[i], v) = 0)
                 => CreditsIn(r, v) = CreditsIn(q, v)
           /\ Len(r) = Len(q) + 1 /\ Worth(r[Len(r)], v) \in Nat
                 => CreditsIn(r, v) = CreditsIn(q, v) + Worth(r[Len(r)], v)
<1> DEFINE m == Len(q)
           k == Len(r)
           d == [n \in 1..m |-> Worth(q[n], v)]
<1>1. PICK f : /\ f[0] = 0 /\ CreditsIn(q, v) = f[m]
               /\ \A n \in 1..m : f[n] = f[n - 1] + Worth(q[n], v)
  BY CreditsSum
<1>2. PICK g : /\ g[0] = 0 /\ CreditsIn(r, v) = g[k]
               /\ \A n \in 1..k : g[n] = g[n - 1] + Worth(r[n], v)
  BY CreditsSum
<1>3. m \in Nat /\ k \in Nat /\ m <= k /\ m \in 0..m /\ m + 0 = m
  OBVIOUS
<1>4. d \in [1..m -> Nat] /\ \A n \in 1..m : d[n] = Worth(q[n], v)
  BY DEF Counts
<1>5. \A n \in 1..m : /\ n \in 1..k /\ n + 0 = n /\ n - 1 + 0 = n - 1
                      /\ r[n] = q[n]
  BY <1>3
<1> HIDE DEF m, k, d
<1>6. Climb(f, g, d, 0, m)
  BY <1>1, <1>2, <1>4, <1>5 DEF Climb
<1>7. f[m] \in Nat /\ g[m + 0] = g[0] + f[m]
  <2>1. m \in Nat /\ 0 \in Nat
    BY <1>3
  <2>. QED BY <1>6, <2>1, Climbs
<1>8. f[m] \in Nat /\ g[m] = f[m]
  BY <1>2, <1>3, <1>7
<1>9. ASSUME \A i \in 1..k : i > m => Worth(r[i], v) = 0
      PROVE  g[k] = g[m]
  <2> DEFINE l == k - m
             z == [n \in 0..l |-> 0]
             c == [n \in 1..l |-> 0]
  <2>1. l \in Nat /\ l \in 0..l /\ l + m = k /\ z[0] = 0 /\ z[l] = 0
    BY <1>3
  <2>2. \A n \in 1..l :
           /\ n + m \in 1..k /\ n + m > m /\ n - 1 + m = (n + m) - 1
           /\ n - 1 \in 0..l /\ n \in 0..l
    BY <1>3
  <2>3. \A n \in 1..l : z[n] = 0 /\ z[n - 1] = 0 /\ c[n] = 0
    BY <2>2
  <2>4. c \in [1..l -> Nat]
    OBVIOUS
  <2>5. \A n \in 1..l : g[n + m] = g[(n + m) - 1] + 0
    BY <1>2, <1>9, <2>2
  <2> HIDE DEF l, z, c
  <2>6. Climb(z, g, c, m, l)
    BY <1>8, <2>1, <2>2, <2>3, <2>4, <2>5 DEF Climb
  <2>7. g[l + m] = g[m] + z[l]
    BY <1>3, <2>1, <2>6, Climbs
  <2>. QED BY <1>8, <2>1, <2>7
<1>10. ASSUME k = m + 1
       PROVE  g[k] = g[m] + Worth(r[k], v)
  <2>1. k \in 1..k /\ k - 1 = m
    BY <1>3, <1>10
  <2>. QED BY <1>2, <2>1
<1>. QED BY <1>1, <1>2, <1>8, <1>9, <1>10 DEF m, k

\* The first event is worth what is lost when it is read.
LEMMA CreditsTail ==
    ASSUME NEW q, NEW r, NEW v, Len(q) \in Nat \ {0}, Len(r) = Len(q) - 1,
           Counts(q, v), \A i \in 1..Len(r) : r[i] = q[i + 1]
    PROVE  /\ CreditsIn(r, v) \in Nat /\ Worth(q[1], v) \in Nat
           /\ CreditsIn(q, v) = Worth(q[1], v) + CreditsIn(r, v)
<1> DEFINE m == Len(r)
           d == [n \in 1..m |-> Worth(r[n], v)]
<1>0. m \in Nat /\ Len(q) = m + 1 /\ m \in 0..m /\ 1 \in 1..m + 1
  OBVIOUS
<1>1. PICK f : /\ f[0] = 0 /\ CreditsIn(r, v) = f[m]
               /\ \A n \in 1..m : f[n] = f[n - 1] + Worth(r[n], v)
  BY <1>0, CreditsSum
<1>2. PICK g : /\ g[0] = 0 /\ CreditsIn(q, v) = g[m + 1]
               /\ \A n \in 1..m + 1 : g[n] = g[n - 1] + Worth(q[n], v)
  BY <1>0, CreditsSum
<1>3. \A n \in 1..m : /\ n + 1 \in 1..m + 1 /\ n - 1 + 1 = (n + 1) - 1
                      /\ r[n] = q[n + 1]
  BY <1>0
<1>4. d \in [1..m -> Nat] /\ \A n \in 1..m : d[n] = Worth(r[n], v)
  BY <1>0, <1>3 DEF Counts
<1>5. Worth(q[1], v) \in Nat
  BY <1>0 DEF Counts
<1> HIDE DEF m, d
<1>6. g[1] = Worth(q[1], v)
  <2>1. g[1] = g[1 - 1] + Worth(q[1], v) /\ 1 - 1 = 0
    BY <1>0, <1>2
  <2>. QED BY <1>2, <1>5, <2>1
<1>7. Climb(f, g, d, 1, m)
  BY <1>1, <1>2, <1>3, <1>4, <1>5, <1>6 DEF Climb
<1>8. f[m] \in Nat /\ g[m + 1] = g[1] + f[m]
  <2>1. m \in Nat /\ 1 \in Nat
    BY <1>0
  <2>. QED BY <1>7, <2>1, Climbs
<1>. QED BY <1>0, <1>1, <1>2, <1>5, <1>6, <1>8

-----------------------------------------------------------------------------
(* Credits: the invariant                                                   *)

\* Wiimote w asked the host for a connection, or the event is on its way.
Asking(t, h, w) ==
    \/ w \in h.requests
    \/ \E i \in 1..Len(t.evtQ) : t.evtQ[i].type = "con_req" /\ t.evtQ[i].peer = w

\* It has a handle that its disconnection would tell the host.
Used(t, h, w) ==
    (t.wm[w].active \/ Asking(t, h, w)) /\ t.wm[w].baseband = "complete"

\* These handles are different, and given out since the last reset.
GivenOut(t, h) ==
    /\ \A w \in Wiimotes : Used(t, h, w) => t.wm[w].handle < t.hci.last
    /\ \A w, x \in Wiimotes :
          Used(t, h, w) /\ Used(t, h, x) /\ t.wm[w].handle = t.wm[x].handle => w = x

\* Only a Wiimote that the host knows counts packets.
Counting(t, h) ==
    \A w \in Wiimotes :
       /\ t.wm[w].active /\ t.wm[w].baseband # "complete" => t.wm[w].credits = 0
       /\ Connected(t, w) /\ t.wm[w].credits > 0 => h.con[t.wm[w].handle].peer = w

\* Event e is about handles that were given out. The host is told of a connection
\* on a handle that it does not know, and of its end after the end.
Opened(t, h, e) ==
    e.type = "con_compl" => /\ e.handle \in VirtHandles /\ e.handle < t.hci.last
                            /\ h.con[e.handle].peer = Nobody
Ended(t, e) ==
    e.type = "discon_compl" => /\ e.handle \in VirtHandles /\ e.handle < t.hci.last
                               /\ \A w \in Wiimotes :
                                     Connected(t, w) => t.wm[w].handle # e.handle
Credited(t, e) ==
    e.type = "num_compl" => \A v \in DOMAIN e.counts : e.counts[v] > 0 => v < t.hci.last
Fits(t, h, e) == Opened(t, h, e) /\ Ended(t, e) /\ Credited(t, e)

\* The only event about a handle that is new to the host.
Alone(q) ==
    \A i, j \in 1..Len(q) :
        q[i].type = "con_compl" =>
            /\ Worth(q[j], q[i].handle) = 0
            /\ q[j].type = "con_compl" /\ q[j].handle = q[i].handle => i = j

Settled(t, h) ==
    /\ GivenOut(t, h) /\ Counting(t, h)
    /\ \A i \in 1..Len(t.evtQ) : Fits(t, h, t.evtQ[i])
    /\ Alone(t.evtQ)

\* An event that changes nothing the host knows of fake Wiimotes.
Bland(e) ==
    /\ e.type \notin {"con_compl", "discon_compl", "num_compl"}
    /\ e.type = "con_req" => e.peer \notin Wiimotes

\* While the host waits for the end of a reset, only such events come after it.
Quiet(t, h) ==
    /\ h.requests = {} /\ ~t.hci.scan
    /\ \A w \in Wiimotes : ~t.wm[w].active
    /\ \A i, j \in 1..Len(t.evtQ) :
          t.evtQ[i].type = "reset_compl" /\ i < j => Bland(t.evtQ[j])

Price(e) ==
    e.type = "num_compl" =>
        \A v \in DOMAIN e.counts : v \in VirtHandles /\ e.counts[v] \in Nat
Priced(q) == \A i \in 1..Len(q) : Price(q[i])

Accounts(t, h) ==
    /\ Priced(t.evtQ)
    /\ h.resetting => Quiet(t, h)
    /\ ~h.resetting => Settled(t, h)

\* CreditsConserved of a state of the module and of the host.
Owes(t, h, w) ==
    h.con[t.wm[w].handle].sent = t.wm[w].credits + CreditsIn(t.evtQ, t.wm[w].handle)
Paid(t, h) ==
    \A w \in Wiimotes :
        Connected(t, w) /\ h.con[t.wm[w].handle].peer = w /\ ~t.overflow => Owes(t, h, w)

Balanced(t, h) == Accounts(t, h) /\ Paid(t, h)

-----------------------------------------------------------------------------
(* Steps that move no credit                                                *)

\* A Wiimote keeps its handle and what it counted, or begins anew.
Milder(x, y, scan) ==
    /\ y.handle = x.handle
    /\ \/ /\ y.credits = x.credits /\ (y.active => x.active)
          /\ y.baseband = "complete" <=> x.baseband = "complete"
       \/ scan /\ y.baseband # "complete" /\ y.credits = 0

\* Such a step tells the host of Wiimotes that ask for a connection or end one.
Asked(s, t, e) ==
    /\ e.type = "con_req" /\ e.peer \in Wiimotes
    /\ t.wm[e.peer].baseband # "complete" /\ (s.wm[e.peer].active \/ s.hci.scan)
Gone(s, t, h, e) ==
    /\ e.type = "discon_compl"
    /\ \E w \in Wiimotes :
          /\ e.handle = s.wm[w].handle /\ s.wm[w].baseband = "complete"
          /\ s.wm[w].active \/ w \in h.requests
          /\ ~Connected(t, w)
Mild(s, t, h, e) == Bland(e) \/ Asked(s, t, e) \/ Gone(s, t, h, e)

Longer(q, r) ==
    /\ Queue(r) /\ Len(q) <= Len(r)
    /\ \A i \in 1..Len(q) : r[i] = q[i]

Eases(s, t, h) ==
    /\ t.hci = s.hci /\ (s.overflow => t.overflow)
    /\ \A w \in Wiimotes : Milder(s.wm[w], t.wm[w], s.hci.scan)
    /\ Longer(s.evtQ, t.evtQ)
    /\ \A i \in 1..Len(t.evtQ) : i > Len(s.evtQ) => Mild(s, t, h, t.evtQ[i])

LEMMA MilderMore ==
    ASSUME NEW x, NEW y, NEW z, NEW scan, Milder(x, y, scan), Milder(y, z, scan)
    PROVE  Milder(x, z, scan)
BY DEF Milder

LEMMA MildConnected ==
    ASSUME NEW s, NEW t, NEW h, Eases(s, t, h), NEW w \in Wiimotes
    PROVE  /\ t.wm[w].handle = s.wm[w].handle
           /\ t.wm[w].baseband = "complete" =>
                 /\ s.wm[w].baseband = "complete" /\ t.wm[w].credits = s.wm[w].credits
                 /\ t.wm[w].active => s.wm[w].active
           /\ t.wm[w].active => s.wm[w].active \/ s.hci.scan
           /\ t.wm[w].active /\ t.wm[w].baseband # "complete" /\ t.wm[w].credits # 0 =>
                 /\ s.wm[w].active /\ s.wm[w].baseband # "complete"
                 /\ t.wm[w].credits = s.wm[w].credits
           /\ Connected(t, w) => Connected(s, w)
<1>1. Milder(s.wm[w], t.wm[w], s.hci.scan)
  BY DEF Eases
<1> DEFINE x == s.wm[w]
           y == t.wm[w]
<1> HIDE DEF x, y
<1>2. Milder(x, y, s.hci.scan)
  BY <1>1 DEF x, y
<1>. QED BY <1>2 DEF Milder, Connected, x, y

LEMMA EasesNothing ==
    ASSUME NEW s, NEW h, Queue(s.evtQ)
    PROVE  Eases(s, s, h)
<1> DEFINE n == Len(s.evtQ)
<1>1. n \in Nat
  BY QueueLen
<1>2. n <= n /\ \A i \in 1..n : ~(i > n)
  BY <1>1
<1>3. \A w \in Wiimotes : Milder(s.wm[w], s.wm[w], s.hci.scan)
  BY DEF Milder
<1>. QED BY <1>2, <1>3 DEF Eases, Longer

LEMMA EasesMore ==
    ASSUME NEW s, NEW t, NEW u, NEW h, Queue(s.evtQ), Eases(s, t, h), Eases(t, u, h)
    PROVE  Eases(s, u, h)
<1> DEFINE q == s.evtQ
           r == t.evtQ
           p == u.evtQ
<1>1. /\ Queue(q) /\ Longer(q, r) /\ Longer(r, p)
      /\ t.hci = s.hci /\ u.hci = t.hci
      /\ \A i \in 1..Len(r) : i > Len(q) => Mild(s, t, h, r[i])
      /\ \A i \in 1..Len(p) : i > Len(r) => Mild(t, u, h, p[i])
  BY DEF Eases
<1>2. \A w \in Wiimotes : Milder(s.wm[w], u.wm[w], s.hci.scan)
  BY <1>1, MilderMore DEF Eases
<1> HIDE DEF q, r, p
<1>3. /\ Len(q) \in Nat /\ Len(r) \in Nat /\ Len(p) \in Nat
      /\ Len(q) <= Len(r) /\ Len(r) <= Len(p)
  BY <1>1, QueueLen DEF Longer
<1>4. ASSUME NEW i \in 1..Len(q) PROVE p[i] = q[i]
  <2>1. i \in 1..Len(r)
    BY <1>3
  <2>. QED BY <1>1, <2>1 DEF Longer
<1>5. Longer(q, p)
  <2>1. Len(q) <= Len(p) /\ Queue(p)
    BY <1>1, <1>3 DEF Longer
  <2>. QED BY <1>4, <2>1 DEF Longer
<1>6. ASSUME NEW e, Mild(s, t, h, e) PROVE Mild(s, u, h, e)
  <2>1. ASSUME Asked(s, t, e) PROVE Asked(s, u, e)
    <3>1. e.peer \in Wiimotes /\ t.wm[e.peer].baseband # "complete"
      BY <2>1 DEF Asked
    <3>2. u.wm[e.peer].baseband # "complete"
      BY <3>1, MildConnected
    <3>. QED BY <2>1, <3>2 DEF Asked
  <2>2. ASSUME Gone(s, t, h, e) PROVE Gone(s, u, h, e)
    BY <2>2, MildConnected DEF Gone
  <2>. QED BY <1>6, <2>1, <2>2 DEF Mild
<1>7. ASSUME NEW e, Mild(t, u, h, e) PROVE Mild(s, u, h, e)
  <2>1. ASSUME Asked(t, u, e) PROVE Asked(s, u, e)
    <3>1. e.peer \in Wiimotes /\ (t.wm[e.peer].active \/ s.hci.scan)
      BY <1>1, <2>1 DEF Asked
    <3>2. s.wm[e.peer].active \/ s.hci.scan
      BY <2>1, <3>1, MildConnected DEF Asked
    <3>. QED BY <2>1, <3>2 DEF Asked
  <2>2. ASSUME Gone(t, u, h, e) PROVE Gone(s, u, h, e)
    <3>1. PICK w \in Wiimotes :
             /\ e.handle = t.wm[w].handle /\ t.wm[w].baseband = "complete"
             /\ t.wm[w].active \/ w \in h.requests
             /\ ~Connected(u, w)
      BY <2>2 DEF Gone
    <3>2. /\ t.wm[w].handle = s.wm[w].handle /\ s.wm[w].baseband = "complete"
          /\ t.wm[w].active => s.wm[w].active
      BY <3>1, MildConnected
    <3>. QED BY <2>2, <3>1, <3>2 DEF Gone
  <2>. QED BY <1>7, <2>1, <2>2 DEF Mild
<1>8. ASSUME NEW i \in 1..Len(p), i > Len(q) PROVE Mild(s, u, h, p[i])
  <2>1. CASE i > Len(r)
    BY <1>1, <1>7, <2>1
  <2>2. CASE ~(i > Len(r))
    <3>1. i \in 1..Len(r)
      BY <1>3, <2>2
    <3>2. p[i] = r[i] /\ Mild(s, t, h, r[i])
      BY <1>1, <1>8, <3>1 DEF Longer
    <3>. QED BY <1>6, <3>2
  <2>. QED BY <2>1, <2>2
<1>. QED BY <1>1, <1>2, <1>5, <1>8 DEF Eases, q, p

LEMMA PricedCounts ==
    ASSUME NEW q, Priced(q), NEW v
    PROVE  Counts(q, v)
BY DEF Priced, Price, Counts, Worth

LEMMA MildKind ==
    ASSUME NEW s, NEW t, NEW h, NEW e, Mild(s, t, h, e)
    PROVE  /\ e.type \notin {"con_compl", "num_compl"}
           /\ e.type = "discon_compl" => Gone(s, t, h, e)
           /\ e.type = "con_req" /\ e.peer \in Wiimotes => Asked(s, t, e)
           /\ \A v : Worth(e, v) = 0
BY DEF Mild, Bland, Asked, Gone, Worth

\* An event of the longer queue was in the shorter one, or is new.
LEMMA LongerOld ==
    ASSUME NEW q, NEW r, Queue(q), Longer(q, r), NEW i \in 1..Len(r)
    PROVE  \/ i \in 1..Len(q) /\ r[i] = q[i]
           \/ i > Len(q)
<1>1. Len(q) \in Nat
  BY QueueLen
<1>2. i \in 1..Len(q) => r[i] = q[i]
  BY DEF Longer
<1>. QED BY <1>1, <1>2

LEMMA EasesOld ==
    ASSUME NEW s, NEW t, NEW h, Queue(s.evtQ), Eases(s, t, h), NEW i \in 1..Len(t.evtQ)
    PROVE  \/ i \in 1..Len(s.evtQ) /\ t.evtQ[i] = s.evtQ[i]
           \/ i > Len(s.evtQ) /\ Mild(s, t, h, t.evtQ[i])
<1>1. Longer(s.evtQ, t.evtQ)
  BY DEF Eases
<1>2. i > Len(s.evtQ) => Mild(s, t, h, t.evtQ[i])
  BY DEF Eases
<1>. QED BY <1>1, <1>2, LongerOld

LEMMA EasesSettled ==
    ASSUME NEW s, NEW t, NEW h, State(s), Eases(s, t, h), Settled(s, h)
    PROVE  Settled(t, h)
<1>0. Queue(s.evtQ) /\ t.hci = s.hci
  BY DEF State, Eases
<1>1. ASSUME NEW w \in Wiimotes, Used(t, h, w)
      PROVE  Used(s, h, w) /\ t.wm[w].handle = s.wm[w].handle
  <2>1. /\ t.wm[w].handle = s.wm[w].handle
        /\ t.wm[w].baseband = "complete" /\ s.wm[w].baseband = "complete"
        /\ t.wm[w].active => s.wm[w].active
    BY <1>1, MildConnected DEF Used
  <2>2. ASSUME NEW i \in 1..Len(t.evtQ), t.evtQ[i].type = "con_req", t.evtQ[i].peer = w
        PROVE  i \in 1..Len(s.evtQ) /\ s.evtQ[i].type = "con_req" /\ s.evtQ[i].peer = w
    <3>1. CASE i \in 1..Len(s.evtQ) /\ t.evtQ[i] = s.evtQ[i]
      BY <2>2, <3>1
    <3>2. CASE Mild(s, t, h, t.evtQ[i])
      BY <2>1, <2>2, <3>2, MildKind DEF Asked
    <3>. QED BY <1>0, <3>1, <3>2, EasesOld
  <2>3. Asking(t, h, w) => Asking(s, h, w)
    BY <2>2 DEF Asking
  <2>. QED BY <1>1, <2>1, <2>3 DEF Used
<1>2. GivenOut(t, h)
  BY <1>0, <1>1 DEF Settled, GivenOut
<1>3. Counting(t, h)
  <2>1. ASSUME NEW w \in Wiimotes, t.wm[w].active, t.wm[w].baseband # "complete"
        PROVE  t.wm[w].credits = 0
    BY <2>1, MildConnected DEF Settled, Counting
  <2>2. ASSUME NEW w \in Wiimotes, Connected(t, w), t.wm[w].credits > 0
        PROVE  h.con[t.wm[w].handle].peer = w
    <3>1. /\ Connected(s, w) /\ t.wm[w].handle = s.wm[w].handle
          /\ t.wm[w].credits = s.wm[w].credits
      BY <2>2, MildConnected DEF Connected
    <3>. QED BY <2>2, <3>1 DEF Settled, Counting
  <2>. QED BY <2>1, <2>2 DEF Counting
<1>4. ASSUME NEW i \in 1..Len(t.evtQ)
      PROVE  Fits(t, h, t.evtQ[i])
  <2> DEFINE e == t.evtQ[i]
  <2>1. CASE i \in 1..Len(s.evtQ) /\ e = s.evtQ[i]
    <3>1. Opened(s, h, e) /\ Ended(s, e) /\ Credited(s, e)
      BY <2>1 DEF Settled, Fits
    <3> HIDE DEF e
    <3>2. \A w \in Wiimotes : Connected(t, w) =>
             Connected(s, w) /\ t.wm[w].handle = s.wm[w].handle
      BY MildConnected
    <3>3. Ended(t, e)
      BY <1>0, <3>1, <3>2 DEF Ended
    <3>4. Opened(t, h, e) /\ Credited(t, e)
      BY <1>0, <3>1 DEF Opened, Credited
    <3>. QED BY <3>3, <3>4 DEF Fits, e
  <2>2. CASE Mild(s, t, h, e)
    <3> HIDE DEF e
    <3>1. Opened(t, h, e) /\ Credited(t, e)
      BY <2>2, MildKind DEF Opened, Credited
    <3>2. ASSUME e.type = "discon_compl"
          PROVE  /\ e.handle \in VirtHandles /\ e.handle < t.hci.last
                 /\ \A x \in Wiimotes : Connected(t, x) => t.wm[x].handle # e.handle
      <4>1. PICK w \in Wiimotes :
               /\ e.handle = s.wm[w].handle /\ s.wm[w].baseband = "complete"
               /\ s.wm[w].active \/ w \in h.requests
               /\ ~Connected(t, w)
        BY <2>2, <3>2, MildKind DEF Gone
      <4>2. Used(s, h, w)
        BY <4>1 DEF Used, Asking
      <4>3. s.wm[w].handle \in VirtHandles
        BY DEF State, WiimoteRec
      <4>4. e.handle < t.hci.last
        BY <1>0, <4>1, <4>2 DEF Settled, GivenOut
      <4>5. ASSUME NEW x \in Wiimotes, Connected(t, x), t.wm[x].handle = e.handle
            PROVE  FALSE
        <5>1. Connected(s, x) /\ t.wm[x].handle = s.wm[x].handle
          BY <4>5, MildConnected
        <5>2. Used(s, h, x)
          BY <5>1 DEF Connected, Used
        <5>3. x = w
          BY <4>1, <4>2, <4>5, <5>1, <5>2 DEF Settled, GivenOut
        <5>. QED BY <4>1, <4>5, <5>3
      <4>. QED BY <4>1, <4>3, <4>4, <4>5
    <3>. QED BY <3>1, <3>2 DEF Fits, Ended, e
  <2>. QED BY <1>0, <2>1, <2>2, EasesOld
<1>5. Alone(t.evtQ)
  <2>1. ASSUME NEW i \in 1..Len(t.evtQ), NEW j \in 1..Len(t.evtQ),
               t.evtQ[i].type = "con_compl"
        PROVE  /\ Worth(t.evtQ[j], t.evtQ[i].handle) = 0
               /\ t.evtQ[j].type = "con_compl" /\ t.evtQ[j].handle = t.evtQ[i].handle
                     => i = j
    <3>1. i \in 1..Len(s.evtQ) /\ t.evtQ[i] = s.evtQ[i]
      BY <1>0, <2>1, EasesOld, MildKind
    <3>2. CASE j \in 1..Len(s.evtQ) /\ t.evtQ[j] = s.evtQ[j]
      BY <2>1, <3>1, <3>2 DEF Settled, Alone
    <3>3. CASE Mild(s, t, h, t.evtQ[j])
      BY <3>3, MildKind
    <3>. QED BY <1>0, <3>2, <3>3, EasesOld
  <2>. QED BY <2>1 DEF Alone
<1>. QED BY <1>2, <1>3, <1>4, <1>5 DEF Settled

LEMMA EasesQuiet ==
    ASSUME NEW s, NEW t, NEW h, State(s), Eases(s, t, h), Quiet(s, h)
    PROVE  Quiet(t, h)
<1>0. Queue(s.evtQ) /\ t.hci = s.hci
  BY DEF State, Eases
<1>1. \A w \in Wiimotes : ~t.wm[w].active
  BY MildConnected DEF Quiet
<1>2. ASSUME NEW e, Mild(s, t, h, e) PROVE Bland(e)
  BY <1>2 DEF Mild, Asked, Gone, Quiet
<1>3. ASSUME NEW i \in 1..Len(t.evtQ), NEW j \in 1..Len(t.evtQ),
             t.evtQ[i].type = "reset_compl", i < j
      PROVE  Bland(t.evtQ[j])
  <2>1. CASE j \in 1..Len(s.evtQ) /\ t.evtQ[j] = s.evtQ[j]
    <3>1. ~(i > Len(s.evtQ))
      <4>1. Len(s.evtQ) \in Nat
        BY <1>0, QueueLen
      <4>. QED BY <1>3, <2>1, <4>1
    <3>2. i \in 1..Len(s.evtQ) /\ t.evtQ[i] = s.evtQ[i]
      BY <1>0, <3>1, EasesOld
    <3>. QED BY <1>3, <2>1, <3>2 DEF Quiet
  <2>2. CASE Mild(s, t, h, t.evtQ[j])
    BY <1>2, <2>2
  <2>. QED BY <1>0, <2>1, <2>2, EasesOld
<1>. QED BY <1>0, <1>1, <1>3 DEF Quiet

LEMMA EasesPriced ==
    ASSUME NEW s, NEW t, NEW h, State(s), Eases(s, t, h), Priced(s.evtQ)
    PROVE  Priced(t.evtQ) /\ \A v : CreditsIn(t.evtQ, v) = CreditsIn(s.evtQ, v)
<1>0. Queue(s.evtQ) /\ Longer(s.evtQ, t.evtQ)
  BY DEF State, Eases
<1>1. ASSUME NEW i \in 1..Len(t.evtQ) PROVE Price(t.evtQ[i])
  <2>1. CASE i \in 1..Len(s.evtQ) /\ t.evtQ[i] = s.evtQ[i]
    BY <2>1 DEF Priced
  <2>2. CASE Mild(s, t, h, t.evtQ[i])
    BY <2>2, MildKind DEF Price
  <2>. QED BY <1>0, <2>1, <2>2, EasesOld
<1>2. ASSUME NEW v PROVE CreditsIn(t.evtQ, v) = CreditsIn(s.evtQ, v)
  <2> DEFINE q == s.evtQ
             r == t.evtQ
  <2>1. Len(q) \in Nat /\ Len(r) \in Nat /\ Len(q) <= Len(r)
        /\ \A i \in 1..Len(q) : r[i] = q[i]
    BY <1>0, QueueLen DEF Longer
  <2>2. Counts(q, v)
    BY PricedCounts
  <2>3. \A i \in 1..Len(r) : i > Len(q) => Worth(r[i], v) = 0
    <3>1. ASSUME NEW i \in 1..Len(r), i > Len(q) PROVE Mild(s, t, h, r[i])
      BY <3>1 DEF Eases
    <3>. QED BY <3>1, MildKind
  <2> HIDE DEF q, r
  <2>4. CreditsIn(r, v) = CreditsIn(q, v)
    BY <2>1, <2>2, <2>3, CreditsGrown
  <2>. QED BY <2>4 DEF q, r
<1>. QED BY <1>1, <1>2 DEF Priced

\* Such steps keep the account.
LEMMA EasesKeeps ==
    ASSUME NEW s, NEW t, NEW h, State(s), Eases(s, t, h)
    PROVE  /\ Accounts(s, h) => Accounts(t, h)
           /\ Balanced(s, h) => Balanced(t, h)
<1>1. Accounts(s, h) => Accounts(t, h)
  BY EasesPriced, EasesQuiet, EasesSettled DEF Accounts
<1>2. ASSUME Balanced(s, h), NEW w \in Wiimotes, Connected(t, w),
             h.con[t.wm[w].handle].peer = w, ~t.overflow
      PROVE  Owes(t, h, w)
  <2>1. /\ t.wm[w].handle = s.wm[w].handle /\ t.wm[w].credits = s.wm[w].credits
        /\ Connected(s, w)
    BY <1>2, MildConnected DEF Connected
  <2>2. ~s.overflow
    BY <1>2 DEF Eases
  <2>3. Owes(s, h, w)
    BY <1>2, <2>1, <2>2 DEF Balanced, Paid
  <2>4. CreditsIn(t.evtQ, t.wm[w].handle) = CreditsIn(s.evtQ, t.wm[w].handle)
    BY <1>2, EasesPriced DEF Balanced, Accounts
  <2>. QED BY <2>1, <2>3, <2>4 DEF Owes
<1>. QED BY <1>1, <1>2 DEF Balanced, Paid

\* Every place below their number is the rank of a member.
LEMMA RankOnto ==
    ASSUME NEW S \in SUBSET Nat, IsFiniteSet(S), NEW k \in 0..Cardinality(S) - 1
    PROVE  \E a \in S : Rank(a, S) = k
<1> DEFINE n == Cardinality(S)
           T == 0..n - 1
           f == [a \in S |-> Rank(a, S)]
<1>1. n \in Nat
  BY FS_CardinalityType
<1>2. ASSUME NEW a \in S PROVE Rank(a, S) \in T
  <2> DEFINE A == {y \in S : y < a}
  <2>1. A \in SUBSET S /\ a \notin A
    <3>1. ~(a < a)
      OBVIOUS
    <3>. QED BY <3>1
  <2>2. IsFiniteSet(A) /\ Cardinality(A) <= n /\ Cardinality(A) # n
    BY <2>1, FS_Subset
  <2>3. Cardinality(A) \in Nat
    BY <2>2, FS_CardinalityType
  <2> HIDE DEF A, n
  <2>4. Cardinality(A) \in 0..n - 1
    BY <1>1, <2>2, <2>3
  <2>. QED BY <2>4 DEF Rank, A
<1>3. f \in [S -> T]
  BY <1>2
<1>4. \A a, b \in S : f[a] = f[b] => a = b
  BY RankInjective
<1>5. IsFiniteSet(T) /\ Cardinality(T) = n
  <2>1. 0 \in Int /\ n - 1 \in Int
    BY <1>1
  <2>2. IsFiniteSet(T) /\ Cardinality(T) = IF 0 > n - 1 THEN 0 ELSE (n - 1) - 0 + 1
    BY <2>1, FS_Interval
  <2> HIDE DEF n, T
  <2>. QED BY <1>1, <2>2
<1>6. f \in Injection(S, T)
  BY <1>3, <1>4 DEF Injection, IsInjective
<1> HIDE DEF f, T
<1>7. f \in Surjection(S, T)
  BY <1>5, <1>6, FS_Injection
<1>8. k \in T
  BY DEF T
<1>9. \E a \in S : f[a] = k
  BY <1>7, <1>8 DEF Surjection
<1>. QED BY <1>9 DEF f

LEMMA InjectEffect ==
    ASSUME NEW s, State(s), NEW e
    PROVE  LET t == Inject(s, e) IN
           /\ State(t) /\ t.wm = s.wm /\ t.slots = s.slots /\ t.hci = s.hci
           /\ t.hung = s.hung
           /\ \/ t.evtQ = Append(s.evtQ, e) /\ t.overflow = s.overflow
              \/ t.evtQ = s.evtQ /\ t.overflow = TRUE
<1> DEFINE q == Append(s.evtQ, e)
           a == [s EXCEPT !.evtQ = q]
           b == [s EXCEPT !.overflow = TRUE]
<1>1. Queue(q)
  BY QueueAppend DEF State
<1>2. Inject(s, e) = a \/ Inject(s, e) = b
  BY DEF Inject
<1>3. /\ a = Fields(s.wm, s.slots, s.hci, q, s.overflow, s.hung)
      /\ b = Fields(s.wm, s.slots, s.hci, s.evtQ, TRUE, s.hung)
  BY StateExcept
<1> DEFINE t == Inject(s, e)
<1> HIDE DEF a, b, t, q
<1>4. CASE t = a
  <2>1. /\ t.wm = s.wm /\ t.slots = s.slots /\ t.hci = s.hci /\ t.hung = s.hung
        /\ t.evtQ = q /\ t.overflow = s.overflow
        /\ t = Fields(t.wm, t.slots, t.hci, t.evtQ, t.overflow, t.hung)
    BY <1>3, <1>4 DEF Fields
  <2>2. State(t)
    BY <1>1, <2>1 DEF State
  <2>. QED BY <2>1, <2>2 DEF t, q
<1>5. CASE t = b
  <2>1. /\ t.wm = s.wm /\ t.slots = s.slots /\ t.hci = s.hci /\ t.hung = s.hung
        /\ t.evtQ = s.evtQ /\ t.overflow = TRUE
        /\ t = Fields(t.wm, t.slots, t.hci, t.evtQ, t.overflow, t.hung)
    BY <1>3, <1>5 DEF Fields
  <2>2. State(t)
    BY <2>1 DEF State
  <2>. QED BY <2>1, <2>2 DEF t
<1>. QED BY <1>2, <1>4, <1>5 DEF t

LEMMA LongerSame ==
    ASSUME NEW q, Queue(q)
    PROVE  Longer(q, q) /\ \A i \in 1..Len(q) : ~(i > Len(q))
<1>1. Len(q) \in Nat
  BY QueueLen
<1>. QED BY <1>1 DEF Longer

LEMMA LongerAppend ==
    ASSUME NEW q, NEW e, Queue(q)
    PROVE  /\ Longer(q, Append(q, e))
           /\ \A i \in 1..Len(Append(q, e)) :
                 i > Len(q) => i = Len(Append(q, e)) /\ Append(q, e)[i] = e
<1> DEFINE r == Append(q, e)
           n == Len(q)
<1>1. n \in Nat
  BY QueueLen
<1>2. Queue(r) /\ Len(r) = n + 1 /\ r[n + 1] = e /\ \A i \in 1..n : r[i] = q[i]
  BY QueueAppend
<1> HIDE DEF r, n
<1>3. n <= Len(r) /\ \A i \in 1..Len(r) : i > n => i = n + 1
  BY <1>1, <1>2
<1>4. Longer(q, r)
  BY <1>2, <1>3 DEF Longer, n
<1>. QED BY <1>2, <1>3, <1>4 DEF r, n

\* The queue stays as it is.
LEMMA EasesSame ==
    ASSUME NEW s, NEW t, NEW h, State(s), t.hci = s.hci, t.evtQ = s.evtQ,
           s.overflow => t.overflow,
           \A w \in Wiimotes : Milder(s.wm[w], t.wm[w], s.hci.scan)
    PROVE  Eases(s, t, h)
BY LongerSame DEF Eases, State

LEMMA MilderSame ==
    ASSUME NEW s, NEW w
    PROVE  Milder(s.wm[w], s.wm[w], s.hci.scan)
BY DEF Milder

\* A change to r is told by event e.
LEMMA EasesInject ==
    ASSUME NEW s, NEW r, NEW h, NEW e, State(s), State(r),
           Eases(s, r, h), r.evtQ = s.evtQ, Mild(s, r, h, e)
    PROVE  Eases(s, Inject(r, e), h) /\ State(Inject(r, e))
<1> DEFINE t == Inject(r, e)
<1>1. /\ State(t) /\ t.wm = r.wm /\ t.hci = r.hci
      /\ \/ t.evtQ = Append(s.evtQ, e) /\ t.overflow = r.overflow
         \/ t.evtQ = s.evtQ /\ t.overflow = TRUE
  BY InjectEffect
<1> HIDE DEF t
<1>2. Queue(s.evtQ) /\ r.hci = s.hci /\ (s.overflow => r.overflow)
  BY DEF State, Eases
<1>3. \A w \in Wiimotes : Milder(s.wm[w], t.wm[w], s.hci.scan)
  BY <1>1 DEF Eases
<1>4. Mild(s, t, h, e)
  BY <1>1 DEF Mild, Asked, Gone, Connected
<1>5. ASSUME t.evtQ = s.evtQ, t.overflow = TRUE PROVE Eases(s, t, h)
  BY <1>1, <1>2, <1>3, <1>5, EasesSame
<1>6. ASSUME t.evtQ = Append(s.evtQ, e), t.overflow = r.overflow PROVE Eases(s, t, h)
  <2>1. /\ Longer(s.evtQ, t.evtQ)
        /\ \A i \in 1..Len(t.evtQ) : i > Len(s.evtQ) => t.evtQ[i] = e
    BY <1>2, <1>6, LongerAppend
  <2>2. t.hci = s.hci /\ (s.overflow => t.overflow)
    BY <1>1, <1>2, <1>6
  <2>. QED BY <1>3, <1>4, <2>1, <2>2 DEF Eases
<1>7. Eases(s, t, h)
  BY <1>1, <1>5, <1>6
<1>. QED BY <1>1, <1>7 DEF t

LEMMA EasesBland ==
    ASSUME NEW s, NEW h, NEW e, State(s), Bland(e)
    PROVE  Eases(s, Inject(s, e), h) /\ State(Inject(s, e))
<1>1. Eases(s, s, h)
  BY EasesNothing DEF State
<1>. QED BY <1>1, EasesInject DEF Mild

\* Fields of a Wiimote that say nothing of its connection.
LEMMA WiimoteExcept ==
    ASSUME NEW x \in WiimoteRec, NEW new
    PROVE  /\ LET y == [x EXCEPT !.active = FALSE] IN
              /\ y \in WiimoteRec /\ ~y.active /\ y.baseband = x.baseband
              /\ y.handle = x.handle /\ y.credits = x.credits
           /\ LET y == [x EXCEPT !.dev = NoSlot] IN
              /\ y \in WiimoteRec /\ y.active = x.active /\ y.baseband = x.baseband
              /\ y.handle = x.handle /\ y.credits = x.credits
           /\ LET y == [x EXCEPT !.baseband = "inactive"] IN
              /\ y \in WiimoteRec /\ y.active = x.active /\ y.baseband = "inactive"
              /\ y.handle = x.handle /\ y.credits = x.credits
           /\ new \in Nat => LET y == [x EXCEPT !.credits = new] IN
              /\ y \in WiimoteRec /\ y.active = x.active /\ y.baseband = x.baseband
              /\ y.handle = x.handle /\ y.credits = new
BY DEF WiimoteRec

\* One Wiimote changes.
LEMMA WiimoteChange ==
    ASSUME NEW s, State(s), NEW w \in Wiimotes, NEW y \in WiimoteRec
    PROVE  LET t == [s EXCEPT !.wm[w] = y] IN
           /\ State(t) /\ t.slots = s.slots /\ t.hci = s.hci /\ t.evtQ = s.evtQ
           /\ t.overflow = s.overflow /\ t.hung = s.hung
           /\ \A x \in Wiimotes : t.wm[x] = IF x = w THEN y ELSE s.wm[x]
<1> DEFINE fakes == [s.wm EXCEPT ![w] = y]
           t == [s EXCEPT !.wm = fakes]
<1>1. s.wm \in [Wiimotes -> WiimoteRec]
  BY DEF State
<1>2. /\ fakes \in [Wiimotes -> WiimoteRec]
      /\ \A x \in Wiimotes : fakes[x] = IF x = w THEN y ELSE s.wm[x]
  BY <1>1
<1> HIDE DEF fakes
<1>3. t = Fields(fakes, s.slots, s.hci, s.evtQ, s.overflow, s.hung)
  BY StateExcept
<1>4. /\ State(t) /\ t.wm = fakes /\ t.slots = s.slots /\ t.hci = s.hci
      /\ t.evtQ = s.evtQ /\ t.overflow = s.overflow /\ t.hung = s.hung
  BY <1>2, <1>3 DEF State, Fields
<1>. QED BY <1>2, <1>4 DEF fakes, t

\* The slots change.
LEMMA EasesSlots ==
    ASSUME NEW s, NEW h, State(s), NEW table
    PROVE  Eases(s, [s EXCEPT !.slots = table], h)
<1> DEFINE t == [s EXCEPT !.slots = table]
<1>1. t = Fields(s.wm, table, s.hci, s.evtQ, s.overflow, s.hung)
  BY StateExcept
<1>2. t.wm = s.wm /\ t.hci = s.hci /\ t.evtQ = s.evtQ /\ t.overflow = s.overflow
  BY <1>1 DEF Fields
<1> HIDE DEF t
<1>3. Eases(s, t, h)
  BY <1>2, EasesSame, MilderSame
<1>. QED BY <1>3 DEF t

\* A Wiimote disconnects that is active, or that the host rejects.
LEMMA EasesDisconnect ==
    ASSUME NEW s, NEW h, State(s), NEW w \in Wiimotes,
           s.wm[w].active \/ w \in h.requests
    PROVE  Eases(s, Disconnect(s, w), h)
<1> DEFINE x == s.wm[w]
           y == [x EXCEPT !.active = FALSE]
           r0 == [s EXCEPT !.wm[w] = y]
           table == IF x.dev # NoSlot THEN ReleaseWiimote(s.slots, x.dev) ELSE s.slots
           r == [s EXCEPT !.wm[w].active = FALSE, !.slots = table]
           e == DisconCompl(x.handle)
<1>1. x \in WiimoteRec
  BY DEF State
<1>2. /\ y \in WiimoteRec /\ ~y.active /\ y.baseband = x.baseband
      /\ y.handle = x.handle /\ y.credits = x.credits
  BY <1>1, WiimoteExcept
<1>3. Disconnect(s, w) = IF x.baseband = "complete" THEN Inject(r, e) ELSE r
  BY DEF Disconnect
<1>4. r = [r0 EXCEPT !.slots = table]
  OBVIOUS
<1>5. /\ State(r0) /\ r0.hci = s.hci /\ r0.evtQ = s.evtQ /\ r0.overflow = s.overflow
      /\ \A z \in Wiimotes : r0.wm[z] = IF z = w THEN y ELSE s.wm[z]
  BY <1>2, WiimoteChange
<1>6. State(r) /\ r.wm = r0.wm /\ r.evtQ = r0.evtQ
  <2>1. Dropped(s, w, Disconnect(s, w)) /\ State(Disconnect(s, w))
    BY DisconnectKeeps DEF Dropped
  <2>2. table \in [Slots -> SlotRec]
    <3> DEFINE old == s.slots[x.dev]
               new == [old EXCEPT !.assigned = NoWiimote, !.delay = ReconnectDelay]
    <3>1. CASE x.dev = NoSlot
      BY <3>1 DEF State
    <3>2. CASE x.dev # NoSlot
      <4>1. x.dev \in Slots /\ s.slots \in [Slots -> SlotRec]
        BY <1>1, <3>2 DEF State, WiimoteRec
      <4>2. old \in SlotRec
        BY <4>1
      <4> HIDE DEF old
      <4>3. new \in SlotRec
        BY <4>2, CoreAssumption DEF SlotRec
      <4>4. table = [s.slots EXCEPT ![x.dev] = new]
        BY <3>2, <4>1 DEF ReleaseWiimote, old
      <4> HIDE DEF new, table, x
      <4>. QED BY <4>1, <4>3, <4>4
    <3>. QED BY <3>1, <3>2
  <2> HIDE DEF table, r0, r
  <2>3. r = Fields(r0.wm, table, r0.hci, r0.evtQ, r0.overflow, r0.hung)
    BY <1>4, <1>5, StateExcept
  <2>. QED BY <1>5, <2>2, <2>3 DEF State, Fields
<1> HIDE DEF y, r0, table
<1>7. Eases(s, r0, h)
  <2>1. ASSUME NEW z \in Wiimotes PROVE Milder(s.wm[z], r0.wm[z], s.hci.scan)
    <3>1. CASE z = w
      <4> HIDE DEF x
      <4>1. Milder(x, y, s.hci.scan)
        BY <1>2 DEF Milder
      <4>. QED BY <1>5, <3>1, <4>1 DEF x
    <3>2. CASE z # w
      BY <1>5, <3>2, MilderSame
    <3>. QED BY <3>1, <3>2
  <2>. QED BY <1>5, <2>1, EasesSame
<1>8. Eases(s, r, h)
  <2>1. Eases(r0, r, h)
    BY <1>4, <1>5, EasesSlots
  <2>2. Queue(s.evtQ)
    BY DEF State
  <2>. QED BY <1>7, <2>1, <2>2, EasesMore
<1>9. ASSUME x.baseband = "complete" PROVE Mild(s, r, h, e)
  <2>1. ~Connected(r, w)
    BY <1>2, <1>5, <1>6 DEF Connected
  <2>2. e.type = "discon_compl" /\ e.handle = x.handle
    BY DEF DisconCompl
  <2>. QED BY <1>9, <2>1, <2>2 DEF Mild, Gone
<1> HIDE DEF r, e
<1>10. x.baseband = "complete" => Eases(s, Inject(r, e), h)
  BY <1>5, <1>6, <1>8, <1>9, EasesInject
<1>. QED BY <1>3, <1>8, <1>10

LEMMA EasesRemoved ==
    ASSUME NEW s, NEW h, Sound(s), NEW d \in Pads
    PROVE  Eases(s, DeviceRemoved(s, d), h)
<1> DEFINE held == SlotsOf(s.slots, d)
           sl == Min(held)
           w == s.slots[sl].assigned
           x == [s.wm[w] EXCEPT !.dev = NoSlot]
           r == [s EXCEPT !.wm[w].dev = NoSlot]
           t == IF w = NoWiimote THEN s ELSE Disconnect(r, w)
           u == [t EXCEPT !.slots = ClearDevice(t.slots, sl)]
<1>1. /\ State(s) /\ s.slots \in [Slots -> SlotRec] /\ s.wm \in [Wiimotes -> WiimoteRec]
      /\ Linked(s) /\ Queue(s.evtQ)
  BY DEF Sound, State
<1>2. CASE held = {}
  <2>1. DeviceRemoved(s, d) = s
    BY <1>2 DEF DeviceRemoved
  <2>. QED BY <1>1, <2>1, EasesNothing
<1>3. CASE held # {}
  <2>1. sl \in Slots /\ s.slots[sl].device = d /\ d # NoPad
    <3>1. sl \in held
      BY <1>3, MinIn, SlotsOfNat
    <3>. QED BY <3>1, SlotAssumption DEF SlotsOf
  <2>2. DeviceRemoved(s, d) = u
    BY <1>3 DEF DeviceRemoved
  <2>3. State(t) /\ Eases(s, t, h)
    <3>1. CASE w = NoWiimote
      BY <1>1, <3>1, EasesNothing
    <3>2. CASE w # NoWiimote
      <4>1. w \in Wiimotes
        <5>1. s.slots[sl] \in SlotRec
          BY <1>1, <2>1
        <5>. QED BY <3>2, <5>1 DEF SlotRec
      <4>2. /\ x \in WiimoteRec /\ x.active = s.wm[w].active
            /\ x.baseband = s.wm[w].baseband /\ x.handle = s.wm[w].handle
            /\ x.credits = s.wm[w].credits
        BY <1>1, <4>1, WiimoteExcept
      <4>3. s.wm[w].active
        BY <1>1, <2>1, <4>1 DEF Linked
      <4>4. r = [s EXCEPT !.wm[w] = x]
        OBVIOUS
      <4> HIDE DEF x, w, r
      <4>5. /\ State(r) /\ r.hci = s.hci /\ r.evtQ = s.evtQ /\ r.overflow = s.overflow
            /\ \A z \in Wiimotes : r.wm[z] = IF z = w THEN x ELSE s.wm[z]
        BY <1>1, <4>1, <4>2, <4>4, WiimoteChange
      <4>6. ASSUME NEW z \in Wiimotes PROVE Milder(s.wm[z], r.wm[z], s.hci.scan)
        <5>1. CASE z = w
          <6>1. r.wm[z] = x /\ s.wm[z] = s.wm[w]
            BY <4>5, <5>1
          <6>. QED BY <4>2, <6>1 DEF Milder
        <5>2. CASE z # w
          BY <4>5, <5>2, MilderSame
        <5>. QED BY <5>1, <5>2
      <4>7. Eases(s, r, h)
        BY <1>1, <4>5, <4>6, EasesSame
      <4>8. r.wm[w].active
        BY <4>1, <4>2, <4>3, <4>5
      <4>9. Eases(r, Disconnect(r, w), h) /\ State(Disconnect(r, w))
        BY <4>1, <4>5, <4>8, EasesDisconnect, DisconnectKeeps DEF Dropped
      <4>10. t = Disconnect(r, w)
        BY <3>2 DEF t
      <4> HIDE DEF t
      <4>. QED BY <1>1, <4>7, <4>9, <4>10, EasesMore
    <3>. QED BY <3>1, <3>2
  <2> HIDE DEF t, sl
  <2>4. Eases(t, u, h)
    BY <2>3, EasesSlots
  <2> HIDE DEF u
  <2>. QED BY <1>1, <2>2, <2>3, <2>4, EasesMore
<1>. QED BY <1>2, <1>3

LEMMA EasesEgc ==
    ASSUME NEW s, NEW h, Sound(s), NEW in \in SUBSET Pads, NEW e \in EgcEvents(in)
    PROVE  Eases(s, EgcEvent(s, e), h)
<1>1. State(s) /\ Queue(s.evtQ)
  BY DEF Sound, State
<1>2. CASE e = NoEgc
  <2>1. EgcEvent(s, e) = s
    BY <1>2 DEF EgcEvent, NoEgc
  <2>. QED BY <1>1, <2>1, EasesNothing
<1>3. ASSUME NEW d \in Pads, e = Attach(d)
      PROVE  Eases(s, EgcEvent(s, e), h)
  <2>1. e.type = "added" /\ e.pad = d
    BY <1>3 DEF Attach
  <2>2. EgcEvent(s, e) = [s EXCEPT !.slots = DeviceAdded(s.slots, d)]
    BY <2>1 DEF EgcEvent
  <2>. QED BY <1>1, <2>2, EasesSlots
<1>4. ASSUME NEW d \in Pads, e = Detach(d)
      PROVE  Eases(s, EgcEvent(s, e), h)
  <2>1. e.type = "removed" /\ e.pad = d
    BY <1>4 DEF Detach
  <2>2. EgcEvent(s, e) = DeviceRemoved(s, d)
    BY <2>1 DEF EgcEvent
  <2>. QED BY <2>2, EasesRemoved
<1>. QED BY <1>2, <1>3, <1>4 DEF EgcEvents

\* Wiimotes are assigned to gamepads only while the host scans for pages.
LEMMA EasesAssign ==
    ASSUME NEW s, NEW h, Sound(s), s.hci.scan
    PROVE  Eases(s, AssignDevices(s), h)
<1> DEFINE SlotFor(w) == CHOOSE sl \in Slots : Pair(s, w, sl)
           Takes(w) == \E sl \in Slots : Pair(s, w, sl)
           fakes == [w \in Wiimotes |-> IF Takes(w) THEN Activated(s.wm[w], SlotFor(w))
                                        ELSE s.wm[w]]
           table == [sl \in Slots |->
                       IF \E w \in Wiimotes : Pair(s, w, sl)
                       THEN [s.slots[sl] EXCEPT !.assigned =
                               CHOOSE w \in Wiimotes : Pair(s, w, sl)]
                       ELSE s.slots[sl]]
           t == AssignDevices(s)
<1>1. State(s) /\ s.wm \in [Wiimotes -> WiimoteRec]
  BY DEF Sound, State
<1>2. t = [s EXCEPT !.wm = fakes, !.slots = table]
  BY DEF AssignDevices
<1> HIDE DEF SlotFor, Takes
<1>3. ASSUME NEW w \in Wiimotes
      PROVE  Milder(s.wm[w], fakes[w], s.hci.scan)
  <2> DEFINE x == s.wm[w]
             sl == SlotFor(w)
             y == [x EXCEPT !.active = TRUE, !.baseband = "request", !.dev = sl,
                            !.credits = 0]
  <2>1. x \in WiimoteRec
    BY <1>1
  <2>2. fakes[w] = x \/ fakes[w] = y
    BY DEF Activated
  <2> HIDE DEF x, sl, fakes
  <2>3. Milder(x, y, s.hci.scan)
    BY <2>1 DEF WiimoteRec, Milder
  <2>. QED BY <2>2, <2>3, MilderSame DEF x
<1> HIDE DEF fakes, table, t
<1>4. t = Fields(fakes, table, s.hci, s.evtQ, s.overflow, s.hung)
  BY <1>1, <1>2, StateExcept
<1>5. t.wm = fakes /\ t.hci = s.hci /\ t.evtQ = s.evtQ /\ t.overflow = s.overflow
  BY <1>4 DEF Fields
<1>6. Eases(s, t, h)
  BY <1>1, <1>3, <1>5, EasesSame
<1>. QED BY <1>6 DEF t

\* The Wiimotes that ask are those whose events found room.
LEMMA RequestsOf ==
    ASSUME NEW sent \in SUBSET Wiimotes, NEW i \in 1..Len(Requests(sent))
    PROVE  /\ Requests(sent)[i].type = "con_req"
           /\ Requests(sent)[i].peer \in sent
<1> DEFINE n == Cardinality(sent)
           who(j) == CHOOSE w \in sent : Rank(w, sent) = j - 1
           r == Requests(sent)
<1>1. IsFiniteSet(sent) /\ n \in Nat /\ sent \in SUBSET Nat
  <2>1. IsFiniteSet(Wiimotes)
    BY CoreAssumption, FS_Interval DEF Wiimotes
  <2>2. IsFiniteSet(sent)
    BY <2>1, FS_Subset
  <2>3. sent \in SUBSET Nat
    BY DEF Wiimotes
  <2>. QED BY <2>2, <2>3, FS_CardinalityType
<1>2. r = [j \in 1..n |-> ConReq(who(j))]
  BY DEF Requests
<1> HIDE DEF r, n
<1>3. DOMAIN r = 1..n
  BY <1>2
<1>4. Queue(r)
  BY RequestsQueue DEF r
<1>5. i \in 1..n
  <2>1. DOMAIN r = 1..Len(r)
    BY <1>4, QueueLen
  <2>. QED BY <1>3, <2>1 DEF r
<1>6. who(i) \in sent
  <2>1. i - 1 \in 0..n - 1
    BY <1>1, <1>5
  <2>2. \E w \in sent : Rank(w, sent) = i - 1
    BY <1>1, <2>1, RankOnto DEF n
  <2>. QED BY <2>2
<1> HIDE DEF who
<1>7. r[i] = ConReq(who(i))
  BY <1>2, <1>5
<1>. QED BY <1>6, <1>7 DEF ConReq, r

LEMMA EasesRequests ==
    ASSUME NEW s, NEW h, Sound(s)
    PROVE  Eases(s, RequestConnections(s), h)
<1> DEFINE wanting == {w \in Wiimotes : s.wm[w].active /\ s.wm[w].baseband = "request"}
           sent == {w \in wanting : Len(s.evtQ) + Rank(w, wanting) < EvtCap}
           fakes == [w \in Wiimotes |->
                       IF w \in sent THEN [s.wm[w] EXCEPT !.baseband = "inactive"]
                                     ELSE s.wm[w]]
           q == s.evtQ
           r == Requests(sent)
           t == RequestConnections(s)
<1>1. State(s) /\ s.wm \in [Wiimotes -> WiimoteRec] /\ Queue(q)
  BY DEF Sound, State
<1>2. t = [s EXCEPT !.wm = fakes, !.evtQ = q \o r]
  BY DEF RequestConnections
<1>3. sent \in SUBSET Wiimotes
  OBVIOUS
<1>4. Queue(r)
  BY RequestsQueue
<1>5. \A i \in 1..Len(r) : r[i].type = "con_req" /\ r[i].peer \in sent
  BY <1>3, RequestsOf
<1>6. ASSUME NEW w \in Wiimotes
      PROVE  /\ Milder(s.wm[w], fakes[w], s.hci.scan)
             /\ w \in sent => fakes[w].baseband = "inactive" /\ s.wm[w].active
  <2> DEFINE x == s.wm[w]
             y == [x EXCEPT !.baseband = "inactive"]
  <2>1. x \in WiimoteRec
    BY <1>1
  <2>2. IF w \in sent THEN fakes[w] = y ELSE fakes[w] = x
    OBVIOUS
  <2>3. w \in sent => x.baseband = "request" /\ x.active
    OBVIOUS
  <2> HIDE DEF x, fakes, sent
  <2>4. /\ y.active = x.active /\ y.handle = x.handle /\ y.baseband = "inactive"
        /\ y.credits = x.credits
    BY <2>1 DEF WiimoteRec
  <2>5. w \in sent => Milder(x, y, s.hci.scan)
    BY <2>3, <2>4 DEF Milder
  <2>. QED BY <2>2, <2>3, <2>4, <2>5, MilderSame DEF x
<1> HIDE DEF sent, fakes, q, r, t
<1> DEFINE p == q \o r
<1>7. /\ Queue(p) /\ Len(p) = Len(q) + Len(r) /\ Len(q) \in Nat /\ Len(r) \in Nat
      /\ \A i \in 1..Len(q) + Len(r) : p[i] = IF i <= Len(q) THEN q[i] ELSE r[i - Len(q)]
  BY <1>1, <1>4, QueueConcat, QueueLen
<1> HIDE DEF p
<1>8. t = Fields(fakes, s.slots, s.hci, p, s.overflow, s.hung)
  BY <1>1, <1>2, StateExcept DEF p
<1>9. t.wm = fakes /\ t.hci = s.hci /\ t.evtQ = p /\ t.overflow = s.overflow
  BY <1>8 DEF Fields
<1>10. Longer(q, p)
  <2>1. \A i \in 1..Len(q) : p[i] = q[i]
    BY <1>7
  <2>2. Len(q) <= Len(p)
    BY <1>7
  <2>. QED BY <1>7, <2>1, <2>2 DEF Longer
<1>11. ASSUME NEW i \in 1..Len(p), i > Len(q) PROVE Mild(s, t, h, p[i])
  <2>1. i - Len(q) \in 1..Len(r) /\ p[i] = r[i - Len(q)]
    BY <1>7, <1>11
  <2>2. p[i].type = "con_req" /\ p[i].peer \in sent
    BY <1>5, <2>1
  <2>3. p[i].peer \in Wiimotes
    BY <1>3, <2>2
  <2>4. t.wm[p[i].peer].baseband = "inactive" /\ s.wm[p[i].peer].active
    BY <1>6, <1>9, <2>2, <2>3
  <2>. QED BY <2>2, <2>3, <2>4 DEF Mild, Asked
<1>12. \A w \in Wiimotes : Milder(s.wm[w], t.wm[w], s.hci.scan)
  BY <1>6, <1>9
<1>13. Eases(s, t, h)
  BY <1>9, <1>10, <1>11, <1>12 DEF Eases, q
<1>. QED BY <1>13 DEF t

LEMMA EasesHalt ==
    ASSUME Sound(Now), NEW where, NEW h
    PROVE  Eases(Now, Halt(where), h) /\ Eases(Now, Now, h)
<1> DEFINE t == Halt(where)
<1>1. State(Now) /\ Queue(Now.evtQ)
  BY DEF Sound, State
<1>2. t = Fields(wm, slots, hci, evtQ, overflow, where)
  <2> DEFINE g == Now
  <2>1. g = [wm |-> wm, slots |-> slots, hci |-> hci, evtQ |-> evtQ,
             overflow |-> overflow, hung |-> hung]
    BY DEF Now
  <2>2. t = [g EXCEPT !.hung = where]
    BY DEF Halt
  <2> HIDE DEF g, t
  <2>. QED BY <2>1, <2>2 DEF Fields
<1> HIDE DEF t
<1>3. /\ t.wm = Now.wm /\ t.hci = Now.hci /\ t.evtQ = Now.evtQ
      /\ t.overflow = Now.overflow
  BY <1>2, NowFields DEF Fields
<1>4. Eases(Now, t, h)
  BY <1>1, <1>3, EasesSame, MilderSame
<1>. QED BY <1>1, <1>4, EasesNothing DEF t

\* Answers to a command, or none and the module stops.
LEMMA EasesAnswers ==
    ASSUME Sound(Now), NEW es, NEW h, Queue(es), \A i \in 1..Len(es) : Bland(es[i])
    PROVE  Eases(Now, InjectAsserted(Now, es), h)
<1> DEFINE q == evtQ \o es
           a == [Now EXCEPT !.evtQ = q]
           t == InjectAsserted(Now, es)
<1>1. State(Now) /\ Queue(evtQ)
  BY NowFields DEF Sound, State
<1>2. t = a \/ t = Halt("inject")
  BY NowFields DEF InjectAsserted
<1>3. Eases(Now, Halt("inject"), h)
  BY EasesHalt
<1>4. /\ Queue(q) /\ Len(q) = Len(evtQ) + Len(es) /\ Len(evtQ) \in Nat /\ Len(es) \in Nat
      /\ \A i \in 1..Len(evtQ) + Len(es) :
            q[i] = IF i <= Len(evtQ) THEN evtQ[i] ELSE es[i - Len(evtQ)]
  BY <1>1, QueueConcat, QueueLen
<1> HIDE DEF q, t
<1>5. a = Fields(wm, slots, hci, q, overflow, hung)
  <2>1. a = Fields(Now.wm, Now.slots, Now.hci, q, Now.overflow, Now.hung)
    BY <1>1, StateExcept
  <2>. QED BY <2>1, NowFields, Zenon
<1> HIDE DEF a
<1>6. a.wm = wm /\ a.hci = hci /\ a.evtQ = q /\ a.overflow = overflow
  BY <1>5 DEF Fields
<1>7. Longer(evtQ, q)
  <2>1. \A i \in 1..Len(evtQ) : q[i] = evtQ[i]
    BY <1>4
  <2>2. Len(evtQ) <= Len(q)
    BY <1>4
  <2>. QED BY <1>4, <2>1, <2>2 DEF Longer
<1>8. ASSUME NEW i \in 1..Len(q), i > Len(evtQ) PROVE Bland(q[i])
  <2>1. i - Len(evtQ) \in 1..Len(es) /\ q[i] = es[i - Len(evtQ)]
    BY <1>4, <1>8
  <2>. QED BY <2>1
<1>9. Eases(Now, a, h)
  BY <1>6, <1>7, <1>8, NowFields, MilderSame DEF Eases, Mild
<1>. QED BY <1>2, <1>3, <1>9 DEF t

-----------------------------------------------------------------------------
(* Steps that count, credit, open or close                                  *)

LEMMA CreditsBehind ==
    ASSUME NEW q, NEW e, NEW v, Queue(q), Counts(q, v), Worth(e, v) \in Nat
    PROVE  /\ CreditsIn(q, v) \in Nat
           /\ CreditsIn(Append(q, e), v) = CreditsIn(q, v) + Worth(e, v)
<1> DEFINE r == Append(q, e)
           n == Len(q)
<1>1. /\ n \in Nat /\ Len(r) = n + 1 /\ r[Len(r)] = e
      /\ \A i \in 1..n : r[i] = q[i]
  BY QueueLen, QueueAppend
<1> HIDE DEF r, n
<1>2. Len(q) \in Nat /\ Len(r) \in Nat /\ Len(q) <= Len(r) /\ Len(r) = Len(q) + 1
  BY <1>1 DEF n
<1>3. \A i \in 1..Len(q) : r[i] = q[i]
  BY <1>1 DEF n
<1>4. /\ CreditsIn(q, v) \in Nat
      /\ CreditsIn(r, v) = CreditsIn(q, v) + Worth(r[Len(r)], v)
  BY <1>1, <1>2, <1>3, CreditsGrown
<1>. QED BY <1>1, <1>4 DEF r

\* The periodic event credits what the connected Wiimotes counted.
LEMMA FlushKeeps ==
    ASSUME NEW s, NEW h, Sound(s), Balanced(s, h), h.resetting \in BOOLEAN
    PROVE  Balanced(SendCompletedPackets(s), h)
<1> DEFINE con == {w \in Wiimotes : Connected(s, w)}
           counts == [v \in {s.wm[w].handle : w \in con} |->
                        s.wm[CHOOSE w \in con : s.wm[w].handle = v].credits]
           fakes == [w \in Wiimotes |->
                       IF w \in con THEN [s.wm[w] EXCEPT !.credits = 0] ELSE s.wm[w]]
           reset == [s EXCEPT !.wm = fakes]
           e == NumCompl(counts)
           t == Inject(reset, e)
           q == s.evtQ
<1>1. State(s) /\ s.wm \in [Wiimotes -> WiimoteRec] /\ Queue(q)
  BY DEF Sound, State
<1>2. \/ SendCompletedPackets(s) = s
      \/ con # {} /\ SendCompletedPackets(s) = t
  BY DEF SendCompletedPackets
<1>3. CASE SendCompletedPackets(s) = s
  BY <1>3
<1>4. ASSUME con # {} PROVE Balanced(t, h)
  <2>1. ~h.resetting /\ Settled(s, h)
    BY <1>4 DEF Balanced, Accounts, Quiet, Connected
  <2>2. ASSUME NEW w \in con
        PROVE  /\ Used(s, h, w) /\ s.wm[w].handle \in DOMAIN counts
               /\ counts[s.wm[w].handle] = s.wm[w].credits
    <3> DEFINE v == s.wm[w].handle
               x == CHOOSE y \in con : s.wm[y].handle = v
    <3>1. \A y \in con : Used(s, h, y)
      BY DEF Used, Connected
    <3>2. x \in con /\ s.wm[x].handle = v
      OBVIOUS
    <3>3. x = w
      BY <2>1, <3>1, <3>2 DEF Settled, GivenOut
    <3>4. v \in DOMAIN counts /\ counts[v] = s.wm[x].credits
      OBVIOUS
    <3>. QED BY <3>1, <3>3, <3>4
  <2>3. \A v \in DOMAIN counts : \E w \in con : v = s.wm[w].handle
    OBVIOUS
  <2>4. ASSUME NEW w \in Wiimotes
        PROVE  /\ fakes[w] \in WiimoteRec
               /\ fakes[w].active = s.wm[w].active
               /\ fakes[w].handle = s.wm[w].handle
               /\ fakes[w].baseband = s.wm[w].baseband
               /\ fakes[w].credits = IF w \in con THEN 0 ELSE s.wm[w].credits
    <3> DEFINE x == s.wm[w]
               y == [x EXCEPT !.credits = 0]
    <3>1. x \in WiimoteRec /\ 0 \in Nat
      BY <1>1
    <3>2. fakes[w] = IF w \in con THEN y ELSE x
      OBVIOUS
    <3> HIDE DEF x, fakes, con
    <3>3. /\ y \in WiimoteRec /\ y.active = x.active /\ y.baseband = x.baseband
          /\ y.handle = x.handle /\ y.credits = 0
      BY <3>1, WiimoteExcept
    <3>. QED BY <3>1, <3>2, <3>3 DEF x
  <2>5. fakes \in [Wiimotes -> WiimoteRec]
    <3>1. fakes = [w \in Wiimotes |-> fakes[w]]
      OBVIOUS
    <3> HIDE DEF fakes
    <3>. QED BY <2>4, <3>1
  <2> HIDE DEF fakes, counts
  <2>6. reset = Fields(fakes, s.slots, s.hci, s.evtQ, s.overflow, s.hung)
    BY <1>1, StateExcept
  <2> HIDE DEF reset
  <2>7. /\ State(reset) /\ reset.wm = fakes /\ reset.hci = s.hci
        /\ reset.evtQ = q /\ reset.overflow = s.overflow
    BY <1>1, <2>5, <2>6 DEF State, Fields
  <2>8. /\ t.wm = fakes /\ t.hci = s.hci
        /\ \/ t.evtQ = Append(q, e) /\ t.overflow = s.overflow
           \/ t.evtQ = q /\ t.overflow = TRUE
    <3> DEFINE f == e
    <3> HIDE DEF f
    <3> DEFINE u == Inject(reset, f)
    <3>1. /\ u.wm = reset.wm /\ u.hci = reset.hci
          /\ \/ u.evtQ = Append(reset.evtQ, f) /\ u.overflow = reset.overflow
             \/ u.evtQ = reset.evtQ /\ u.overflow = TRUE
      BY <2>7, InjectEffect
    <3>2. t = u
      BY DEF f
    <3> HIDE DEF t, u
    <3>3. /\ t.wm = fakes /\ t.hci = s.hci
          /\ \/ t.evtQ = Append(q, f) /\ t.overflow = s.overflow
             \/ t.evtQ = q /\ t.overflow = TRUE
      BY <2>7, <3>1, <3>2
    <3>. QED BY <3>3 DEF f
  <2> HIDE DEF t
  <2>9. /\ e.type = "num_compl" /\ e.counts = counts
        /\ \A v : Worth(e, v) = IF v \in DOMAIN counts THEN counts[v] ELSE 0
    BY DEF e, NumCompl, Worth
  <2> HIDE DEF e, q
  <2>10. \A w \in Wiimotes : Connected(t, w) <=> w \in con
    BY <2>4, <2>8 DEF Connected, con
  <2>11. ASSUME NEW v \in DOMAIN counts
         PROVE  v \in VirtHandles /\ counts[v] \in Nat /\ v < s.hci.last
    <3>1. PICK w \in con : v = s.wm[w].handle
      BY <2>3
    <3>2. w \in Wiimotes /\ s.wm[w].credits \in Nat /\ s.wm[w].handle \in VirtHandles
      BY <1>1 DEF con, WiimoteRec
    <3>. QED BY <2>1, <2>2, <3>1, <3>2 DEF Settled, GivenOut
  <2>12. ASSUME NEW i \in 1..Len(t.evtQ)
         PROVE  (i \in 1..Len(q) /\ t.evtQ[i] = q[i]) \/ t.evtQ[i] = e
    <3>1. CASE t.evtQ = q
      BY <3>1
    <3>2. CASE t.evtQ = Append(q, e)
      <4>1. Longer(q, t.evtQ) /\ (i > Len(q) => t.evtQ[i] = e)
        BY <1>1, <3>2, LongerAppend
      <4>. QED BY <1>1, <4>1, LongerOld
    <3>. QED BY <2>8, <3>1, <3>2
  <2>13. Priced(t.evtQ)
    BY <2>9, <2>11, <2>12 DEF Balanced, Accounts, Priced, Price, q
  <2>14. ASSUME NEW w \in Wiimotes
         PROVE  /\ t.wm[w].handle = s.wm[w].handle
                /\ Used(t, h, w) => Used(s, h, w)
    <3>1. Asking(t, h, w) => Asking(s, h, w)
      BY <2>9, <2>12 DEF Asking, q
    <3>. QED BY <2>4, <2>8, <3>1 DEF Used
  <2>15. GivenOut(t, h)
    BY <2>1, <2>8, <2>14 DEF Settled, GivenOut
  <2>16. Counting(t, h)
    <3>1. ASSUME NEW w \in Wiimotes, t.wm[w].active, t.wm[w].baseband # "complete"
          PROVE  t.wm[w].credits = 0
      BY <2>1, <2>4, <2>8, <3>1 DEF Settled, Counting, con, Connected
    <3>2. ASSUME NEW w \in Wiimotes, Connected(t, w), t.wm[w].credits > 0
          PROVE  FALSE
      BY <2>4, <2>8, <2>10, <3>2
    <3>. QED BY <3>1, <3>2 DEF Counting
  <2>17. ASSUME NEW i \in 1..Len(t.evtQ)
         PROVE  Fits(t, h, t.evtQ[i])
    <3> DEFINE f == t.evtQ[i]
    <3> HIDE DEF f
    <3>1. CASE i \in 1..Len(q) /\ f = q[i]
      <4>1. Opened(s, h, f) /\ Ended(s, f) /\ Credited(s, f)
        BY <2>1, <3>1 DEF Settled, Fits, q
      <4>2. \A w \in Wiimotes : Connected(t, w) => Connected(s, w)
        BY <2>10 DEF con
      <4>3. Ended(t, f)
        BY <2>8, <2>14, <4>1, <4>2 DEF Ended
      <4>4. Opened(t, h, f) /\ Credited(t, f)
        BY <2>8, <4>1 DEF Opened, Credited
      <4>. QED BY <4>3, <4>4 DEF Fits, f
    <3>2. CASE f = e
      <4>1. Fits(t, h, e)
        BY <2>8, <2>9, <2>11 DEF Fits, Opened, Ended, Credited
      <4>. QED BY <3>2, <4>1 DEF f
    <3>. QED BY <2>12, <3>1, <3>2 DEF f
  <2>18. Alone(t.evtQ)
    <3>1. ASSUME NEW i \in 1..Len(t.evtQ), NEW j \in 1..Len(t.evtQ),
                 t.evtQ[i].type = "con_compl"
          PROVE  /\ Worth(t.evtQ[j], t.evtQ[i].handle) = 0
                 /\ t.evtQ[j].type = "con_compl" /\ t.evtQ[j].handle = t.evtQ[i].handle
                       => i = j
      <4>1. i \in 1..Len(q) /\ t.evtQ[i] = q[i]
        BY <2>9, <2>12, <3>1
      <4>2. CASE j \in 1..Len(q) /\ t.evtQ[j] = q[j]
        BY <2>1, <3>1, <4>1, <4>2 DEF Settled, Alone, q
      <4>3. CASE t.evtQ[j] = e
        <5> DEFINE v == q[i].handle
        <5>1. Opened(s, h, q[i]) /\ q[i].type = "con_compl"
          BY <2>1, <3>1, <4>1 DEF Settled, Fits, q
        <5>2. h.con[v].peer = Nobody
          BY <5>1 DEF Opened
        <5> HIDE DEF v
        <5>3. ASSUME v \in DOMAIN counts PROVE counts[v] = 0
          <6>1. PICK w \in con : v = s.wm[w].handle
            BY <2>3, <5>3
          <6>2. w \in Wiimotes /\ s.wm[w].credits \in Nat /\ Connected(s, w)
            BY <1>1 DEF con, WiimoteRec
          <6>3. w # Nobody
            BY <6>2, CoreAssumption DEF Wiimotes
          <6>4. ~(s.wm[w].credits > 0)
            BY <2>1, <5>2, <6>1, <6>2, <6>3 DEF Settled, Counting
          <6>. QED BY <2>2, <6>1, <6>2, <6>4
        <5>4. Worth(e, v) = 0
          BY <2>9, <5>3
        <5>. QED BY <2>9, <4>1, <4>3, <5>4 DEF v
      <4>. QED BY <2>12, <4>2, <4>3
    <3>. QED BY <3>1 DEF Alone
  <2>19. Accounts(t, h)
    BY <2>1, <2>13, <2>15, <2>16, <2>17, <2>18 DEF Accounts, Settled
  <2>20. ASSUME NEW w \in Wiimotes, Connected(t, w), h.con[t.wm[w].handle].peer = w,
                ~t.overflow
         PROVE  Owes(t, h, w)
    <3> DEFINE v == s.wm[w].handle
    <3>1. /\ t.wm[w].handle = v /\ t.wm[w].credits = 0 /\ w \in con /\ Connected(s, w)
      BY <2>4, <2>8, <2>10, <2>20 DEF con
    <3>2. t.evtQ = Append(q, e) /\ ~s.overflow
      BY <2>8, <2>20
    <3>3. h.con[v].sent = s.wm[w].credits + CreditsIn(q, v)
      BY <2>20, <3>1, <3>2 DEF Balanced, Paid, Owes, q
    <3>4. Worth(e, v) = s.wm[w].credits /\ s.wm[w].credits \in Nat
      BY <1>1, <2>2, <2>9, <3>1 DEF WiimoteRec
    <3>5. Counts(q, v)
      BY PricedCounts DEF Balanced, Accounts, q
    <3> HIDE DEF v
    <3>6. CreditsIn(q, v) \in Nat /\ CreditsIn(t.evtQ, v) = CreditsIn(q, v) + Worth(e, v)
      BY <1>1, <3>2, <3>4, <3>5, CreditsBehind
    <3>7. h.con[v].sent = 0 + CreditsIn(t.evtQ, v)
      BY <3>3, <3>4, <3>6
    <3>. QED BY <3>1, <3>7 DEF Owes
  <2>. QED BY <2>19, <2>20 DEF Balanced, Paid
<1>. QED BY <1>2, <1>3, <1>4

\* What the host knows of handles that no connected Wiimote has does not matter,
\* nor what it forgets.
LEMMA PaidElsewhere ==
    ASSUME NEW t, NEW h, NEW k, Paid(t, h),
           \A w \in Wiimotes : Connected(t, w) =>
              \/ k.con[t.wm[w].handle] = h.con[t.wm[w].handle]
              \/ k.con[t.wm[w].handle].peer = Nobody
    PROVE  Paid(t, k)
<1> SUFFICES ASSUME NEW w \in Wiimotes, Connected(t, w), k.con[t.wm[w].handle].peer = w,
                    ~t.overflow
             PROVE  Owes(t, k, w)
  BY DEF Paid
<1>1. w # Nobody
  BY CoreAssumption DEF Wiimotes
<1>. QED BY <1>1 DEF Paid, Owes

LEMMA HostElsewhere ==
    ASSUME NEW t, NEW h, NEW k, Balanced(t, h),
           k.requests \subseteq h.requests, k.resetting = h.resetting,
           \A u \in VirtHandles : k.con[u].peer \in {h.con[u].peer, Nobody},
           \A w \in Wiimotes :
              Connected(t, w) => k.con[t.wm[w].handle] = h.con[t.wm[w].handle]
    PROVE  Balanced(t, k)
<1>1. Paid(t, k)
  BY PaidElsewhere DEF Balanced
<1>2. \A w \in Wiimotes : Used(t, k, w) => Used(t, h, w)
  BY DEF Used, Asking
<1>3. ASSUME Settled(t, h) PROVE Settled(t, k)
  <2>1. GivenOut(t, k)
    BY <1>2, <1>3 DEF Settled, GivenOut
  <2>2. Counting(t, k)
    BY <1>3 DEF Settled, Counting
  <2>3. ASSUME NEW e, Fits(t, h, e) PROVE Fits(t, k, e)
    BY <2>3 DEF Fits, Opened
  <2>. QED BY <1>3, <2>1, <2>2, <2>3 DEF Settled
<1>4. Quiet(t, h) => Quiet(t, k)
  BY DEF Quiet
<1>. QED BY <1>1, <1>3, <1>4 DEF Balanced, Accounts

\* A packet is counted by the Wiimote and by the host.
LEMMA CountKeeps ==
    ASSUME NEW s, NEW t, NEW h, NEW k, State(s), Balanced(s, h), ~h.resetting,
           k.requests = h.requests, k.resetting = h.resetting,
           NEW w \in Wiimotes, Connected(s, w), h.con[s.wm[w].handle].peer = w,
           t.hci = s.hci, t.evtQ = s.evtQ, t.overflow = s.overflow,
           \A x \in Wiimotes : x # w => t.wm[x] = s.wm[x],
           t.wm[w].active = s.wm[w].active, t.wm[w].baseband = s.wm[w].baseband,
           t.wm[w].handle = s.wm[w].handle, t.wm[w].credits = s.wm[w].credits + 1,
           \A u \in VirtHandles : u # s.wm[w].handle => k.con[u] = h.con[u],
           k.con[s.wm[w].handle].peer = w,
           k.con[s.wm[w].handle].sent = h.con[s.wm[w].handle].sent + 1
    PROVE  Balanced(t, k)
<1> DEFINE v == s.wm[w].handle
<1>0. Settled(s, h) /\ Priced(s.evtQ)
  BY DEF Balanced, Accounts
<1>1. ASSUME NEW x \in Wiimotes
      PROVE  /\ t.wm[x].active = s.wm[x].active /\ t.wm[x].baseband = s.wm[x].baseband
             /\ t.wm[x].handle = s.wm[x].handle
             /\ Used(t, k, x) <=> Used(s, h, x)
             /\ Connected(t, x) <=> Connected(s, x)
  <2>1. /\ t.wm[x].active = s.wm[x].active /\ t.wm[x].baseband = s.wm[x].baseband
        /\ t.wm[x].handle = s.wm[x].handle
    <3>1. CASE x = w
      BY <3>1
    <3>2. CASE x # w
      BY <3>2
    <3>. QED BY <3>1, <3>2
  <2>. QED BY <2>1 DEF Used, Asking, Connected
<1>2. GivenOut(t, k)
  BY <1>0, <1>1 DEF Settled, GivenOut
<1>3. ASSUME NEW x \in Wiimotes, Connected(s, x), x # w
      PROVE  /\ s.wm[x].handle # v /\ t.wm[x] = s.wm[x]
             /\ k.con[s.wm[x].handle] = h.con[s.wm[x].handle]
  <2>1. Used(s, h, x) /\ Used(s, h, w)
    BY <1>3 DEF Used, Connected
  <2>2. s.wm[x].handle # v
    BY <1>0, <1>3, <2>1 DEF Settled, GivenOut
  <2>3. s.wm[x].handle \in VirtHandles
    BY DEF State, WiimoteRec
  <2>. QED BY <1>3, <2>2, <2>3
<1>4. Counting(t, k)
  <2>1. ASSUME NEW x \in Wiimotes, t.wm[x].active, t.wm[x].baseband # "complete"
        PROVE  t.wm[x].credits = 0
    <3>1. x # w
      BY <1>1, <2>1 DEF Connected
    <3>. QED BY <1>0, <2>1, <3>1 DEF Settled, Counting
  <2>2. ASSUME NEW x \in Wiimotes, Connected(t, x), t.wm[x].credits > 0
        PROVE  k.con[t.wm[x].handle].peer = x
    <3>1. CASE x = w
      BY <3>1
    <3>2. CASE x # w
      BY <1>0, <1>1, <1>3, <2>2, <3>2 DEF Settled, Counting
    <3>. QED BY <3>1, <3>2
  <2>. QED BY <2>1, <2>2 DEF Counting
<1>5. \A u \in VirtHandles : k.con[u].peer = h.con[u].peer
  OBVIOUS
<1>6. ASSUME NEW e, Fits(s, h, e) PROVE Fits(t, k, e)
  <2>1. Ended(t, e)
    BY <1>1, <1>6 DEF Fits, Ended
  <2>2. Opened(t, k, e) /\ Credited(t, e)
    BY <1>5, <1>6 DEF Fits, Opened, Credited
  <2>. QED BY <2>1, <2>2 DEF Fits
<1>7. Accounts(t, k)
  BY <1>0, <1>2, <1>4, <1>6 DEF Accounts, Settled
<1>8. ASSUME NEW x \in Wiimotes, Connected(t, x), k.con[t.wm[x].handle].peer = x,
             ~t.overflow
      PROVE  Owes(t, k, x)
  <2>1. CASE x # w
    <3>1. /\ t.wm[x] = s.wm[x] /\ k.con[s.wm[x].handle] = h.con[s.wm[x].handle]
          /\ Connected(s, x)
      BY <1>1, <1>3, <1>8, <2>1
    <3>2. Owes(s, h, x)
      BY <1>8, <3>1 DEF Balanced, Paid
    <3>. QED BY <3>1, <3>2 DEF Owes
  <2>2. CASE x = w
    <3>1. h.con[v].sent = s.wm[w].credits + CreditsIn(s.evtQ, v)
      BY <1>8 DEF Balanced, Paid, Owes
    <3>2. CreditsIn(s.evtQ, v) \in Nat
      <4>1. Counts(s.evtQ, v) /\ Queue(s.evtQ)
        BY <1>0, PricedCounts DEF State
      <4>2. /\ Len(s.evtQ) \in Nat /\ Len(s.evtQ) <= Len(s.evtQ)
            /\ \A i \in 1..Len(s.evtQ) : s.evtQ[i] = s.evtQ[i]
        BY <4>1, QueueLen
      <4>. QED BY <4>1, <4>2, CreditsGrown
    <3>3. s.wm[w].credits \in Nat
      BY DEF State, WiimoteRec
    <3>4. h.con[v].sent + 1 = (s.wm[w].credits + 1) + CreditsIn(s.evtQ, v)
      BY <3>1, <3>2, <3>3
    <3>. QED BY <2>2, <3>4 DEF Owes
  <2>. QED BY <2>1, <2>2
<1>. QED BY <1>7, <1>8 DEF Balanced, Paid

\* The tracker changes, and the host is told at most of the end of a connection.
LEMMA TrackKeeps ==
    ASSUME NEW s, NEW t, NEW h, State(s), Balanced(s, h), ~h.resetting,
           t.wm = s.wm, t.hci.last = s.hci.last, s.overflow => t.overflow,
           Longer(s.evtQ, t.evtQ), NEW v,
           \A i \in 1..Len(t.evtQ) : i > Len(s.evtQ) =>
              /\ t.evtQ[i] = DisconCompl(v)
              /\ v \in VirtHandles /\ v < s.hci.last
              /\ \A w \in Wiimotes : Connected(s, w) => s.wm[w].handle # v
    PROVE  Balanced(t, h)
<1> DEFINE q == s.evtQ
           r == t.evtQ
           e == DisconCompl(v)
<1>0. Settled(s, h) /\ Priced(q) /\ Queue(q)
  BY DEF Balanced, Accounts, State
<1>1. /\ e.type = "discon_compl" /\ e.handle = v
      /\ \A u : Worth(e, u) = 0
  BY DEF DisconCompl, Worth
<1> HIDE DEF e
<1>2. ASSUME NEW i \in 1..Len(r)
      PROVE  (i \in 1..Len(q) /\ r[i] = q[i]) \/ (r[i] = e /\ i > Len(q))
  BY <1>0, LongerOld DEF e
<1>3. \A w \in Wiimotes : Connected(t, w) <=> Connected(s, w)
  BY DEF Connected
<1>4. ASSUME NEW w \in Wiimotes, Used(t, h, w) PROVE Used(s, h, w)
  <2>1. Asking(t, h, w) => Asking(s, h, w)
    BY <1>1, <1>2 DEF Asking
  <2>. QED BY <1>4, <2>1 DEF Used
<1>5. GivenOut(t, h) /\ Counting(t, h)
  BY <1>0, <1>3, <1>4 DEF Settled, GivenOut, Counting
<1>6. ASSUME NEW i \in 1..Len(r) PROVE Fits(t, h, r[i]) /\ Price(r[i])
  <2>1. CASE i \in 1..Len(q) /\ r[i] = q[i]
    <3>1. Fits(s, h, q[i]) /\ Price(q[i])
      BY <1>0, <2>1 DEF Settled, Priced
    <3> HIDE DEF q, r
    <3>2. Fits(t, h, q[i])
      BY <1>3, <3>1 DEF Fits, Opened, Ended, Credited
    <3>. QED BY <2>1, <3>1, <3>2
  <2>2. CASE r[i] = e /\ i > Len(q)
    <3>1. /\ v \in VirtHandles /\ v < t.hci.last
          /\ \A w \in Wiimotes : Connected(t, w) => t.wm[w].handle # v
      BY <1>3, <2>2
    <3>2. Fits(t, h, e) /\ Price(e)
      BY <1>1, <3>1 DEF Fits, Opened, Ended, Credited, Price
    <3>. QED BY <2>2, <3>2
  <2>. QED BY <1>2, <2>1, <2>2
<1>7. Alone(r)
  <2>1. ASSUME NEW i \in 1..Len(r), NEW j \in 1..Len(r), r[i].type = "con_compl"
        PROVE  /\ Worth(r[j], r[i].handle) = 0
               /\ r[j].type = "con_compl" /\ r[j].handle = r[i].handle => i = j
    <3>1. i \in 1..Len(q) /\ r[i] = q[i]
      BY <1>1, <1>2, <2>1
    <3>2. CASE j \in 1..Len(q) /\ r[j] = q[j]
      BY <1>0, <2>1, <3>1, <3>2 DEF Settled, Alone
    <3>3. CASE r[j] = e
      BY <1>1, <3>3
    <3>. QED BY <1>2, <3>2, <3>3
  <2>. QED BY <2>1 DEF Alone
<1>8. Accounts(t, h)
  BY <1>5, <1>6, <1>7 DEF Accounts, Settled, Priced
<1>9. ASSUME NEW u PROVE CreditsIn(r, u) = CreditsIn(q, u)
  <2>1. Len(q) \in Nat /\ Len(r) \in Nat /\ Len(q) <= Len(r)
        /\ \A i \in 1..Len(q) : r[i] = q[i]
    BY <1>0, QueueLen DEF Longer
  <2>2. Counts(q, u)
    BY <1>0, PricedCounts
  <2>3. \A i \in 1..Len(r) : i > Len(q) => Worth(r[i], u) = 0
    BY <1>1 DEF e
  <2> HIDE DEF q, r
  <2>. QED BY <2>1, <2>2, <2>3, CreditsGrown
<1>10. Paid(t, h)
  BY <1>3, <1>9 DEF Balanced, Paid, Owes
<1>. QED BY <1>8, <1>10 DEF Balanced

\* Peer p is given the next handle, and the host will be told; what was told
\* before is not about that handle.
LEMMA OpensKeeps ==
    ASSUME NEW s, NEW t, NEW h, State(s), Balanced(s, h), ~h.resetting,
           NEW last \in VirtHandles, s.hci.last = last, t.hci.last = last + 1,
           h.con[last].peer = Nobody, NEW p, s.overflow => t.overflow,
           \A w \in Wiimotes : w # p => t.wm[w] = s.wm[w],
           p \in Wiimotes => /\ t.wm[p].handle = last /\ t.wm[p].baseband = "complete"
                             /\ t.wm[p].active => t.wm[p].credits = 0,
           Longer(s.evtQ, t.evtQ),
           \A i \in 1..Len(t.evtQ) : i > Len(s.evtQ) =>
              \/ t.evtQ[i] = Reply
              \/ t.evtQ[i] = ConCompl(p, last) /\ i = Len(t.evtQ)
    PROVE  Balanced(t, h)
<1> DEFINE q == s.evtQ
           r == t.evtQ
           e == ConCompl(p, last)
<1>0. Settled(s, h) /\ Priced(q) /\ Queue(q)
  BY DEF Balanced, Accounts, State
<1>1. /\ e.type = "con_compl" /\ e.handle = last /\ Reply.type = "reply"
      /\ \A u : Worth(e, u) = 0 /\ Worth(Reply, u) = 0
  BY DEF ConCompl, Worth, Reply
<1> HIDE DEF e
<1>2. ASSUME NEW i \in 1..Len(r)
      PROVE  \/ i \in 1..Len(q) /\ r[i] = q[i]
             \/ r[i] = Reply
             \/ r[i] = e /\ i = Len(r)
  BY <1>0, LongerOld DEF e
<1>3. last \in Nat /\ VirtHandles \subseteq Nat
  BY DEF VirtHandles
<1>4. \A u \in VirtHandles : u < last => u < last + 1 /\ u # last
  BY <1>3
<1>5. ASSUME NEW w \in Wiimotes
      PROVE  s.wm[w].handle \in VirtHandles
  BY DEF State, WiimoteRec
<1>6. ASSUME NEW w \in Wiimotes, w # p, Used(t, h, w)
      PROVE  /\ Used(s, h, w) /\ t.wm[w] = s.wm[w]
             /\ s.wm[w].handle < last /\ s.wm[w].handle # last
  <2>1. Asking(t, h, w) => Asking(s, h, w)
    BY <1>1, <1>2 DEF Asking
  <2>2. Used(s, h, w) /\ t.wm[w] = s.wm[w]
    BY <1>6, <2>1 DEF Used
  <2>3. s.wm[w].handle < last
    BY <1>0, <2>2 DEF Settled, GivenOut
  <2>. QED BY <1>4, <1>5, <2>2, <2>3
<1>7. GivenOut(t, h)
  <2>1. ASSUME NEW w \in Wiimotes, Used(t, h, w) PROVE t.wm[w].handle < t.hci.last
    <3>1. CASE w = p
      <4>1. last < last + 1
        BY <1>3
      <4>. QED BY <3>1, <4>1
    <3>2. CASE w # p
      BY <1>4, <1>5, <1>6, <2>1, <3>2
    <3>. QED BY <3>1, <3>2
  <2>2. ASSUME NEW w \in Wiimotes, NEW x \in Wiimotes, Used(t, h, w), Used(t, h, x),
               t.wm[w].handle = t.wm[x].handle
        PROVE  w = x
    <3>1. CASE w = p \/ x = p
      BY <1>6, <2>2, <3>1
    <3>2. CASE w # p /\ x # p
      <4>1. /\ Used(s, h, w) /\ Used(s, h, x)
            /\ s.wm[w].handle = s.wm[x].handle
        BY <1>6, <2>2, <3>2
      <4>. QED BY <1>0, <4>1 DEF Settled, GivenOut
    <3>. QED BY <3>1, <3>2
  <2>. QED BY <2>1, <2>2 DEF GivenOut
<1>8. Counting(t, h)
  <2>1. ASSUME NEW w \in Wiimotes, t.wm[w].active, t.wm[w].baseband # "complete"
        PROVE  t.wm[w].credits = 0
    <3>1. t.wm[w] = s.wm[w]
      BY <2>1
    <3>. QED BY <1>0, <2>1, <3>1 DEF Settled, Counting
  <2>2. ASSUME NEW w \in Wiimotes, Connected(t, w), t.wm[w].credits > 0
        PROVE  h.con[t.wm[w].handle].peer = w
    <3>1. w # p
      BY <2>2 DEF Connected
    <3>2. t.wm[w] = s.wm[w] /\ Connected(s, w)
      BY <2>2, <3>1 DEF Connected
    <3>. QED BY <1>0, <2>2, <3>2 DEF Settled, Counting
  <2>. QED BY <2>1, <2>2 DEF Counting
<1>9. ASSUME NEW w \in Wiimotes, Connected(t, w)
      PROVE  \/ Connected(s, w) /\ t.wm[w] = s.wm[w] /\ w # p
             \/ t.wm[w].handle = last
  BY <1>9 DEF Connected
<1>10. ASSUME NEW i \in 1..Len(r) PROVE Fits(t, h, r[i]) /\ Price(r[i])
  <2>1. CASE i \in 1..Len(q) /\ r[i] = q[i]
    <3> DEFINE f == q[i]
    <3>1. Opened(s, h, f) /\ Ended(s, f) /\ Credited(s, f) /\ Price(f)
      BY <1>0, <2>1 DEF Settled, Fits, Priced
    <3> HIDE DEF f, q, r
    <3>2. Opened(t, h, f)
      BY <1>4, <3>1 DEF Opened
    <3>3. Ended(t, f)
      BY <1>4, <1>9, <3>1 DEF Ended
    <3>4. Credited(t, f)
      BY <1>4, <3>1 DEF Credited, Price
    <3>. QED BY <2>1, <3>1, <3>2, <3>3, <3>4 DEF Fits, f
  <2>2. CASE r[i] = Reply
    <3>1. Fits(t, h, Reply) /\ Price(Reply)
      BY <1>1 DEF Fits, Opened, Ended, Credited, Price
    <3>. QED BY <2>2, <3>1
  <2>3. CASE r[i] = e
    <3>1. last < t.hci.last
      BY <1>3
    <3>2. Fits(t, h, e) /\ Price(e)
      BY <1>1, <3>1 DEF Fits, Opened, Ended, Credited, Price
    <3>. QED BY <2>3, <3>2
  <2>. QED BY <1>2, <2>1, <2>2, <2>3
<1>11. ASSUME NEW j \in 1..Len(q)
       PROVE  /\ Worth(q[j], last) = 0
              /\ q[j].type = "con_compl" => q[j].handle # last
  <2> DEFINE f == q[j]
  <2>1. Opened(s, h, f) /\ Credited(s, f) /\ Price(f)
    BY <1>0 DEF Settled, Fits, Priced
  <2> HIDE DEF f
  <2>2. f.type = "con_compl" => f.handle # last
    BY <1>4, <2>1 DEF Opened
  <2>3. ASSUME f.type = "num_compl", last \in DOMAIN f.counts PROVE f.counts[last] = 0
    <3>1. f.counts[last] \in Nat
      BY <2>1, <2>3 DEF Price
    <3>2. ~(f.counts[last] > 0)
      BY <1>3, <1>4, <2>1, <2>3 DEF Credited
    <3>. QED BY <3>1, <3>2
  <2>4. Worth(f, last) = 0
    BY <2>3 DEF Worth
  <2>. QED BY <2>2, <2>4 DEF f
<1>12. Alone(r)
  <2>1. ASSUME NEW i \in 1..Len(r), NEW j \in 1..Len(r), r[i].type = "con_compl"
        PROVE  /\ Worth(r[j], r[i].handle) = 0
               /\ r[j].type = "con_compl" /\ r[j].handle = r[i].handle => i = j
    <3>1. CASE i \in 1..Len(q) /\ r[i] = q[i]
      <4>1. q[i].handle # last
        BY <1>11, <2>1, <3>1
      <4>2. CASE j \in 1..Len(q) /\ r[j] = q[j]
        BY <1>0, <2>1, <3>1, <4>2 DEF Settled, Alone
      <4>3. CASE r[j] = Reply
        BY <1>1, <4>3
      <4>4. CASE r[j] = e
        BY <1>1, <3>1, <4>1, <4>4
      <4>. QED BY <1>2, <4>2, <4>3, <4>4
    <3>2. CASE r[i] = e /\ i = Len(r)
      <4>1. CASE j \in 1..Len(q) /\ r[j] = q[j]
        BY <1>1, <1>11, <3>2, <4>1
      <4>2. CASE r[j] = Reply
        BY <1>1, <4>2
      <4>3. CASE r[j] = e /\ j = Len(r)
        BY <1>1, <3>2, <4>3
      <4>. QED BY <1>2, <4>1, <4>2, <4>3
    <3>. QED BY <1>1, <1>2, <2>1, <3>1, <3>2
  <2>. QED BY <2>1 DEF Alone
<1>13. Accounts(t, h)
  BY <1>7, <1>8, <1>10, <1>12 DEF Accounts, Settled, Priced
<1>14. ASSUME NEW u PROVE CreditsIn(r, u) = CreditsIn(q, u)
  <2>1. Len(q) \in Nat /\ Len(r) \in Nat /\ Len(q) <= Len(r)
        /\ \A i \in 1..Len(q) : r[i] = q[i]
    BY <1>0, QueueLen DEF Longer
  <2>2. Counts(q, u)
    BY <1>0, PricedCounts
  <2>3. \A i \in 1..Len(r) : i > Len(q) => Worth(r[i], u) = 0
    BY <1>1 DEF e
  <2> HIDE DEF q, r
  <2>. QED BY <2>1, <2>2, <2>3, CreditsGrown
<1>15. ASSUME NEW w \in Wiimotes, Connected(t, w), h.con[t.wm[w].handle].peer = w,
              ~t.overflow
       PROVE  Owes(t, h, w)
  <2>1. w # Nobody
    BY CoreAssumption DEF Wiimotes
  <2>2. Connected(s, w) /\ t.wm[w] = s.wm[w]
    BY <1>9, <1>15, <2>1
  <2>3. Owes(s, h, w)
    BY <1>15, <2>2 DEF Balanced, Paid
  <2>. QED BY <1>14, <2>2, <2>3 DEF Owes
<1>. QED BY <1>13, <1>15 DEF Balanced, Paid

-----------------------------------------------------------------------------
(* The host reads an event                                                  *)

\* In t the first event of s has been read.
Reads(s, t) ==
    /\ Queue(s.evtQ) /\ s.evtQ # <<>>
    /\ t.wm = s.wm /\ t.hci = s.hci /\ t.overflow = s.overflow
    /\ t.evtQ = Tail(s.evtQ)

LEMMA ReadQueue ==
    ASSUME NEW s, NEW t, Reads(s, t)
    PROVE  /\ Head(s.evtQ) = s.evtQ[1] /\ 1 \in 1..Len(s.evtQ)
           /\ \A i \in 1..Len(t.evtQ) :
                 i + 1 \in 1..Len(s.evtQ) /\ i + 1 > 1 /\ t.evtQ[i] = s.evtQ[i + 1]
<1> DEFINE q == s.evtQ
           r == t.evtQ
<1>1. /\ Len(q) \in Nat \ {0} /\ Head(q) = q[1] /\ Len(r) = Len(q) - 1
      /\ \A i \in 1..Len(q) - 1 : r[i] = q[i + 1]
  BY QueueTail DEF Reads
<1> HIDE DEF q, r
<1>2. 1 \in 1..Len(q) /\ \A i \in 1..Len(r) : i + 1 \in 1..Len(q) /\ i + 1 > 1
  BY <1>1
<1>. QED BY <1>1, <1>2 DEF q, r

LEMMA ReadCredits ==
    ASSUME NEW s, NEW t, Reads(s, t), Priced(s.evtQ), NEW v
    PROVE  /\ Priced(t.evtQ)
           /\ CreditsIn(t.evtQ, v) \in Nat /\ Worth(Head(s.evtQ), v) \in Nat
           /\ CreditsIn(s.evtQ, v) = Worth(Head(s.evtQ), v) + CreditsIn(t.evtQ, v)
<1> DEFINE q == s.evtQ
           r == t.evtQ
<1>1. /\ Len(q) \in Nat \ {0} /\ Head(q) = q[1] /\ Len(r) = Len(q) - 1
      /\ \A i \in 1..Len(q) - 1 : r[i] = q[i + 1]
  BY QueueTail DEF Reads
<1>2. Counts(q, v)
  BY PricedCounts
<1>3. Priced(r)
  BY ReadQueue DEF Priced
<1> HIDE DEF q, r
<1>4. \A i \in 1..Len(r) : r[i] = q[i + 1]
  BY <1>1
<1>5. /\ CreditsIn(r, v) \in Nat /\ Worth(q[1], v) \in Nat
      /\ CreditsIn(q, v) = Worth(q[1], v) + CreditsIn(r, v)
  BY <1>1, <1>2, <1>4, CreditsTail
<1>. QED BY <1>1, <1>3, <1>5 DEF q, r

\* While it waits for the end of a reset.
LEMMA ReadQuiet ==
    ASSUME NEW s, NEW t, NEW h, Reads(s, t), Balanced(s, h), h.resetting
    PROVE  Balanced(t, h)
<1>1. Quiet(s, h) /\ Priced(s.evtQ)
  BY DEF Balanced, Accounts
<1>2. ASSUME NEW i \in 1..Len(t.evtQ), NEW j \in 1..Len(t.evtQ),
             t.evtQ[i].type = "reset_compl", i < j
      PROVE  Bland(t.evtQ[j])
  <2>1. /\ i + 1 \in 1..Len(s.evtQ) /\ t.evtQ[i] = s.evtQ[i + 1]
        /\ j + 1 \in 1..Len(s.evtQ) /\ t.evtQ[j] = s.evtQ[j + 1]
    BY ReadQueue
  <2>2. i + 1 < j + 1
    BY <1>2
  <2>3. s.evtQ[i + 1].type = "reset_compl"
    BY <1>2, <2>1
  <2>4. Bland(s.evtQ[j + 1])
    BY <1>1, <2>1, <2>2, <2>3 DEF Quiet
  <2>. QED BY <2>1, <2>4
<1>3. Quiet(t, h)
  BY <1>1, <1>2 DEF Quiet, Reads
<1>4. Priced(t.evtQ)
  BY <1>1, ReadCredits
<1>5. Paid(t, h)
  BY <1>3 DEF Paid, Quiet, Connected
<1>. QED BY <1>3, <1>4, <1>5 DEF Balanced, Accounts

\* The end of a reset.
LEMMA ReadReset ==
    ASSUME NEW s, NEW t, NEW h, NEW k, Reads(s, t), Balanced(s, h), h.resetting,
           Head(s.evtQ).type = "reset_compl", k.requests = h.requests, ~k.resetting
    PROVE  Balanced(t, k)
<1>1. Quiet(s, h) /\ Priced(s.evtQ)
  BY DEF Balanced, Accounts
<1>2. ASSUME NEW i \in 1..Len(t.evtQ) PROVE Bland(t.evtQ[i])
  <2>1. /\ i + 1 \in 1..Len(s.evtQ) /\ 1 \in 1..Len(s.evtQ) /\ 1 < i + 1
        /\ t.evtQ[i] = s.evtQ[i + 1] /\ s.evtQ[1].type = "reset_compl"
    BY ReadQueue
  <2>. QED BY <1>1, <2>1 DEF Quiet
<1>3. \A w \in Wiimotes : ~t.wm[w].active /\ ~Asking(t, k, w)
  BY <1>1, <1>2 DEF Quiet, Reads, Asking, Bland
<1>4. GivenOut(t, k) /\ Counting(t, k)
  BY <1>3 DEF GivenOut, Counting, Used, Connected
<1>5. \A i \in 1..Len(t.evtQ) : Fits(t, k, t.evtQ[i])
  BY <1>2 DEF Fits, Opened, Ended, Credited, Bland
<1>6. Alone(t.evtQ)
  BY <1>2 DEF Alone, Bland
<1>7. Priced(t.evtQ)
  BY <1>1, ReadCredits
<1>8. Paid(t, k)
  BY <1>3 DEF Paid, Connected
<1>. QED BY <1>4, <1>5, <1>6, <1>7, <1>8 DEF Balanced, Accounts, Settled

\* What is left to read after another event.
LEMMA ReadSettled ==
    ASSUME NEW s, NEW t, NEW h, NEW k, Reads(s, t), Settled(s, h),
           \A w \in Wiimotes : w \in k.requests => Asking(s, h, w),
           \A w \in Wiimotes : Connected(s, w) /\ s.wm[w].credits > 0 =>
              k.con[s.wm[w].handle].peer = w,
           \A i \in 1..Len(s.evtQ) : i > 1 => Opened(s, k, s.evtQ[i])
    PROVE  Settled(t, k)
<1>1. ASSUME NEW w \in Wiimotes, Used(t, k, w) PROVE Used(s, h, w)
  <2>1. Asking(t, k, w) => Asking(s, h, w)
    BY ReadQueue DEF Asking
  <2>. QED BY <1>1, <2>1 DEF Used, Reads
<1>2. \A w \in Wiimotes : Connected(t, w) <=> Connected(s, w)
  BY DEF Connected, Reads
<1>3. GivenOut(t, k)
  BY <1>1 DEF Settled, GivenOut, Reads
<1>4. Counting(t, k)
  BY <1>2 DEF Settled, Counting, Reads
<1>5. ASSUME NEW i \in 1..Len(t.evtQ) PROVE Fits(t, k, t.evtQ[i])
  <2> DEFINE e == s.evtQ[i + 1]
  <2>1. i + 1 \in 1..Len(s.evtQ) /\ i + 1 > 1 /\ t.evtQ[i] = e
    BY ReadQueue
  <2>2. Opened(s, k, e) /\ Ended(s, e) /\ Credited(s, e)
    BY <2>1 DEF Settled, Fits
  <2> HIDE DEF e
  <2>3. Opened(t, k, e) /\ Ended(t, e) /\ Credited(t, e)
    BY <1>2, <2>2 DEF Opened, Ended, Credited, Reads
  <2>. QED BY <2>1, <2>3 DEF Fits
<1>6. Alone(t.evtQ)
  <2>1. ASSUME NEW i \in 1..Len(t.evtQ), NEW j \in 1..Len(t.evtQ),
               t.evtQ[i].type = "con_compl"
        PROVE  /\ Worth(t.evtQ[j], t.evtQ[i].handle) = 0
               /\ t.evtQ[j].type = "con_compl" /\ t.evtQ[j].handle = t.evtQ[i].handle
                     => i = j
    <3>1. /\ i + 1 \in 1..Len(s.evtQ) /\ t.evtQ[i] = s.evtQ[i + 1]
          /\ j + 1 \in 1..Len(s.evtQ) /\ t.evtQ[j] = s.evtQ[j + 1]
      BY ReadQueue
    <3>2. i + 1 = j + 1 => i = j
      OBVIOUS
    <3>. QED BY <2>1, <3>1, <3>2 DEF Settled, Alone
  <2>. QED BY <2>1 DEF Alone
<1>. QED BY <1>3, <1>4, <1>5, <1>6 DEF Settled

LEMMA NextFields ==
    /\ Now'.wm = wm' /\ Now'.slots = slots' /\ Now'.hci = hci' /\ Now'.evtQ = evtQ'
    /\ Now'.overflow = overflow' /\ Now'.hung = hung'
BY DEF Now

LEMMA HostValues ==
    ASSUME HostShape, NEW x, NEW y
    PROVE  /\ host' = [host EXCEPT !.requests = x] =>
                 /\ host'.requests = x /\ host'.con = host.con
                 /\ host'.resetting = host.resetting
           /\ host' = [host EXCEPT !.requests = x, !.accepted = y] =>
                 /\ host'.requests = x /\ host'.con = host.con
                 /\ host'.resetting = host.resetting
           /\ host' = [host EXCEPT !.con = x] =>
                 /\ host'.requests = host.requests /\ host'.con = x
                 /\ host'.resetting = host.resetting
           /\ host' = [host EXCEPT !.con = x, !.accepted = y] =>
                 /\ host'.requests = host.requests /\ host'.con = x
                 /\ host'.resetting = host.resetting
           /\ host' = [host EXCEPT !.resetting = x] =>
                 /\ host'.requests = host.requests /\ host'.con = host.con
                 /\ host'.resetting = x
<1> DEFINE K(r, a, c, b) ==
              /\ host' = Knows(r, a, c, b)
                 => host'.requests = r /\ host'.con = c /\ host'.resetting = b
<1>1. \A r, a, c, b : K(r, a, c, b)
  BY DEF Knows
<1> HIDE DEF K
<1>2. /\ K(x, host.accepted, host.con, host.resetting)
      /\ K(x, y, host.con, host.resetting)
      /\ K(host.requests, host.accepted, x, host.resetting)
      /\ K(host.requests, y, x, host.resetting)
      /\ K(host.requests, host.accepted, host.con, x)
  BY <1>1
<1>3. /\ [host EXCEPT !.requests = x]
            = Knows(x, host.accepted, host.con, host.resetting)
      /\ [host EXCEPT !.requests = x, !.accepted = y]
            = Knows(x, y, host.con, host.resetting)
      /\ [host EXCEPT !.con = x]
            = Knows(host.requests, host.accepted, x, host.resetting)
      /\ [host EXCEPT !.con = x, !.accepted = y]
            = Knows(host.requests, y, x, host.resetting)
      /\ [host EXCEPT !.resetting = x]
            = Knows(host.requests, host.accepted, host.con, x)
  BY HostExcept
<1>4. host' = [host EXCEPT !.requests = x] =>
         host'.requests = x /\ host'.con = host.con /\ host'.resetting = host.resetting
  BY <1>2, <1>3, Zenon DEF K
<1>5. host' = [host EXCEPT !.requests = x, !.accepted = y] =>
         host'.requests = x /\ host'.con = host.con /\ host'.resetting = host.resetting
  BY <1>2, <1>3, Zenon DEF K
<1>6. host' = [host EXCEPT !.con = x] =>
         host'.requests = host.requests /\ host'.con = x /\ host'.resetting = host.resetting
  BY <1>2, <1>3, Zenon DEF K
<1>7. host' = [host EXCEPT !.con = x, !.accepted = y] =>
         host'.requests = host.requests /\ host'.con = x /\ host'.resetting = host.resetting
  BY <1>2, <1>3, Zenon DEF K
<1>8. host' = [host EXCEPT !.resetting = x] =>
         host'.requests = host.requests /\ host'.con = host.con /\ host'.resetting = x
  BY <1>2, <1>3, Zenon DEF K
<1>. QED BY <1>4, <1>5, <1>6, <1>7, <1>8

LEMMA ConDomain ==
    ASSUME HostShape
    PROVE  DOMAIN host.con = VirtHandles /\ host.con = [v \in VirtHandles |-> host.con[v]]
<1> DEFINE c == host.con
           rec == [u \in VirtHandles |-> [peer |-> c[u].peer, sent |-> c[u].sent]]
<1>1. c = rec
  BY DEF HostShape, ConShape
<1>2. DOMAIN c = VirtHandles
  BY <1>1
<1>3. c = [v \in VirtHandles |-> c[v]]
  BY <1>1
<1>. QED BY <1>2, <1>3 DEF c

\* The host reads an event that is not about credits, nor the end of a reset.
LEMMA ReadOther ==
    ASSUME NEW s, NEW t, NEW h, NEW k, Reads(s, t), State(s), Balanced(s, h),
           ~h.resetting, ~k.resetting,
           \A w \in Wiimotes : w \in k.requests => Asking(s, h, w),
           Head(s.evtQ).type # "num_compl",
           \A u \in VirtHandles :
              \/ k.con[u] = h.con[u]
              \/ /\ Head(s.evtQ).type = "con_compl" /\ u = Head(s.evtQ).handle
                 /\ k.con[u].sent = 0
              \/ /\ Head(s.evtQ).type = "discon_compl" /\ u = Head(s.evtQ).handle
                 /\ k.con[u].peer = Nobody
    PROVE  Balanced(t, k)
<1> DEFINE e == Head(s.evtQ)
<1>0. Settled(s, h) /\ Priced(s.evtQ)
  BY DEF Balanced, Accounts
<1>1. e = s.evtQ[1] /\ 1 \in 1..Len(s.evtQ)
  BY ReadQueue
<1> HIDE DEF e
<1>2. Opened(s, h, e) /\ Ended(s, e)
  BY <1>0, <1>1 DEF Settled, Fits
<1>3. \A u : Worth(e, u) = 0
  BY DEF e, Worth
<1>4. ASSUME NEW w \in Wiimotes, Connected(s, w)
      PROVE  LET v == s.wm[w].handle IN
             \/ k.con[v] = h.con[v]
             \/ /\ e.type = "con_compl" /\ v = e.handle /\ k.con[v].sent = 0
                /\ h.con[v].peer = Nobody
  <2>1. s.wm[w].handle \in VirtHandles
    BY DEF State, WiimoteRec
  <2>2. e.type = "discon_compl" => s.wm[w].handle # e.handle
    BY <1>2, <1>4 DEF Ended
  <2>. QED BY <1>2, <2>1, <2>2 DEF Opened, e
<1>5. Settled(t, k)
  <2>1. ASSUME NEW w \in Wiimotes, Connected(s, w), s.wm[w].credits > 0
        PROVE  k.con[s.wm[w].handle].peer = w
    <3>1. h.con[s.wm[w].handle].peer = w /\ w # Nobody
      BY <1>0, <2>1, CoreAssumption DEF Settled, Counting, Wiimotes
    <3>. QED BY <1>4, <2>1, <3>1
  <2>2. ASSUME NEW i \in 1..Len(s.evtQ), i > 1
        PROVE  Opened(s, k, s.evtQ[i])
    <3> DEFINE f == s.evtQ[i]
    <3>1. Opened(s, h, f)
      BY <1>0 DEF Settled, Fits
    <3>2. e.type = "con_compl" /\ f.type = "con_compl" => f.handle # e.handle
      <4>1. i # 1
        BY <2>2
      <4>. QED BY <1>0, <1>1, <4>1 DEF Settled, Alone
    <3> HIDE DEF f
    <3>3. ASSUME f.type = "con_compl" PROVE k.con[f.handle].peer = Nobody
      <4>1. f.handle \in VirtHandles /\ h.con[f.handle].peer = Nobody
        BY <3>1, <3>3 DEF Opened
      <4>. QED BY <3>2, <3>3, <4>1 DEF e
    <3>. QED BY <3>1, <3>3 DEF Opened, f
  <2>. QED BY <1>0, <2>1, <2>2, ReadSettled
<1>6. Accounts(t, k)
  BY <1>0, <1>5, ReadCredits DEF Accounts
<1>7. ASSUME NEW w \in Wiimotes, Connected(t, w), k.con[t.wm[w].handle].peer = w,
             ~t.overflow
      PROVE  Owes(t, k, w)
  <2> DEFINE v == s.wm[w].handle
  <2>1. t.wm = s.wm /\ Connected(s, w) /\ ~s.overflow
    BY <1>7 DEF Reads, Connected
  <2>2. CreditsIn(t.evtQ, v) \in Nat /\ CreditsIn(s.evtQ, v) = CreditsIn(t.evtQ, v)
    <3>1. /\ CreditsIn(t.evtQ, v) \in Nat
          /\ CreditsIn(s.evtQ, v) = Worth(e, v) + CreditsIn(t.evtQ, v)
      BY <1>0, ReadCredits DEF e
    <3> HIDE DEF v
    <3>. QED BY <1>3, <3>1
  <2>3. CASE k.con[v] = h.con[v]
    <3>1. Owes(s, h, w)
      BY <1>7, <2>1, <2>3 DEF Balanced, Paid
    <3>. QED BY <2>1, <2>2, <2>3, <3>1 DEF Owes
  <2>4. CASE /\ e.type = "con_compl" /\ v = e.handle /\ k.con[v].sent = 0
             /\ h.con[v].peer = Nobody
    <3>1. s.wm[w].credits = 0
      <4>1. w # Nobody /\ s.wm[w].credits \in Nat
        BY CoreAssumption DEF Wiimotes, State, WiimoteRec
      <4>2. ~(s.wm[w].credits > 0)
        BY <1>0, <2>1, <2>4, <4>1 DEF Settled, Counting
      <4>. QED BY <4>1, <4>2
    <3>2. CreditsIn(t.evtQ, v) = 0
      <4>1. \A i \in 1..Len(s.evtQ) : Worth(s.evtQ[i], v) = 0
        BY <1>0, <1>1, <2>4 DEF Settled, Alone
      <4>2. \A i \in 1..Len(t.evtQ) : Worth(t.evtQ[i], v) = 0
        BY <4>1, ReadQueue
      <4>3. Len(t.evtQ) \in Nat
        BY QueueTail, QueueLen DEF Reads
      <4> HIDE DEF v
      <4>. QED BY <4>2, <4>3, CreditsNone
    <3>. QED BY <2>1, <2>4, <3>1, <3>2 DEF Owes
  <2>. QED BY <1>4, <2>1, <2>3, <2>4
<1>. QED BY <1>6, <1>7 DEF Balanced, Paid

\* The host is credited.
LEMMA ReadCounts ==
    ASSUME NEW s, NEW t, NEW h, NEW k, Reads(s, t), State(s), Balanced(s, h),
           ~h.resetting, ~k.resetting, k.requests = h.requests,
           Head(s.evtQ).type = "num_compl",
           \A u \in VirtHandles :
              /\ k.con[u].peer = h.con[u].peer
              /\ k.con[u].peer # Nobody =>
                    k.con[u].sent = IF u \in DOMAIN Head(s.evtQ).counts
                                    THEN h.con[u].sent - Head(s.evtQ).counts[u]
                                    ELSE h.con[u].sent
    PROVE  Balanced(t, k)
<1> DEFINE e == Head(s.evtQ)
<1>0. Settled(s, h) /\ Priced(s.evtQ)
  BY DEF Balanced, Accounts
<1>1. ASSUME NEW w \in Wiimotes PROVE s.wm[w].handle \in VirtHandles
  BY DEF State, WiimoteRec
<1>2. Settled(t, k)
  <2>1. ASSUME NEW w \in Wiimotes, Connected(s, w), s.wm[w].credits > 0
        PROVE  k.con[s.wm[w].handle].peer = w
    BY <1>0, <1>1, <2>1 DEF Settled, Counting
  <2>2. ASSUME NEW i \in 1..Len(s.evtQ), i > 1
        PROVE  Opened(s, k, s.evtQ[i])
    BY <1>0 DEF Settled, Fits, Opened
  <2>3. \A w \in Wiimotes : w \in k.requests => Asking(s, h, w)
    BY DEF Asking
  <2>. QED BY <1>0, <2>1, <2>2, <2>3, ReadSettled
<1>3. Accounts(t, k)
  BY <1>0, <1>2, ReadCredits DEF Accounts
<1>4. ASSUME NEW w \in Wiimotes, Connected(t, w), k.con[t.wm[w].handle].peer = w,
             ~t.overflow
      PROVE  Owes(t, k, w)
  <2> DEFINE v == s.wm[w].handle
             n == s.wm[w].credits
             c == CreditsIn(t.evtQ, v)
             x == Worth(e, v)
  <2>1. t.wm = s.wm /\ Connected(s, w) /\ ~s.overflow /\ v \in VirtHandles /\ n \in Nat
    BY <1>4 DEF Reads, Connected, State, WiimoteRec
  <2>2. w # Nobody
    BY CoreAssumption DEF Wiimotes
  <2>3. h.con[v].sent = n + CreditsIn(s.evtQ, v)
    BY <1>4, <2>1 DEF Balanced, Paid, Owes
  <2>4. c \in Nat /\ x \in Nat /\ CreditsIn(s.evtQ, v) = x + c
    BY <1>0, ReadCredits
  <2>5. k.con[v].sent = IF v \in DOMAIN e.counts THEN h.con[v].sent - e.counts[v]
                        ELSE h.con[v].sent
    BY <1>4, <2>1, <2>2
  <2>6. x = IF v \in DOMAIN e.counts THEN e.counts[v] ELSE 0
    BY DEF Worth
  <2> HIDE DEF v, n, c, x, e
  <2>7. k.con[v].sent = h.con[v].sent - x
    <3>1. h.con[v].sent \in Nat
      BY <2>1, <2>3, <2>4
    <3>. QED BY <2>5, <2>6, <3>1
  <2>8. k.con[v].sent = n + c
    BY <2>1, <2>3, <2>4, <2>7
  <2>. QED BY <2>1, <2>8 DEF Owes, v, n, c
<1>. QED BY <1>3, <1>4 DEF Balanced, Paid

LEMMA ReadKeeps ==
    ASSUME TypeInv, Resets, Balanced(Now, host), HostRead
    PROVE  Balanced(Now', host')
<1> DEFINE e == Head(evtQ)
           counted == [v \in VirtHandles |->
                          IF v \in DOMAIN e.counts /\ host.con[v].peer # Nobody
                          THEN [host.con[v] EXCEPT !.sent = @ - e.counts[v]]
                          ELSE host.con[v]]
<1> DEFINE told == [host EXCEPT !.con[e.handle] = [peer |-> e.peer, sent |-> 0],
                                !.accepted = @ \ {e.peer}]
           closed == [host EXCEPT !.con[e.handle] = [peer |-> Nobody, sent |-> 0]]
           credited == [host EXCEPT !.con = counted]
           asked == [host EXCEPT !.requests = @ \cup {e.peer}]
           ready == [host EXCEPT !.resetting = FALSE]
<1>0. host' =
         IF e.type = "reset_compl" THEN ready
         ELSE IF host.resetting THEN host
         ELSE CASE e.type = "con_req" -> asked
                [] e.type = "con_compl" -> told
                [] e.type = "discon_compl" -> closed
                [] e.type = "num_compl" -> credited
                [] OTHER -> host
  BY SMT DEF HostRead
<1>1. HostShape /\ State(Now) /\ Queue(evtQ) /\ evtQ # <<>>
  BY NowFields DEF TypeInv, Sound, State, HostRead
<1>2. Reads(Now, Now')
  BY <1>1, NowFields, NextFields DEF Reads, HostRead
<1>3. host.resetting \in BOOLEAN
  BY <1>1 DEF HostShape
<1>4. Head(Now.evtQ) = e /\ e = evtQ[1] /\ 1 \in 1..Len(evtQ)
  BY <1>2, ReadQueue, NowFields
<1> HIDE DEF e, counted, told, closed, credited, asked, ready
<1>5. CASE e.type = "reset_compl"
  <2>1. host' = [host EXCEPT !.resetting = FALSE]
    BY <1>0, <1>5 DEF ready
  <2>2. host'.requests = host.requests /\ ~host'.resetting
    BY <1>1, <2>1, HostValues
  <2>3. host.resetting
    BY <1>4, <1>5 DEF Resets, Ends
  <2>. QED BY <1>2, <1>4, <1>5, <2>2, <2>3, ReadReset
<1>6. CASE e.type # "reset_compl" /\ host.resetting
  <2>1. host' = host
    BY <1>0, <1>6
  <2>. QED BY <1>2, <1>6, <2>1, ReadQuiet
<1>7. CASE e.type # "reset_compl" /\ ~host.resetting
  <2>9. DOMAIN host.con = VirtHandles
    BY <1>1, ConDomain
  <2>0. \A w \in Wiimotes : w \in host.requests => Asking(Now, host, w)
    BY DEF Asking
  <2>1. CASE e.type = "con_compl"
    <3> DEFINE x == [peer |-> e.peer, sent |-> 0]
               d == [host.con EXCEPT ![e.handle] = x]
               a == host.accepted \ {e.peer}
    <3>1. host' = [host EXCEPT !.con = d, !.accepted = a]
      BY <1>0, <1>7, <2>1 DEF told
    <3>3. x.sent = 0
      OBVIOUS
    <3> HIDE DEF x, a
    <3> DEFINE v == e.handle
    <3> HIDE DEF v
    <3>6. d = [host.con EXCEPT ![v] = x]
      BY DEF v
    <3> HIDE DEF d
    <3>2. \A u \in VirtHandles : d[u] = IF u = v THEN x ELSE host.con[u]
      BY <2>9, <3>6
    <3>4. /\ host'.requests = host.requests /\ host'.con = d
          /\ host'.resetting = host.resetting
      BY <1>1, <3>1, HostValues
    <3>5. \A u \in VirtHandles :
             \/ host'.con[u] = host.con[u]
             \/ /\ Head(Now.evtQ).type = "con_compl" /\ u = Head(Now.evtQ).handle
                /\ host'.con[u].sent = 0
      BY <1>4, <2>1, <3>2, <3>3, <3>4 DEF v
    <3>. QED BY <1>1, <1>2, <1>4, <1>7, <2>0, <2>1, <3>4, <3>5, ReadOther
  <2>2. CASE e.type = "discon_compl"
    <3> DEFINE x == [peer |-> Nobody, sent |-> 0]
               d == [host.con EXCEPT ![e.handle] = x]
    <3>1. host' = [host EXCEPT !.con = d]
      BY <1>0, <1>7, <2>2 DEF closed
    <3>3. x.peer = Nobody
      OBVIOUS
    <3> HIDE DEF x
    <3> DEFINE v == e.handle
    <3> HIDE DEF v
    <3>6. d = [host.con EXCEPT ![v] = x]
      BY DEF v
    <3> HIDE DEF d
    <3>2. \A u \in VirtHandles : d[u] = IF u = v THEN x ELSE host.con[u]
      BY <2>9, <3>6
    <3>4. /\ host'.requests = host.requests /\ host'.con = d
          /\ host'.resetting = host.resetting
      BY <1>1, <3>1, HostValues
    <3>5. \A u \in VirtHandles :
             \/ host'.con[u] = host.con[u]
             \/ /\ Head(Now.evtQ).type = "discon_compl" /\ u = Head(Now.evtQ).handle
                /\ host'.con[u].peer = Nobody
      BY <1>4, <2>2, <3>2, <3>3, <3>4 DEF v
    <3>. QED BY <1>1, <1>2, <1>4, <1>7, <2>0, <2>2, <3>4, <3>5, ReadOther
  <2>3. CASE e.type = "num_compl"
    <3>1. host' = [host EXCEPT !.con = counted]
      BY <1>0, <1>7, <2>3 DEF credited
    <3>2. /\ host'.requests = host.requests /\ host'.con = counted
          /\ host'.resetting = host.resetting
      BY <1>1, <3>1, HostValues
    <3>3. ASSUME NEW u \in VirtHandles
          PROVE  /\ counted[u].peer = host.con[u].peer
                 /\ counted[u].peer # Nobody =>
                       counted[u].sent = IF u \in DOMAIN e.counts
                                         THEN host.con[u].sent - e.counts[u]
                                         ELSE host.con[u].sent
      <4> DEFINE m == host.con[u].sent - e.counts[u]
                 y == [host.con[u] EXCEPT !.sent = m]
      <4>1. counted[u] = IF u \in DOMAIN e.counts /\ host.con[u].peer # Nobody
                         THEN y ELSE host.con[u]
        BY DEF counted
      <4>2. y = [peer |-> host.con[u].peer, sent |-> m]
        <5> HIDE DEF m
        <5>. QED BY <1>1, CountExcept
      <4>3. y.peer = host.con[u].peer /\ y.sent = m
        BY <4>2
      <4> HIDE DEF y
      <4>. QED BY <4>1, <4>3
    <3>. QED BY <1>1, <1>2, <1>4, <1>7, <2>3, <3>2, <3>3, ReadCounts
  <2>4. CASE e.type = "con_req"
    <3> DEFINE x == host.requests \cup {e.peer}
    <3>1. host' = [host EXCEPT !.requests = x]
      BY <1>0, <1>7, <2>4 DEF asked
    <3>2. \A w \in Wiimotes : w \in x => Asking(Now, host, w)
      BY <1>4, <2>4, NowFields DEF Asking
    <3> HIDE DEF x
    <3>3. /\ host'.requests = x /\ host'.con = host.con
          /\ host'.resetting = host.resetting
      BY <1>1, <3>1, HostValues
    <3>. QED BY <1>1, <1>2, <1>4, <1>7, <2>4, <3>2, <3>3, ReadOther
  <2>5. CASE e.type \notin {"con_compl", "discon_compl", "num_compl", "con_req"}
    <3>1. host' = host
      BY <1>0, <1>7, <2>5
    <3>. QED BY <1>1, <1>2, <1>4, <1>7, <2>0, <2>5, <3>1, ReadOther
  <2>. QED BY <2>1, <2>2, <2>3, <2>4, <2>5
<1>. QED BY <1>3, <1>5, <1>6, <1>7

-----------------------------------------------------------------------------
(* Every step keeps the accounts                                            *)

LEMMA EasesStep ==
    ASSUME State(Now), Balanced(Now, host), NEW t, State(t), Eases(Now, t, host),
           Becomes(t)
    PROVE  Balanced(Now', host)
BY Next1, EasesKeeps

LEMMA EasesNext ==
    ASSUME NEW s, NEW t, NEW h, State(s), Balanced(s, h), Eases(s, t, h)
    PROVE  Balanced(t, h)
BY EasesKeeps

LEMMA PluggedType ==
    ASSUME NEW P \in SUBSET Pads, NEW e \in EgcEvents(P)
    PROVE  PluggedAfter(P, e) \in SUBSET Pads
<1>1. CASE e = NoEgc
  BY <1>1 DEF PluggedAfter, NoEgc
<1>2. ASSUME NEW d \in Pads, e = Attach(d) PROVE PluggedAfter(P, e) \in SUBSET Pads
  BY <1>2 DEF PluggedAfter, Attach
<1>3. ASSUME NEW d \in Pads, e = Detach(d) PROVE PluggedAfter(P, e) \in SUBSET Pads
  BY <1>3 DEF PluggedAfter, Detach
<1>. QED BY <1>1, <1>2, <1>3 DEF EgcEvents

LEMMA TickBills ==
    ASSUME TypeInv, Balanced(Now, host), Tick
    PROVE  Balanced(Now', host')
<1>1. PICK e1 \in EgcEvents(plugged) :
         \E e2 \in EgcEvents(PluggedAfter(plugged, e1)) : TickWith(e1, e2)
  BY DEF Tick
<1>2. PICK e2 \in EgcEvents(PluggedAfter(plugged, e1)) : TickWith(e1, e2)
  BY <1>1
<1> DEFINE in == PluggedAfter(plugged, e1)
           s0 == EgcEvent(Now, e1)
           s1 == EgcEvent(s0, e2)
           s2 == [s1 EXCEPT !.slots = DevicesTick(@)]
           s3 == IF CanRequestConnection(hci) THEN AssignDevices(s2) ELSE s2
           s4 == IF CanRequestConnection(hci) THEN RequestConnections(s3) ELSE s3
           s5 == SendCompletedPackets(s4)
<1>3. in \in SUBSET Pads
  BY PluggedType DEF TypeInv
<1>4. Becomes(s5) /\ host' = host
  BY <1>2, Zenon DEF TickWith
<1>5. Sound(Now) /\ host.resetting \in BOOLEAN
  BY DEF TypeInv, HostShape
<1>6. Sound(s0) /\ Sheds(Now, s0) /\ Eases(Now, s0, host)
  BY <1>5, EgcEventKeeps, EasesEgc DEF TypeInv
<1> HIDE DEF s0, in
<1>7. Sound(s1) /\ Sheds(s0, s1) /\ Eases(s0, s1, host)
  BY <1>3, <1>6, EgcEventKeeps, EasesEgc DEF in
<1> HIDE DEF s1
<1>8. Sound(s2) /\ Sheds(s1, s2) /\ Eases(s1, s2, host)
  <2>1. Eases(s1, s2, host)
    BY <1>7, EasesSlots DEF Sound
  <2>. QED BY <1>7, <2>1, DevicesTickKeeps
<1> HIDE DEF s2
<1>9. s2.hci = hci
  BY <1>6, <1>7, <1>8, NowFields DEF Sheds
<1>10. Balanced(s2, host)
  <2>1. Balanced(s0, host)
    BY <1>5, <1>6, EasesNext DEF Sound
  <2>2. Balanced(s1, host)
    BY <1>6, <1>7, <2>1, EasesNext DEF Sound
  <2>. QED BY <1>7, <1>8, <2>2, EasesNext DEF Sound
<1>11. CASE ~CanRequestConnection(hci)
  <2>1. s3 = s2
    BY <1>11
  <2> HIDE DEF s3
  <2>2. s4 = s2
    BY <1>11, <2>1
  <2> HIDE DEF s4
  <2>3. Balanced(s5, host) /\ Sound(s5)
    BY <1>5, <1>8, <1>10, <2>2, FlushKeeps, CreditKeeps
  <2> HIDE DEF s5
  <2>. QED BY <1>4, <2>3, Next1 DEF Sound
<1>12. CASE CanRequestConnection(hci)
  <2>1. s3 = AssignDevices(s2)
    BY <1>12
  <2> HIDE DEF s3
  <2>2. s4 = RequestConnections(s3)
    BY <1>12
  <2> HIDE DEF s4
  <2>3. s2.hci.scan
    BY <1>9, <1>12 DEF CanRequestConnection
  <2>4. Sound(s3) /\ Eases(s2, s3, host)
    BY <1>8, <2>1, <2>3, AssignKeeps, EasesAssign
  <2>5. Sound(s4) /\ Eases(s3, s4, host)
    BY <2>2, <2>4, RequestKeeps, EasesRequests
  <2>6. Balanced(s3, host)
    BY <1>8, <1>10, <2>4, EasesNext DEF Sound
  <2>7. Balanced(s4, host)
    BY <2>4, <2>5, <2>6, EasesNext DEF Sound
  <2>8. Balanced(s5, host) /\ Sound(s5)
    BY <1>5, <2>5, <2>7, FlushKeeps, CreditKeeps
  <2> HIDE DEF s5
  <2>. QED BY <1>4, <2>8, Next1 DEF Sound
<1>. QED BY <1>11, <1>12

LEMMA ScanBills ==
    ASSUME TypeInv, Balanced(Now, host), NEW on \in BOOLEAN, HostScan(on)
    PROVE  Balanced(Now', host')
<1> DEFINE h == SetScan(hci, on)
           t == [Now EXCEPT !.hci = h]
<1>1. Becomes(t) /\ host' = host /\ ~host.resetting
  BY NowFields DEF HostScan, HostReady
<1>2. h.last = hci.last
  BY TrackedTypes DEF TypeInv
<1> HIDE DEF h
<1>3. Sound(t) /\ t = Fields(wm, slots, h, evtQ, overflow, hung)
  BY NowHci DEF TypeInv
<1> HIDE DEF t
<1>4. /\ t.wm = Now.wm /\ t.hci.last = Now.hci.last /\ t.evtQ = Now.evtQ
      /\ t.overflow = Now.overflow
  BY <1>2, <1>3, NowFields DEF Fields
<1>5. State(Now) /\ Queue(Now.evtQ)
  BY DEF TypeInv, Sound, State
<1>6. /\ Longer(Now.evtQ, t.evtQ)
      /\ \A i \in 1..Len(t.evtQ) : ~(i > Len(Now.evtQ))
  BY <1>4, <1>5, LongerSame
<1>7. Balanced(t, host)
  BY <1>1, <1>4, <1>5, <1>6, TrackKeeps
<1>. QED BY <1>1, <1>3, <1>7, Next1 DEF Sound

LEMMA RejectBills ==
    ASSUME TypeInv, Balanced(Now, host), NEW p \in Peers, HostReject(p)
    PROVE  Balanced(Now', host')
<1> DEFINE x == host.requests \ {p}
<1>1. host' = [host EXCEPT !.requests = x] /\ p \in host.requests
  BY DEF HostReject
<1>2. x \subseteq host.requests
  OBVIOUS
<1> HIDE DEF x
<1>3. /\ host'.requests = x /\ host'.con = host.con
      /\ host'.resetting = host.resetting
  BY <1>1, HostValues DEF TypeInv
<1>4. Balanced(Now', host)
  <2>1. CASE p \in Wiimotes
    <3>1. State(Disconnect(Now, p)) /\ State(Now)
      BY <2>1, DisconnectKeeps DEF TypeInv, Sound, Dropped
    <3>2. Eases(Now, Disconnect(Now, p), host)
      BY <1>1, <2>1, <3>1, EasesDisconnect
    <3>3. Becomes(Disconnect(Now, p))
      BY <2>1 DEF HostReject
    <3>. QED BY <3>1, <3>2, <3>3, EasesStep
  <2>2. CASE p \notin Wiimotes
    <3>1. Now' = Now
      BY <2>2 DEF HostReject, module, Now
    <3>. QED BY <3>1
  <2>. QED BY <2>1, <2>2
<1>. QED BY <1>2, <1>3, <1>4, HostElsewhere

\* A module that stops need not have told all it was about to.
Bills == Paid(Now', host') /\ (hung' = "no" => Accounts(Now', host'))

LEMMA BalancedBills ==
    ASSUME Balanced(Now', host')
    PROVE  Bills
BY DEF Balanced, Bills

\* Answers to a command.
Answers(es) ==
    /\ Queue(es)
    /\ \A i \in 1..Len(es) : Bland(es[i])
    /\ \A i \in 1..Len(es) : Plainly(es[i])

LEMMA RepliesAnswer ==
    ASSUME NEW n \in Nat
    PROVE  /\ Answers([i \in 1..n |-> Reply])
           /\ Answers(<<Reply>>) /\ Answers(<<Reply, Reply>>)
<1> DEFINE e == Reply
           r == [i \in 1..n |-> e]
           r1 == <<e>>
           r2 == <<e, e>>
<1>1. Bland(e) /\ Plainly(e)
  BY DEF Bland, Plainly, Reply
<1>0. Queue(r) /\ Queue(r1) /\ Queue(r2)
  BY RepliesPlain
<1> HIDE DEF e
<1>2. Len(r) = n /\ \A i \in 1..n : r[i] = e
  OBVIOUS
<1>3. Len(r1) = 1 /\ \A i \in 1..1 : r1[i] = e
  OBVIOUS
<1>4. Len(r2) = 2 /\ \A i \in 1..2 : r2[i] = e
  OBVIOUS
<1> HIDE DEF r, r1, r2
<1>5. Answers(r)
  BY <1>0, <1>1, <1>2 DEF Answers
<1>6. Answers(r1)
  BY <1>0, <1>1, <1>3 DEF Answers
<1>7. Answers(r2)
  BY <1>0, <1>1, <1>4 DEF Answers
<1>. QED BY <1>5, <1>6, <1>7 DEF r, r1, r2, e

LEMMA AnswersBill ==
    ASSUME TypeInv, Balanced(Now, host), NEW es, Answers(es),
           Becomes(InjectAsserted(Now, es))
    PROVE  Balanced(Now', host)
<1> DEFINE t == InjectAsserted(Now, es)
<1>1. Sound(Now) /\ State(Now)
  BY DEF TypeInv, Sound
<1>2. Sound(t) /\ Eases(Now, t, host)
  BY <1>1, AnswerKeeps, EasesAnswers DEF Answers
<1> HIDE DEF t
<1>3. Becomes(t)
  BY DEF t
<1>. QED BY <1>1, <1>2, <1>3, EasesStep DEF Sound

\* A handle is translated, or the module stops.
LEMMA HaltBills ==
    ASSUME TypeInv, Balanced(Now, host), NEW where, Becomes(Halt(where)) \/ Becomes(Now)
    PROVE  Balanced(Now', host) /\ Now'.wm = wm
<1>1. Sound(Now) /\ State(Now)
  BY DEF TypeInv, Sound
<1>2. /\ Sound(Halt(where)) /\ Eases(Now, Halt(where), host)
      /\ Eases(Now, Now, host)
  BY <1>1, HaltKeeps, EasesHalt
<1>3. Balanced(Now', host)
  BY <1>1, <1>2, EasesStep DEF Sound
<1>4. Halt(where).wm = wm
  BY DEF Halt, Now
<1>. QED BY <1>1, <1>2, <1>3, <1>4, Next1, NowFields DEF Sound

LEMMA TranslateBills ==
    ASSUME TypeInv, Balanced(Now, host), NEW v, NEW where,
           Becomes(TranslateOrHalt(v, where))
    PROVE  Balanced(Now', host) /\ Now'.wm = wm
BY HaltBills DEF TranslateOrHalt

LEMMA CommandBills ==
    ASSUME TypeInv, Balanced(Now, host), NEW v \in VirtHandles, NEW n \in CmdReplies,
           HostCommand(v, n)
    PROVE  Balanced(Now', host')
<1> DEFINE es == [i \in 1..n |-> Reply]
<1>1. Becomes(InjectAsserted(Now, es)) \/ Becomes(TranslateOrHalt(v, "command"))
  BY DEF HostCommand
<1>2. n \in Nat
  BY CoreAssumption
<1>3. Answers(es)
  BY <1>2, RepliesAnswer
<1> HIDE DEF es
<1>4. host' = host
  BY DEF HostCommand
<1>. QED BY <1>1, <1>3, <1>4, AnswersBill, TranslateBills

LEMMA RemoteNameBills ==
    ASSUME TypeInv, Balanced(Now, host), NEW p \in Peers, HostRemoteName(p)
    PROVE  Balanced(Now', host')
<1>1. Becomes(InjectAsserted(Now, <<Reply, Reply>>)) \/ UNCHANGED module
  BY DEF HostRemoteName
<1>2. Answers(<<Reply, Reply>>)
  BY RepliesAnswer
<1>3. host' = host
  BY DEF HostRemoteName
<1>4. UNCHANGED module => Now' = Now
  BY DEF module, Now
<1>. QED BY <1>1, <1>2, <1>3, <1>4, AnswersBill

\* An event that says nothing of credits.
LEMMA BlandBills ==
    ASSUME TypeInv, Balanced(Now, host), NEW e, Bland(e), Becomes(Inject(Now, e))
    PROVE  Balanced(Now', host)
<1> DEFINE t == Inject(Now, e)
<1>1. State(Now)
  BY DEF TypeInv, Sound
<1>2. State(t) /\ Eases(Now, t, host)
  BY <1>1, EasesBland
<1> HIDE DEF t
<1>3. Becomes(t)
  BY DEF t
<1>. QED BY <1>1, <1>2, <1>3, EasesStep

LEMMA LinkKeysBills ==
    ASSUME TypeInv, Balanced(Now, host), HostReadLinkKeys
    PROVE  Balanced(Now', host')
<1>1. Becomes(Inject(Now, Reply)) /\ host' = host
  BY DEF HostReadLinkKeys
<1>2. Bland(Reply)
  BY DEF Bland, Reply
<1>. QED BY <1>1, <1>2, BlandBills

\* The host no more uses a handle.
LEMMA DisconnectBills ==
    ASSUME TypeInv, Handles, Balanced(Now, host), NEW v \in VirtHandles, HostDisconnect(v)
    PROVE  Bills
<1> DEFINE x == [peer |-> Nobody, sent |-> 0]
           d == [host.con EXCEPT ![v] = x]
           fakes == FakesOf(Now, v)
<1>1. host' = [host EXCEPT !.con = d]
  BY DEF HostDisconnect
<1>2. x.peer = Nobody
  OBVIOUS
<1>3. DOMAIN host.con = VirtHandles
  BY ConDomain DEF TypeInv
<1> HIDE DEF x
<1>4. \A u \in VirtHandles : d[u] = IF u = v THEN x ELSE host.con[u]
  BY <1>3
<1> HIDE DEF d
<1>5. /\ host'.requests = host.requests /\ host'.con = d
      /\ host'.resetting = host.resetting
  BY <1>1, HostValues DEF TypeInv
<1>6. \A u \in VirtHandles : host'.con[u].peer \in {host.con[u].peer, Nobody}
  BY <1>2, <1>4, <1>5
<1>7. \A w \in Wiimotes : wm[w].handle \in VirtHandles
  BY LastNat
<1>8. Sound(Now) /\ State(Now)
  BY DEF TypeInv, Sound
<1>9. CASE fakes = {}
  <2>1. Becomes(TranslateOrHalt(v, "command"))
    BY <1>9 DEF HostDisconnect
  <2>2. Balanced(Now', host) /\ Now'.wm = wm
    BY <2>1, TranslateBills
  <2>3. ASSUME NEW w \in Wiimotes, Connected(Now', w)
        PROVE  host'.con[Now'.wm[w].handle] = host.con[Now'.wm[w].handle]
    <3>1. Connected(Now, w)
      BY <2>2, <2>3, NowFields DEF Connected
    <3>2. wm[w].handle # v
      BY <1>9, <3>1, NowFields DEF FakesOf
    <3>. QED BY <1>4, <1>5, <1>7, <2>2, <3>2
  <2>4. Balanced(Now', host')
    BY <1>5, <1>6, <2>2, <2>3, HostElsewhere
  <2>. QED BY <2>4, BalancedBills
<1>10. CASE fakes # {}
  <2> DEFINE es == <<Reply>>
             s == InjectAsserted(Now, es)
             w == Min(fakes)
             t == Disconnect(s, w)
  <2>1. Becomes(IF s.hung = "no" THEN t ELSE s)
    BY <1>10 DEF HostDisconnect
  <2>2. w \in Wiimotes /\ Joined(w) /\ wm[w].handle = v
    <3>1. w \in fakes
      BY <1>10, FirstFake
    <3> HIDE DEF w
    <3>2. w \in Wiimotes /\ Connected(Now, w) /\ Now.wm[w].handle = v
      BY <3>1 DEF FakesOf
    <3>. QED BY <3>2, NowFields, JoinedConnected
  <2>3. Answers(es)
    BY RepliesAnswer
  <2> HIDE DEF w, es
  <2>4. Sound(s) /\ Eases(Now, s, host) /\ s.wm = wm
    BY <1>8, <2>3, AnswerKeeps, EasesAnswers DEF Answers
  <2>5. Balanced(s, host) /\ State(s)
    BY <1>8, <2>4, EasesNext DEF Sound
  <2> HIDE DEF s
  <2>6. CASE s.hung = "no"
    <3>1. Becomes(t)
      BY <2>1, <2>6
    <3>2. Eases(s, t, host) /\ Dropped(s, w, t)
      BY <2>2, <2>4, <2>5, EasesDisconnect, DisconnectKeeps DEF Joined
    <3> HIDE DEF t
    <3>3. Now' = t /\ Balanced(t, host)
      BY <2>5, <3>1, <3>2, EasesNext, Next1 DEF Dropped
    <3>4. ASSUME NEW z \in Wiimotes, Connected(t, z)
          PROVE  host'.con[t.wm[z].handle] = host.con[t.wm[z].handle]
      <4>1. z # w
        BY <3>2, <3>4 DEF Dropped, Connected
      <4>2. t.wm[z] = wm[z]
        BY <2>4, <3>2, <4>1 DEF Dropped
      <4>3. Joined(z)
        BY <3>4, <4>2 DEF Connected, Joined
      <4>4. wm[z].handle # v
        BY <2>2, <4>1, <4>3 DEF Handles
      <4>. QED BY <1>4, <1>5, <1>7, <4>2, <4>4
    <3>5. Balanced(t, host')
      BY <1>5, <1>6, <3>3, <3>4, HostElsewhere
    <3>. QED BY <3>3, <3>5, BalancedBills
  <2>7. CASE s.hung # "no"
    <3>1. Now' = s /\ hung' = s.hung
      BY <2>1, <2>5, <2>7, Next1 DEF Becomes
    <3>2. \A z \in Wiimotes : Connected(s, z) =>
             \/ host'.con[s.wm[z].handle] = host.con[s.wm[z].handle]
             \/ host'.con[s.wm[z].handle].peer = Nobody
      BY <1>2, <1>4, <1>5, <1>7, <2>4
    <3>3. Paid(s, host')
      BY <2>5, <3>2, PaidElsewhere DEF Balanced
    <3>. QED BY <2>7, <3>1, <3>3 DEF Bills
  <2>. QED BY <2>6, <2>7
<1>. QED BY <1>9, <1>10

\* Who is behind a handle that the host knows.
LEMMA KnownPeer ==
    ASSUME TypeInv, Full, ~host.resetting, NEW v \in VirtHandles, Known(v)
    PROVE  /\ v < hci.last
           /\ \A w \in Wiimotes : Joined(w) /\ wm[w].handle = v => host.con[v].peer = w
<1> DEFINE p == host.con[v].peer
<1>1. Told(p, v)
  BY DEF Told
<1>2. Belongs(p, v)
  BY <1>1 DEF Full, Claims
<1>. QED BY <1>2 DEF Belongs

LEMMA AclBills ==
    ASSUME TypeInv, Full, Balanced(Now, host), NEW v \in VirtHandles,
           NEW refuse \in BOOLEAN, HostAcl(v, refuse)
    PROVE  Balanced(Now', host')
<1> DEFINE fakes == FakesOf(Now, v)
           n == host.con[v].sent + 1
           x == [host.con[v] EXCEPT !.sent = n]
           d == [host.con EXCEPT ![v] = x]
<1>1. ~host.resetting /\ Known(v)
  BY DEF HostAcl, HostReady
<1>2. \/ host.con[v].peer \in Wiimotes /\ host' = [host EXCEPT !.con = d]
      \/ host.con[v].peer \notin Wiimotes /\ host' = host
  BY DEF HostAcl
<1>3. x.peer = host.con[v].peer /\ x.sent = n
  <2> HIDE DEF n
  <2>1. x = [peer |-> host.con[v].peer, sent |-> n]
    BY CountExcept DEF TypeInv
  <2>. QED BY <2>1
<1>4. DOMAIN host.con = VirtHandles
  BY ConDomain DEF TypeInv
<1> HIDE DEF x, n
<1>5. \A u \in VirtHandles : d[u] = IF u = v THEN x ELSE host.con[u]
  BY <1>4
<1> HIDE DEF d
<1>6. /\ host'.requests = host.requests /\ host'.resetting = host.resetting
      /\ host.con[v].peer \in Wiimotes => host'.con = d
      /\ host.con[v].peer \notin Wiimotes => host'.con = host.con
  BY <1>2, HostValues DEF TypeInv
<1>7. \A w \in Wiimotes : wm[w].handle \in VirtHandles
  BY LastNat
<1>8. Sound(Now) /\ State(Now)
  BY DEF TypeInv, Sound
<1>9. CASE fakes = {}
  <2>1. Becomes(TranslateOrHalt(v, "acl_out"))
    BY <1>9 DEF HostAcl
  <2>2. Balanced(Now', host) /\ Now'.wm = wm
    BY <2>1, TranslateBills
  <2>3. ASSUME NEW w \in Wiimotes, Connected(Now', w)
        PROVE  host'.con[Now'.wm[w].handle] = host.con[Now'.wm[w].handle]
    <3>1. Connected(Now, w)
      BY <2>2, <2>3, NowFields DEF Connected
    <3>2. wm[w].handle # v
      BY <1>9, <3>1, NowFields DEF FakesOf
    <3>. QED BY <1>5, <1>6, <1>7, <2>2, <3>2
  <2>4. \A u \in VirtHandles : host'.con[u].peer \in {host.con[u].peer, Nobody}
    BY <1>3, <1>5, <1>6
  <2>. QED BY <1>6, <2>2, <2>3, <2>4, HostElsewhere
<1>10. CASE fakes # {}
  <2> DEFINE w == Min(fakes)
             y == [wm[w] EXCEPT !.credits = @ + 1]
             s == [Now EXCEPT !.wm[w].credits = @ + 1]
             t == Disconnect(s, w)
  <2>1. Becomes(IF refuse THEN t ELSE s)
    BY <1>10 DEF HostAcl
  <2>2. w \in Wiimotes /\ Connected(Now, w) /\ Joined(w) /\ wm[w].handle = v
    <3>1. w \in fakes
      BY <1>10, FirstFake
    <3> HIDE DEF w
    <3>2. w \in Wiimotes /\ Connected(Now, w) /\ Now.wm[w].handle = v
      BY <3>1 DEF FakesOf
    <3>. QED BY <3>2, NowFields, JoinedConnected
  <2> HIDE DEF w
  <2>3. host.con[v].peer = w
    BY <1>1, <2>2, KnownPeer
  <2>4. /\ y \in WiimoteRec /\ y.active = wm[w].active /\ y.baseband = wm[w].baseband
        /\ y.handle = wm[w].handle /\ y.credits = wm[w].credits + 1
    <3> DEFINE z == wm[w]
               m == z.credits + 1
    <3>1. z \in WiimoteRec /\ m \in Nat
      BY <1>8, <2>2, NowFields DEF State, WiimoteRec
    <3>2. y = [z EXCEPT !.credits = m]
      OBVIOUS
    <3> HIDE DEF z, m, y
    <3>3. /\ y \in WiimoteRec /\ y.active = z.active /\ y.baseband = z.baseband
          /\ y.handle = z.handle /\ y.credits = m
      BY <3>1, <3>2, WiimoteExcept
    <3>. QED BY <3>3 DEF z, m
  <2>5. s = [Now EXCEPT !.wm[w] = y]
    BY NowFields
  <2> HIDE DEF s, y
  <2>6. /\ State(s) /\ s.hci = Now.hci /\ s.evtQ = Now.evtQ /\ s.overflow = Now.overflow
        /\ \A z \in Wiimotes : s.wm[z] = IF z = w THEN y ELSE Now.wm[z]
    BY <1>8, <2>2, <2>4, <2>5, WiimoteChange
  <2>7. /\ s.wm[w].active = Now.wm[w].active /\ s.wm[w].baseband = Now.wm[w].baseband
        /\ s.wm[w].handle = Now.wm[w].handle /\ s.wm[w].credits = Now.wm[w].credits + 1
        /\ \A z \in Wiimotes : z # w => s.wm[z] = Now.wm[z]
        /\ Now.wm[w].handle = v
    BY <2>2, <2>4, <2>6, NowFields
  <2>8. /\ \A u \in VirtHandles : u # v => host'.con[u] = host.con[u]
        /\ host'.con[v].peer = w /\ host'.con[v].sent = host.con[v].sent + 1
    BY <1>3, <1>5, <1>6, <2>2, <2>3 DEF n
  <2>9. Balanced(s, host')
    BY <1>1, <1>6, <1>8, <2>2, <2>3, <2>6, <2>7, <2>8, CountKeeps
  <2>10. CASE ~refuse
    BY <2>1, <2>6, <2>9, <2>10, Next1
  <2>11. CASE refuse
    <3>1. Becomes(t)
      BY <2>1, <2>11
    <3>2. s.wm[w].active
      BY <2>2, <2>7 DEF Connected
    <3>3. Eases(s, t, host') /\ State(t)
      BY <2>2, <2>6, <3>2, EasesDisconnect, DisconnectKeeps DEF Dropped
    <3> HIDE DEF t
    <3>. QED BY <2>6, <2>9, <3>1, <3>3, EasesNext, Next1
  <2>. QED BY <2>10, <2>11
<1>. QED BY <1>9, <1>10

LEMMA AcceptBills ==
    ASSUME TypeInv, HandlesLeft, Full, Balanced(Now, host), NEW p \in Peers,
           NEW master \in BOOLEAN, HostAccept(p, master)
    PROVE  Balanced(Now', host')
<1> DEFINE x == host.requests \ {p}
           y == host.accepted \cup {p}
<1>1. /\ host' = [host EXCEPT !.requests = x, !.accepted = y]
      /\ ~host.resetting /\ \A v \in VirtHandles : host.con[v].peer # p
  BY DEF HostAccept, HostReady
<1>2. x \subseteq host.requests
  OBVIOUS
<1> HIDE DEF x, y
<1>3. /\ host'.requests = x /\ host'.con = host.con
      /\ host'.resetting = host.resetting
  BY <1>1, HostValues DEF TypeInv
<1>4. Balanced(Now', host)
  <2>1. CASE UNCHANGED module
    <3>1. Now' = Now
      BY <2>1 DEF module, Now
    <3>. QED BY <3>1
  <2>2. CASE p \in Wiimotes /\ Becomes(Halt("inject"))
    BY <2>2, HaltBills
  <2>3. CASE p \in Wiimotes /\ Accepts(p)
    <3> DEFINE last == hci.last
    <3>1. State(Now) /\ last \in VirtHandles /\ State(Now')
      BY <2>3 DEF TypeInv, Sound, HciRec, Accepts
    <3>2. host.con[last].peer = Nobody
      <4>1. ~(last < last)
        BY LastNat
      <4>. QED BY <1>1, <3>1, <4>1, KnownPeer DEF Known
    <3>3. /\ Now.hci.last = last /\ Now'.hci.last = last + 1
          /\ Now.overflow => Now'.overflow
          /\ \A w \in Wiimotes : w # p => Now'.wm[w] = Now.wm[w]
          /\ Now'.wm[p].handle = last /\ Now'.wm[p].baseband = "complete"
          /\ Now'.wm[p].active = Now.wm[p].active /\ Now'.wm[p].credits = Now.wm[p].credits
          /\ AddsLast(Now.evtQ, Now'.evtQ, ConCompl(p, last))
      BY <2>3, NextHandle, NowFields, NextFields DEF Accepts
    <3> HIDE DEF last
    <3>4. Now.wm[p].active => Now.wm[p].credits = 0
      <4>1. Counting(Now, host)
        BY <1>1 DEF Balanced, Accounts, Settled
      <4>2. Now.wm[p].credits \in Nat /\ Now.wm[p].handle \in VirtHandles
        BY <2>3, <3>1 DEF State, WiimoteRec
      <4>. QED BY <1>1, <2>3, <4>1, <4>2 DEF Counting, Connected
    <3>5. Longer(Now.evtQ, Now'.evtQ)
      <4>1. Len(Now.evtQ) \in Nat /\ Len(Now'.evtQ) \in Nat
        BY <3>1, QueueLen DEF State
      <4>. QED BY <3>3, <4>1 DEF AddsLast, Longer
    <3>6. \A i \in 1..Len(Now'.evtQ) : i > Len(Now.evtQ) =>
             \/ Now'.evtQ[i] = Reply
             \/ Now'.evtQ[i] = ConCompl(p, last) /\ i = Len(Now'.evtQ)
      BY <3>3 DEF AddsLast
    <3>. QED BY <1>1, <2>3, <3>1, <3>2, <3>3, <3>4, <3>5, <3>6, OpensKeeps
  <2>4. CASE p \in Wiimotes /\ Becomes(AcceptCon(Now, p, master))
    BY <2>2, <2>3, <2>4, AcceptResult DEF TypeInv
  <2>. QED BY <2>1, <2>4 DEF HostAccept
<1>. QED BY <1>2, <1>3, <1>4, HostElsewhere

LEMMA ResetBills ==
    ASSUME TypeInv, Full, Balanced(Now, host), HostReset
    PROVE  Balanced(Now', host')
<1>1. /\ hci' = HciReset /\ evtQ' = evtQ
      /\ \A w \in Wiimotes : ~wm'[w].active
  BY ResetResult DEF HostReset, TypeInv
<1>2. /\ host'.requests = {} /\ host'.resetting /\ ~host.resetting
  BY DEF HostReset, HostReady
<1>3. Ends(evtQ) = {}
  BY <1>2 DEF Full, Resets
<1>4. /\ Now'.evtQ = evtQ /\ ~Now'.hci.scan
      /\ \A w \in Wiimotes : ~Now'.wm[w].active
  BY <1>1, NextFields DEF HciReset
<1>5. Quiet(Now', host')
  BY <1>2, <1>3, <1>4 DEF Quiet, Ends
<1>6. Priced(Now'.evtQ)
  BY <1>4, NowFields DEF Balanced, Accounts
<1>7. Paid(Now', host')
  BY <1>4 DEF Paid, Connected
<1>. QED BY <1>2, <1>5, <1>6, <1>7 DEF Balanced, Accounts

\* One event behind those that wait, or none.
LEMMA InjectNow ==
    ASSUME Sound(Now), NEW h, NEW e, Becomes(Inject([Now EXCEPT !.hci = h], e))
    PROVE  /\ Now'.wm = Now.wm /\ Now'.hci = h /\ (Now.overflow => Now'.overflow)
           /\ Longer(Now.evtQ, Now'.evtQ)
           /\ \A i \in 1..Len(Now'.evtQ) :
                 i > Len(Now.evtQ) => i = Len(Now'.evtQ) /\ Now'.evtQ[i] = e
<1> DEFINE s == [Now EXCEPT !.hci = h]
           t == Inject(s, e)
<1>1. s = Fields(wm, slots, h, evtQ, overflow, hung) /\ Sound(s)
  BY NowHci
<1> HIDE DEF s
<1>2. s.wm = Now.wm /\ s.hci = h /\ s.evtQ = Now.evtQ /\ s.overflow = Now.overflow
  BY <1>1, NowFields DEF Fields
<1>3. /\ State(t) /\ t.wm = s.wm /\ t.hci = s.hci
      /\ \/ t.evtQ = Append(s.evtQ, e) /\ t.overflow = s.overflow
         \/ t.evtQ = s.evtQ /\ t.overflow = TRUE
  BY <1>1, InjectEffect DEF Sound
<1> HIDE DEF t
<1>4. Now' = t
  BY <1>3, Next1 DEF t, s
<1>5. Queue(Now.evtQ)
  BY DEF Sound, State
<1>6. CASE t.evtQ = Append(s.evtQ, e)
  BY <1>2, <1>3, <1>4, <1>5, <1>6, LongerAppend
<1>7. CASE t.evtQ = s.evtQ
  BY <1>2, <1>3, <1>4, <1>5, <1>7, LongerSame
<1>. QED BY <1>2, <1>3, <1>4, <1>6, <1>7

\* The tracker sees an event of the dongle.
LEMMA TrackBills ==
    ASSUME TypeInv, HandlesLeft, ResetQuiet, Full, Balanced(Now, host), OH1Event
    PROVE  Balanced(Now', host')
<1> DEFINE e == Head(dongle.evts)
           v == GetVirt(hci, e.handle)
<1>1. dongle.evts # <<>> /\ e \in DongleEvents
  BY DongleOther DEF OH1Event, TypeInv
<1>2. Becomes(TrackEvent(e)) /\ host' = host
  BY DEF OH1Event
<1>3. Sound(Now) /\ State(Now)
  BY DEF TypeInv, Sound
<1>4. e.type = "con_compl" => ~host.resetting
  BY <1>1 DEF ResetQuiet
<1> HIDE DEF e
<1>5. CASE e.type = "con_compl"
  <2> DEFINE mapped == MapHandle(VirtAlloc(hci), e.handle, hci.last)
             last == hci.last
             p == e.peer
             out == ConCompl(p, last)
  <2>1. TrackEvent(e) = IF Free(hci) = {} THEN Halt("map")
                        ELSE Inject([Now EXCEPT !.hci = mapped], out)
    BY <1>5 DEF TrackEvent
  <2>2. CASE Free(hci) = {}
    BY <1>2, <2>1, <2>2, HaltBills
  <2>3. CASE Free(hci) # {}
    <3>1. p \notin Wiimotes /\ e.handle \in Phys
      BY <1>1, <1>5, EventKinds, CoreAssumption DEF Wiimotes
    <3>2. last \in VirtHandles /\ mapped.last = last + 1
      <4> DEFINE g == VirtAlloc(hci)
      <4>1. /\ g \in HciRec /\ g.table = hci.table /\ g.last = last + 1
            /\ last \in VirtHandles
        BY AllocType, NextHandle DEF TypeInv, HciRec
      <4>2. Free(g) # {}
        BY <2>3, <4>1 DEF Free
      <4> HIDE DEF g
      <4>3. MapHandle(g, e.handle, last).last = g.last
        BY <3>1, <4>1, <4>2, MapType
      <4>. QED BY <4>1, <4>3 DEF g
    <3>3. host.con[last].peer = Nobody
      <4>1. ~(last < last)
        BY LastNat
      <4>. QED BY <1>4, <1>5, <3>2, <4>1, KnownPeer DEF Known
    <3> HIDE DEF mapped, out
    <3>4. Becomes(Inject([Now EXCEPT !.hci = mapped], out))
      BY <1>2, <2>1, <2>3
    <3>5. /\ Now'.wm = Now.wm /\ Now'.hci = mapped /\ (Now.overflow => Now'.overflow)
          /\ Longer(Now.evtQ, Now'.evtQ)
          /\ \A i \in 1..Len(Now'.evtQ) :
                i > Len(Now.evtQ) => i = Len(Now'.evtQ) /\ Now'.evtQ[i] = out
      BY <1>3, <3>4, InjectNow
    <3>6. Now.hci.last = last /\ Now'.hci.last = last + 1
      BY <3>2, <3>5, NowFields
    <3>7. \A i \in 1..Len(Now'.evtQ) : i > Len(Now.evtQ) =>
             \/ Now'.evtQ[i] = Reply
             \/ Now'.evtQ[i] = ConCompl(p, last) /\ i = Len(Now'.evtQ)
      BY <3>5 DEF out
    <3> HIDE DEF last, p
    <3>8. Balanced(Now', host)
      BY <1>3, <1>4, <1>5, <3>1, <3>2, <3>3, <3>5, <3>6, <3>7, OpensKeeps
    <3>. QED BY <1>2, <3>8
  <2>. QED BY <2>2, <2>3
<1>6. CASE e.type = "discon_compl"
  <2> DEFINE unmapped == UnmapVirt(hci, v)
             out == DisconCompl(v)
  <2>1. TrackEvent(e) = IF WithPhys(hci, e.handle) = {} THEN Halt("event")
                        ELSE Inject([Now EXCEPT !.hci = unmapped], out)
    BY <1>6, NowFields DEF TrackEvent
  <2>2. CASE WithPhys(hci, e.handle) = {}
    BY <1>2, <2>1, <2>2, HaltBills
  <2>3. CASE WithPhys(hci, e.handle) # {}
    <3>1. PICK j \in WithPhys(hci, e.handle) :
             v = hci.table[j].virt /\ v \in VirtHandles /\ j \in WithVirt(hci, v)
      BY <2>3, VirtOf DEF TypeInv
    <3>2. j \in Entries /\ Valid(j) /\ Virt(j) = v
      BY <3>1 DEF WithPhys, Valid, Virt
    <3>3. ~host.resetting
      BY <3>2 DEF Full, Cleared
    <3>4. /\ v < hci.last
          /\ \A w \in Wiimotes : Joined(w) => wm[w].handle # v
      BY <3>2 DEF Full, Handles
    <3>5. unmapped.last = hci.last
      BY <3>1, UnmapType DEF TypeInv
    <3> HIDE DEF unmapped, out, v
    <3>6. Becomes(Inject([Now EXCEPT !.hci = unmapped], out))
      BY <1>2, <2>1, <2>3
    <3>7. /\ Now'.wm = Now.wm /\ Now'.hci = unmapped /\ (Now.overflow => Now'.overflow)
          /\ Longer(Now.evtQ, Now'.evtQ)
          /\ \A i \in 1..Len(Now'.evtQ) :
                i > Len(Now.evtQ) => i = Len(Now'.evtQ) /\ Now'.evtQ[i] = out
      BY <1>3, <3>6, InjectNow
    <3>8. /\ Now'.hci.last = Now.hci.last /\ v < Now.hci.last
          /\ \A w \in Wiimotes : Connected(Now, w) => Now.wm[w].handle # v
      BY <3>4, <3>5, <3>7, NowFields, JoinedConnected
    <3>9. v \in VirtHandles
      BY <3>1
    <3>10. Balanced(Now', host)
      BY <1>3, <3>3, <3>7, <3>8, <3>9, TrackKeeps DEF out
    <3>. QED BY <1>2, <3>10
  <2>. QED BY <2>2, <2>3
<1>7. CASE e.type = "on_handle"
  <2> DEFINE out == OnHandle(v)
  <2>1. TrackEvent(e) = IF WithPhys(hci, e.handle) = {} THEN Halt("event")
                        ELSE Inject(Now, out)
    BY <1>7 DEF TrackEvent
  <2>2. Bland(out)
    BY DEF Bland, OnHandle
  <2> HIDE DEF out
  <2>. QED BY <1>2, <2>1, <2>2, HaltBills, BlandBills
<1>8. CASE e.type \in {"con_req", "reply", "reset_compl"}
  <2>1. TrackEvent(e) = Inject(Now, e)
    BY <1>8 DEF TrackEvent
  <2>2. e.type = "con_req" => e.peer \in Reals
    BY <1>1 DEF DongleEvents, ConReq, ConCompl, DisconCompl, OnHandle, Reply, ResetCompl
  <2>3. Bland(e)
    BY <1>8, <2>2, CoreAssumption DEF Bland, Wiimotes
  <2>. QED BY <1>2, <2>1, <2>3, BlandBills
<1>. QED BY <1>1, <1>5, <1>6, <1>7, <1>8, EventKinds

-----------------------------------------------------------------------------
(* Credits: every step                                                      *)

Billed == Paid(Now, host) /\ (hung = "no" => Accounts(Now, host))

LEMMA ModuleBills ==
    ASSUME Balanced(Now, host), UNCHANGED <<module, host>>
    PROVE  Balanced(Now', host')
<1>1. Now' = Now /\ host' = host
  BY DEF module, Now
<1>. QED BY <1>1

LEMMA HostBills ==
    ASSUME TypeInv, HandlesLeft, Full, Balanced(Now, host), HostStep
    PROVE  Bills
<1>0. Handles
  BY DEF Full
<1>1. ASSUME NEW on \in BOOLEAN, HostScan(on) PROVE Bills
  BY <1>1, ScanBills, BalancedBills
<1>2. ASSUME NEW p \in Peers, NEW master \in BOOLEAN, HostAccept(p, master) PROVE Bills
  BY <1>2, AcceptBills, BalancedBills
<1>3. ASSUME NEW p \in Peers, HostReject(p) PROVE Bills
  BY <1>3, RejectBills, BalancedBills
<1>4. ASSUME NEW v \in VirtHandles, HostDisconnect(v) PROVE Bills
  BY <1>0, <1>4, DisconnectBills
<1>5. ASSUME NEW v \in VirtHandles, NEW n \in CmdReplies, HostCommand(v, n) PROVE Bills
  BY <1>5, CommandBills, BalancedBills
<1>6. ASSUME NEW p \in Peers, HostRemoteName(p) PROVE Bills
  BY <1>6, RemoteNameBills, BalancedBills
<1>7. ASSUME HostReadLinkKeys PROVE Bills
  BY <1>7, LinkKeysBills, BalancedBills
<1>8. ASSUME NEW v \in VirtHandles, NEW refuse \in BOOLEAN, HostAcl(v, refuse) PROVE Bills
  BY <1>8, AclBills, BalancedBills
<1>9. ASSUME HostReset PROVE Bills
  BY <1>9, ResetBills, BalancedBills
<1>. QED BY <1>1, <1>2, <1>3, <1>4, <1>5, <1>6, <1>7, <1>8, <1>9 DEF HostStep

LEMMA DongleBills ==
    ASSUME TypeInv, HandlesLeft, ResetQuiet, Full, Balanced(Now, host), DongleStep
    PROVE  Balanced(Now', host')
<1>1. CASE OH1Event
  BY <1>1, TrackBills
<1>2. CASE OH1Acl
  <2>1. host' = host
    BY <1>2 DEF OH1Acl
  <2>2. Becomes(Halt("acl_in")) \/ Becomes(Now)
    BY <1>2, Zenon DEF OH1Acl
  <2>. QED BY <2>1, <2>2, HaltBills
<1>3. CASE ~OH1Event /\ ~OH1Acl
  <2>1. UNCHANGED <<module, host>>
    BY <1>3 DEF DongleStep, DongleReset, RealRequest, RealLeaves, RealSends
  <2>. QED BY <2>1, ModuleBills
<1>. QED BY <1>1, <1>2, <1>3

LEMMA BilledStep ==
    ASSUME TypeInv, HandlesLeft, ResetQuiet, Full, Billed, Next
    PROVE  Billed'
<1>1. Balanced(Now, host)
  BY DEF Next, Billed, Balanced
<1>2. CASE Tick
  BY <1>1, <1>2, TickBills, BalancedBills DEF Billed, Bills
<1>3. CASE HostRead
  BY <1>1, <1>3, ReadKeeps, BalancedBills DEF Billed, Bills, Full
<1>4. CASE HostStep
  BY <1>1, <1>4, HostBills DEF Billed, Bills
<1>5. CASE DongleStep
  BY <1>1, <1>5, DongleBills, BalancedBills DEF Billed, Bills
<1>. QED BY <1>2, <1>3, <1>4, <1>5 DEF Next

LEMMA BilledInit ==
    ASSUME Init
    PROVE  Billed
<1> DEFINE q == <<>>
<1>1. Len(q) = 0
  OBVIOUS
<1>2. Now.evtQ = q /\ host.requests = {} /\ host.resetting = FALSE
  BY NowFields DEF Init
<1> HIDE DEF q
<1>3. \A i \in 1..Len(q) : FALSE
  BY <1>1
<1>4. \A w \in Wiimotes : ~Now.wm[w].active /\ Now.wm[w].baseband = "inactive"
  BY NowFields DEF Init, IdleWiimote
<1>5. Paid(Now, host)
  BY <1>4 DEF Paid, Connected
<1>6. Priced(Now.evtQ)
  BY <1>2, <1>3 DEF Priced
<1>7. Settled(Now, host)
  <2>1. GivenOut(Now, host) /\ Counting(Now, host)
    BY <1>4 DEF GivenOut, Counting, Used, Connected
  <2>2. (\A i \in 1..Len(Now.evtQ) : Fits(Now, host, Now.evtQ[i])) /\ Alone(Now.evtQ)
    BY <1>2, <1>3 DEF Alone
  <2>. QED BY <2>1, <2>2 DEF Settled
<1>. QED BY <1>2, <1>5, <1>6, <1>7 DEF Billed, Accounts

LEMMA BilledStutter ==
    ASSUME Billed, UNCHANGED vars
    PROVE  Billed'
BY DEF Billed, vars, Now, Paid, Owes, Accounts

LEMMA BilledConserved ==
    ASSUME Billed
    PROVE  CreditsConserved
BY NowFields DEF Billed, Paid, Owes, CreditsConserved

\* Under the same conditions every packet that the host sent to a connected fake
\* Wiimote, and has not been credited, is counted by that Wiimote or is on its way
\* in one event, unless an event was lost (fake_wiimote_mgr.c's num_completed_acl_
\* packets and fake_wiimotes_send_completed_packets): none is credited twice, to
\* another handle, or never.
THEOREM CreditsKept == Spec /\ []HandlesLeft /\ []ResetQuiet => []CreditsConserved
<1>1. TypeInv /\ HandlesLeft /\ ResetQuiet /\ Full /\ Billed /\ [Next]_vars => Billed'
  BY BilledStep, BilledStutter
<1>. QED BY <1>1, BilledInit, BilledConserved, TypeCorrect, FullCorrect, PTL DEF Spec
================================================================================
