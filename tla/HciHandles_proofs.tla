--------------------------- MODULE HciHandles_proofs ---------------------------
(***************************************************************************)
(* For every number of handles, of entries of the table and of connections: *)
(* open connections have different handles unless the counter went around  *)
(* while one of them was open; while they have, every event of the dongle  *)
(* finds its entry, and an answer is announced with the connection its     *)
(* command was for.                                                        *)
(***************************************************************************)
EXTENDS HciHandles, FiniteSetTheorems, SequenceTheorems, WellFoundedInduction, TLAPS

-----------------------------------------------------------------------------
(* Queues                                                                   *)

\* The successful events of queue q that are about handle p of the dongle.
Mine(q, p) == {i \in DOMAIN q : q[i].ok /\ q[i].handle = p}

\* What queue r, which is q with event e behind it, has for p,
Grown(q, r, e, p) ==
    LET n == Len(q) + 1
    IN  /\ n \in Nat \ {0} /\ r[n] = e
        /\ \A i \in Mine(q, p) : i \in Mine(r, p) /\ r[i] = q[i] /\ i < n
        /\ \A i \in Mine(r, p) :
              i \in Nat \ {0} /\ (i \in Mine(q, p) \/ (i = n /\ e.ok /\ e.handle = p))
        /\ e.ok /\ e.handle = p => n \in Mine(r, p)

\* and what r has, which is q without its first event e.
Shrunk(q, r, e, p) ==
    /\ e = q[1] /\ (1 \in Mine(q, p) <=> e.ok /\ e.handle = p)
    /\ \A i \in Mine(r, p) :
          i \in Nat \ {0} /\ i + 1 \in Mine(q, p) /\ r[i] = q[i + 1]
    /\ \A i \in Mine(q, p) :
          i \in Nat \ {0} /\ (i # 1 => i - 1 \in Mine(r, p) /\ r[i - 1] = q[i])

LEMMA AppendGrows ==
    ASSUME NEW S, NEW q \in Seq(S), NEW e \in S, NEW p
    PROVE  Grown(q, Append(q, e), e, p)
<1> DEFINE r == Append(q, e)
           n == Len(q) + 1
<1>1. /\ Len(r) = n /\ r[n] = e /\ r \in Seq(S)
      /\ \A i \in 1..Len(q) : r[i] = q[i]
  BY AppendProperties
<1>2. Len(q) \in Nat /\ DOMAIN q = 1..Len(q)
  BY LenProperties
<1> HIDE DEF r
<1>3. DOMAIN r = 1..n
  BY <1>1, LenProperties
<1>4. n \in Nat \ {0} /\ n \in 1..n
  BY <1>2
<1>5. \A i \in 1..Len(q) : i \in 1..n /\ i < n
  BY <1>2
<1>6. \A i \in 1..n : i \in Nat \ {0} /\ (i \in 1..Len(q) \/ i = n)
  BY <1>2
<1> HIDE DEF n
<1>7. \A i \in Mine(q, p) : i \in Mine(r, p) /\ r[i] = q[i] /\ i < n
  BY <1>1, <1>2, <1>3, <1>5 DEF Mine
<1>8. \A i \in Mine(r, p) :
         i \in Nat \ {0} /\ (i \in Mine(q, p) \/ (i = n /\ e.ok /\ e.handle = p))
  BY <1>1, <1>2, <1>3, <1>6 DEF Mine
<1>9. e.ok /\ e.handle = p => n \in Mine(r, p)
  BY <1>1, <1>3, <1>4 DEF Mine
<1>. QED BY <1>1, <1>4, <1>7, <1>8, <1>9 DEF Grown, n, r

LEMMA TailShrinks ==
    ASSUME NEW S, NEW q \in Seq(S), q # <<>>, NEW p
    PROVE  Shrunk(q, Tail(q), Head(q), p)
<1> DEFINE r == Tail(q)
<1>1. /\ Len(q) \in Nat \ {0} /\ Head(q) = q[1] /\ DOMAIN q = 1..Len(q)
      /\ r \in Seq(S) /\ Len(r) = Len(q) - 1
      /\ \A i \in 1..Len(q) - 1 : r[i] = q[i + 1]
  BY HeadTailProperties, LenProperties, EmptySeq
<1> HIDE DEF r
<1>2. DOMAIN r = 1..Len(q) - 1
  BY <1>1, LenProperties
<1>3. 1 \in DOMAIN q
  BY <1>1
<1>4. \A i \in DOMAIN r : i \in Nat \ {0} /\ i + 1 \in DOMAIN q /\ r[i] = q[i + 1]
  BY <1>1, <1>2
<1>5. ASSUME NEW i \in DOMAIN q
      PROVE  i \in Nat \ {0} /\ (i # 1 => i - 1 \in DOMAIN r /\ r[i - 1] = q[i])
  <2>1. i \in Nat \ {0} /\ (i # 1 => i - 1 \in 1..Len(q) - 1 /\ (i - 1) + 1 = i)
    BY <1>1
  <2>2. i # 1 => r[i - 1] = q[(i - 1) + 1]
    BY <1>1, <2>1
  <2>. QED BY <1>2, <2>1, <2>2
<1>6. 1 \in Mine(q, p) <=> Head(q).ok /\ Head(q).handle = p
  BY <1>1, <1>3 DEF Mine
<1>7. \A i \in Mine(r, p) : i \in Nat \ {0} /\ i + 1 \in Mine(q, p) /\ r[i] = q[i + 1]
  BY <1>4 DEF Mine
<1>8. \A i \in Mine(q, p) :
         i \in Nat \ {0} /\ (i # 1 => i - 1 \in Mine(r, p) /\ r[i - 1] = q[i])
  BY <1>5 DEF Mine
<1>. QED BY <1>1, <1>6, <1>7, <1>8 DEF Shrunk, r

-----------------------------------------------------------------------------
(* What the dongle has to report on one of its handles                      *)

\* The successful events on handle p: q are those that fakemote has not seen, T
\* the entries of the table that map p, l the connection that p has.  The
\* connection comes first, if T lacks it, and its end last, if l is None.
Flows(q, T, l, p) ==
    /\ \A i, j \in Mine(q, p) :
          /\ q[i].type = "connected" => i <= j /\ q[j].type # "event"
          /\ q[i].type = "disconnected" => j <= i
    /\ \A i, j \in T : i = j
    /\ T # {} => \A i \in Mine(q, p) : q[i].type # "connected"
    /\ T = {} /\ Mine(q, p) # {} => \E i \in Mine(q, p) : q[i].type = "connected"
    /\ l # None => \A i \in Mine(q, p) : q[i].type # "disconnected"
    /\ l # None /\ T = {} => Mine(q, p) # {}
    /\ l = None /\ (T # {} \/ Mine(q, p) # {})
          => \E i \in Mine(q, p) : q[i].type = "disconnected"

\* The connections, one at most as it turns out, that are behind p.
Bears(q, l, p, c) ==
    \/ l # None /\ c = l
    \/ \E i \in Mine(q, p) : q[i].type # "event" /\ c = q[i].con

\* An event about another handle, or of a failure, changes nothing.
LEMMA OtherFlows ==
    ASSUME NEW q, NEW r, NEW e, NEW T, NEW l, NEW p,
           Grown(q, r, e, p), ~(e.ok /\ e.handle = p), Flows(q, T, l, p)
    PROVE  /\ Flows(r, T, l, p)
           /\ \A c : Bears(r, l, p, c) <=> Bears(q, l, p, c)
<1>1. /\ \A i \in Mine(q, p) : i \in Mine(r, p) /\ r[i] = q[i]
      /\ \A i \in Mine(r, p) : i \in Mine(q, p) /\ r[i] = q[i]
  BY DEF Grown
<1>2. Flows(r, T, l, p)
  BY <1>1 DEF Flows
<1>3. \A c : Bears(r, l, p, c) <=> Bears(q, l, p, c)
  BY <1>1 DEF Bears
<1>. QED BY <1>2, <1>3

\* A connection of handle p, of which no event is left.
LEMMA OpenFlows ==
    ASSUME NEW q, NEW r, NEW e, NEW T, NEW p,
           Grown(q, r, e, p), e.ok, e.handle = p, e.type = "connected", e.con # None,
           Mine(q, p) = {}, Flows(q, T, None, p)
    PROVE  /\ Flows(r, T, e.con, p) /\ T = {}
           /\ \A c : ~Bears(q, None, p, c)
           /\ \A c : Bears(r, e.con, p, c) => c = e.con
<1> DEFINE n == Len(q) + 1
<1>1. /\ n \in Nat /\ r[n] = e /\ n \in Mine(r, p)
      /\ \A i \in Mine(r, p) : i = n
  BY DEF Grown
<1>2. T = {}
  BY DEF Flows
<1> HIDE DEF n
<1>3. Flows(r, T, e.con, p)
  BY <1>1, <1>2 DEF Flows
<1>4. \A c : Bears(r, e.con, p, c) => c = e.con
  BY <1>1 DEF Bears
<1>5. \A c : ~Bears(q, None, p, c)
  BY DEF Bears
<1>. QED BY <1>2, <1>3, <1>4, <1>5

\* The end of the connection of handle p.
LEMMA CloseFlows ==
    ASSUME NEW q, NEW r, NEW e, NEW T, NEW l, NEW p,
           Grown(q, r, e, p), e.ok, e.handle = p, e.type = "disconnected",
           l # None, e.con = l, Flows(q, T, l, p)
    PROVE  /\ Flows(r, T, None, p)
           /\ \A c : Bears(r, None, p, c) => Bears(q, l, p, c)
<1> DEFINE n == Len(q) + 1
<1>1. /\ n \in Nat /\ r[n] = e /\ n \in Mine(r, p)
      /\ \A i \in Mine(q, p) : i \in Mine(r, p) /\ r[i] = q[i] /\ i < n
      /\ \A i \in Mine(r, p) : i \in Nat /\ (i \in Mine(q, p) \/ i = n)
  BY DEF Grown
<1> HIDE DEF n
<1>2. \A i, j \in Mine(r, p) :
         /\ r[i].type = "connected" => i <= j /\ r[j].type # "event"
         /\ r[i].type = "disconnected" => j <= i
  <2>1. \A i \in Mine(r, p) : i <= n
    BY <1>1
  <2>2. \A i \in Mine(r, p) : r[i].type = "disconnected" => i = n
    BY <1>1 DEF Flows
  <2>3. \A i \in Mine(r, p) : r[i].type = "connected" => i \in Mine(q, p) /\ q[i].type = "connected"
    BY <1>1
  <2>4. ASSUME NEW i \in Mine(r, p), NEW j \in Mine(r, p), r[i].type = "connected"
        PROVE  i <= j /\ r[j].type # "event"
    <3>1. CASE j = n
      BY <1>1, <2>1, <3>1
    <3>2. CASE j \in Mine(q, p)
      BY <1>1, <2>3, <2>4, <3>2 DEF Flows
    <3>. QED BY <1>1, <3>1, <3>2
  <2>. QED BY <2>1, <2>2, <2>4
<1>3. T # {} => \A i \in Mine(r, p) : r[i].type # "connected"
  BY <1>1 DEF Flows
<1>4. T = {} => \E i \in Mine(r, p) : r[i].type = "connected"
  BY <1>1 DEF Flows
<1>5. \A i, j \in T : i = j
  BY DEF Flows
<1>6. Flows(r, T, None, p)
  BY <1>1, <1>2, <1>3, <1>4, <1>5 DEF Flows
<1>7. \A c : Bears(r, None, p, c) => Bears(q, l, p, c)
  BY <1>1 DEF Bears
<1>. QED BY <1>6, <1>7

\* An answer on handle p, which is mapped and connected.
LEMMA AskFlows ==
    ASSUME NEW q, NEW r, NEW e, NEW T, NEW l, NEW p,
           Grown(q, r, e, p), e.ok, e.handle = p, e.type = "event",
           l # None, T # {}, Flows(q, T, l, p)
    PROVE  /\ Flows(r, T, l, p)
           /\ \A c : Bears(r, l, p, c) <=> Bears(q, l, p, c)
<1> DEFINE n == Len(q) + 1
<1>1. /\ r[n] = e /\ n \in Mine(r, p)
      /\ \A i \in Mine(q, p) : i \in Mine(r, p) /\ r[i] = q[i]
      /\ \A i \in Mine(r, p) : i \in Mine(q, p) \/ i = n
  BY DEF Grown
<1> HIDE DEF n
<1>2. \A i \in Mine(r, p) : r[i].type \notin {"connected", "disconnected"}
  BY <1>1 DEF Flows
<1>3. Flows(r, T, l, p)
  BY <1>1, <1>2 DEF Flows
<1>4. \A c : Bears(r, l, p, c) <=> Bears(q, l, p, c)
  BY <1>1 DEF Bears
<1>. QED BY <1>3, <1>4

\* fakemote sees an event that leaves the table as it is; an answer finds an entry.
LEMMA PassFlows ==
    ASSUME NEW q, NEW r, NEW e, NEW T, NEW l, NEW p, Shrunk(q, r, e, p),
           e.ok /\ e.handle = p => e.type = "event", Flows(q, T, l, p)
    PROVE  /\ Flows(r, T, l, p)
           /\ e.ok /\ e.handle = p => T # {}
           /\ \A c : Bears(r, l, p, c) => Bears(q, l, p, c)
<1>1. /\ 1 \in Mine(q, p) => q[1].type = "event" /\ e.ok /\ e.handle = p
      /\ e.ok /\ e.handle = p => 1 \in Mine(q, p)
      /\ \A i \in Mine(r, p) : i \in Nat \ {0} /\ i + 1 \in Mine(q, p) /\ r[i] = q[i + 1]
      /\ \A i \in Mine(q, p) :
            i \in Nat \ {0} /\ (i # 1 => i - 1 \in Mine(r, p) /\ r[i - 1] = q[i])
  BY DEF Shrunk
<1>2. 1 \in Mine(q, p) => T # {}
  <2> SUFFICES ASSUME 1 \in Mine(q, p), T = {} PROVE FALSE
    OBVIOUS
  <2>1. PICK i \in Mine(q, p) : q[i].type = "connected"
    BY DEF Flows
  <2>2. q[1].type # "event"
    BY <2>1 DEF Flows
  <2>. QED BY <1>1, <2>2
<1>3. \A i, j \in Mine(r, p) :
         /\ r[i].type = "connected" => i <= j /\ r[j].type # "event"
         /\ r[i].type = "disconnected" => j <= i
  <2> SUFFICES ASSUME NEW i \in Mine(r, p), NEW j \in Mine(r, p)
               PROVE  /\ r[i].type = "connected" => i <= j /\ r[j].type # "event"
                      /\ r[i].type = "disconnected" => j <= i
    OBVIOUS
  <2> DEFINE a == i + 1
             b == j + 1
  <2>1. /\ i \in Nat /\ j \in Nat /\ a \in Mine(q, p) /\ b \in Mine(q, p)
        /\ r[i] = q[a] /\ r[j] = q[b]
    BY <1>1
  <2>2. (a <= b => i <= j) /\ (b <= a => j <= i)
    BY <2>1
  <2> HIDE DEF a, b
  <2>. QED BY <2>1, <2>2 DEF Flows
<1>4. \A i \in Mine(q, p) : q[i].type # "event" => i # 1
  BY <1>1
<1>5. /\ (\E i \in Mine(q, p) : q[i].type = "connected")
             => \E i \in Mine(r, p) : r[i].type = "connected"
      /\ (\E i \in Mine(q, p) : q[i].type = "disconnected")
             => \E i \in Mine(r, p) : r[i].type = "disconnected"
  BY <1>1, <1>4
<1>6. /\ T # {} => \A i \in Mine(r, p) : r[i].type # "connected"
      /\ l # None => \A i \in Mine(r, p) : r[i].type # "disconnected"
      /\ Mine(r, p) # {} => Mine(q, p) # {}
      /\ T = {} /\ Mine(q, p) # {} => Mine(r, p) # {}
      /\ \A i, j \in T : i = j
  BY <1>1, <1>2 DEF Flows
<1>7. Flows(r, T, l, p)
  BY <1>3, <1>5, <1>6 DEF Flows
<1>8. \A c : Bears(r, l, p, c) => Bears(q, l, p, c)
  BY <1>1 DEF Bears
<1>. QED BY <1>1, <1>2, <1>7, <1>8

\* fakemote sees the connection of handle p and maps it in entry k.
LEMMA MapFlows ==
    ASSUME NEW q, NEW r, NEW e, NEW T, NEW l, NEW p, NEW k, Shrunk(q, r, e, p),
           e.ok, e.handle = p, e.type = "connected", Flows(q, T, l, p)
    PROVE  /\ T = {} /\ Flows(r, {k}, l, p)
           /\ \A c : Bears(r, l, p, c) => Bears(q, l, p, c)
           /\ Bears(q, l, p, e.con)
           /\ \A i \in Mine(r, p) : r[i].type # "event"
<1> DEFINE U == {k}
<1>0. U # {} /\ \A i, j \in U : i = j
  OBVIOUS
<1> HIDE DEF U
<1>1. /\ 1 \in Mine(q, p) /\ q[1].type = "connected" /\ q[1].con = e.con
      /\ \A i \in Mine(r, p) : i \in Nat \ {0} /\ i + 1 \in Mine(q, p) /\ r[i] = q[i + 1]
      /\ \A i \in Mine(q, p) :
            i \in Nat \ {0} /\ (i # 1 => i - 1 \in Mine(r, p) /\ r[i - 1] = q[i])
  BY DEF Shrunk
<1>2. T = {} /\ \A i \in Mine(r, p) : r[i].type # "event"
  BY <1>1 DEF Flows
<1>3. \A i \in Mine(r, p) : r[i].type # "connected"
  <2> SUFFICES ASSUME NEW i \in Mine(r, p), r[i].type = "connected" PROVE FALSE
    OBVIOUS
  <2>1. i + 1 <= 1 /\ i \in Nat \ {0}
    BY <1>1 DEF Flows
  <2>. QED BY <2>1
<1>4. \A i, j \in Mine(r, p) : r[i].type = "disconnected" => j <= i
  <2> SUFFICES ASSUME NEW i \in Mine(r, p), NEW j \in Mine(r, p), r[i].type = "disconnected"
               PROVE  j <= i
    OBVIOUS
  <2>1. j + 1 <= i + 1 /\ i \in Nat /\ j \in Nat
    BY <1>1 DEF Flows
  <2>. QED BY <2>1
<1>5. l = None => \E i \in Mine(r, p) : r[i].type = "disconnected"
  <2> SUFFICES ASSUME l = None PROVE \E i \in Mine(r, p) : r[i].type = "disconnected"
    OBVIOUS
  <2>1. PICK i \in Mine(q, p) : q[i].type = "disconnected"
    BY <1>1 DEF Flows
  <2>. QED BY <1>1, <2>1
<1>6. l # None => \A i \in Mine(r, p) : r[i].type # "disconnected"
  BY <1>1 DEF Flows
<1>7. Flows(r, U, l, p)
  BY <1>0, <1>3, <1>4, <1>5, <1>6 DEF Flows
<1>8. \A c : Bears(r, l, p, c) => Bears(q, l, p, c)
  BY <1>1 DEF Bears
<1>9. Bears(q, l, p, e.con)
  BY <1>1 DEF Bears
<1>. QED BY <1>2, <1>7, <1>8, <1>9 DEF U

\* fakemote sees the end of the connection of handle p, and unmaps it.
LEMMA UnmapFlows ==
    ASSUME NEW q, NEW r, NEW e, NEW T, NEW l, NEW p, Shrunk(q, r, e, p),
           e.ok, e.handle = p, e.type = "disconnected", Flows(q, T, l, p)
    PROVE  /\ T # {} /\ Flows(r, {}, l, p)
           /\ \A c : ~Bears(r, l, p, c)
<1> DEFINE U == {}
<1>0. U = {} /\ \A i, j \in U : i = j
  OBVIOUS
<1> HIDE DEF U
<1>1. /\ 1 \in Mine(q, p) /\ q[1].type = "disconnected"
      /\ \A i \in Mine(r, p) : i \in Nat \ {0} /\ i + 1 \in Mine(q, p)
      /\ \A i \in Mine(q, p) : i \in Nat \ {0}
  BY DEF Shrunk
<1>2. Mine(r, p) = {}
  <2> SUFFICES ASSUME NEW i \in Mine(r, p) PROVE FALSE
    OBVIOUS
  <2>1. i + 1 <= 1 /\ i \in Nat \ {0}
    BY <1>1 DEF Flows
  <2>. QED BY <2>1
<1>3. l = None
  BY <1>1 DEF Flows
<1>4. T # {}
  <2> SUFFICES ASSUME T = {} PROVE FALSE
    OBVIOUS
  <2>1. PICK i \in Mine(q, p) : q[i].type = "connected"
    BY <1>1 DEF Flows
  <2>2. i <= 1 /\ 1 <= i /\ i \in Nat
    BY <1>1, <2>1 DEF Flows
  <2>. QED BY <1>1, <2>1, <2>2
<1>5. Flows(r, U, l, p)
  BY <1>0, <1>2, <1>3 DEF Flows
<1>6. \A c : ~Bears(r, l, p, c)
  BY <1>2, <1>3 DEF Bears
<1>. QED BY <1>4, <1>5, <1>6 DEF U

-----------------------------------------------------------------------------
(* The tracker and its table                                                *)

LEMMA MinIn ==
    ASSUME NEW S \in SUBSET Nat, S # {}
    PROVE  Min(S) \in S
<1>1. PICK x \in S : \A y \in S : ~(<<y, x>> \in OpToRel(<, Nat))
  BY NatLessThanWellFounded, WFMin
<1>2. \A y \in S : ~(y < x)
  BY <1>1, Zenon DEF OpToRel
<1>3. \A y \in S : x <= y
  BY <1>2
<1>. QED BY <1>3 DEF Min

EntryRec == [valid : {FALSE}] \cup [valid : {TRUE}, phys : Phys, virt : VirtHandles]
HciRec == [scan : BOOLEAN, last : VirtHandles, table : [Entries -> EntryRec]]

\* Table g is that of h but for entry i, which is e.
Rewrites(h, g, i, e) ==
    /\ i \in Entries /\ g.table[i] = e
    /\ \A j \in Entries : j # i => g.table[j] = h.table[j]

LEMMA TableChange ==
    ASSUME NEW h \in HciRec, NEW i \in Entries, NEW e \in EntryRec
    PROVE  /\ [h EXCEPT !.table[i] = e] \in HciRec
           /\ [h EXCEPT !.table[i] = e].last = h.last
           /\ Rewrites(h, [h EXCEPT !.table[i] = e], i, e)
<1> DEFINE table == [h.table EXCEPT ![i] = e]
           g == [h EXCEPT !.table = table]
<1>1. [h EXCEPT !.table[i] = e] = g
  OBVIOUS
<1>2. h.table \in [Entries -> EntryRec]
  BY DEF HciRec
<1>3. /\ table \in [Entries -> EntryRec] /\ table[i] = e
      /\ \A j \in Entries : j # i => table[j] = h.table[j]
  BY <1>2
<1> HIDE DEF table
<1>4. g \in HciRec /\ g.last = h.last /\ g.table = table
  BY <1>3 DEF HciRec
<1> HIDE DEF g
<1>5. Rewrites(h, g, i, e)
  BY <1>3, <1>4 DEF Rewrites
<1>. QED BY <1>1, <1>4, <1>5

\* The counter goes up, or around.
LEMMA AllocCounts ==
    ASSUME NEW h \in HciRec
    PROVE  /\ VirtAlloc(h) \in HciRec /\ VirtAlloc(h).table = h.table
           /\ h.last \in Nat /\ h.last < NumHandles
           /\ VirtAlloc(h).last = IF h.last + 1 < NumHandles THEN h.last + 1 ELSE 0
<1> DEFINE n == (h.last + 1) % NumHandles
           m == IF h.last + 1 < NumHandles THEN h.last + 1 ELSE 0
<1>1. h.last \in Nat /\ h.last < NumHandles /\ NumHandles \in Nat \ {0}
  BY HciAssumption DEF HciRec, VirtHandles
<1>2. n = m
  <2>1. CASE h.last + 1 < NumHandles
    BY <1>1, <2>1
  <2>2. CASE ~(h.last + 1 < NumHandles)
    <3>1. h.last + 1 = NumHandles
      BY <1>1, <2>2
    <3>2. NumHandles % NumHandles = 0
      BY <1>1
    <3>. QED BY <2>2, <3>1, <3>2
  <2>. QED BY <2>1, <2>2
<1>3. m \in VirtHandles
  BY <1>1 DEF VirtHandles
<1>4. VirtAlloc(h) = [h EXCEPT !.last = n]
  BY DEF VirtAlloc
<1> HIDE DEF n, m
<1>5. VirtAlloc(h) \in HciRec /\ VirtAlloc(h).table = h.table /\ VirtAlloc(h).last = m
  BY <1>2, <1>3, <1>4 DEF HciRec
<1>. QED BY <1>1, <1>5 DEF m

LEMMA EntriesNat ==
    ASSUME NEW S \in SUBSET Entries, S # {}
    PROVE  Min(S) \in S
BY MinIn DEF Entries

LEMMA MapType ==
    ASSUME NEW h \in HciRec, Free(h) # {}, NEW p \in Phys, NEW v \in VirtHandles
    PROVE  /\ MapHandle(h, p, v) \in HciRec /\ MapHandle(h, p, v).last = h.last
           /\ \E i \in Entries : /\ ~h.table[i].valid
                                 /\ Rewrites(h, MapHandle(h, p, v), i, Mapped(p, v))
<1> DEFINE i == Min(Free(h))
<1>1. i \in Entries /\ ~h.table[i].valid
  <2>1. i \in Free(h)
    BY EntriesNat DEF Free
  <2>. QED BY <2>1 DEF Free
<1>2. Mapped(p, v) \in EntryRec
  BY DEF Mapped, EntryRec
<1>. QED BY <1>1, <1>2, TableChange DEF MapHandle

\* The handle of the host that stands for one of the dongle, and the other way.
LEMMA VirtOf ==
    ASSUME NEW h \in HciRec, NEW p, WithPhys(h, p) # {}
    PROVE  \E i \in WithPhys(h, p) :
              /\ GetVirt(h, p) = h.table[i].virt /\ GetVirt(h, p) \in VirtHandles
              /\ i \in WithVirt(h, GetVirt(h, p))
<1> DEFINE i == Min(WithPhys(h, p))
<1>1. i \in WithPhys(h, p)
  BY EntriesNat DEF WithPhys
<1>2. i \in Entries /\ h.table[i].valid /\ h.table[i] \in EntryRec
  BY <1>1 DEF WithPhys, HciRec
<1>3. GetVirt(h, p) = h.table[i].virt
  BY DEF GetVirt
<1>4. h.table[i].virt \in VirtHandles
  BY <1>2 DEF EntryRec
<1>. QED BY <1>1, <1>2, <1>3, <1>4 DEF WithVirt

LEMMA PhysOf ==
    ASSUME NEW h \in HciRec, NEW v, WithVirt(h, v) # {}
    PROVE  /\ GetPhys(h, v) \in Phys
           /\ \E i \in WithPhys(h, GetPhys(h, v)) : h.table[i].virt = v
<1> DEFINE i == Min(WithVirt(h, v))
<1>1. i \in WithVirt(h, v)
  BY EntriesNat DEF WithVirt
<1>2. i \in Entries /\ h.table[i].valid /\ h.table[i] \in EntryRec /\ h.table[i].virt = v
  BY <1>1 DEF WithVirt, HciRec
<1>3. GetPhys(h, v) = h.table[i].phys
  BY DEF GetPhys
<1>4. h.table[i].phys \in Phys
  BY <1>2 DEF EntryRec
<1> HIDE DEF i
<1>. QED BY <1>2, <1>3, <1>4 DEF WithPhys

LEMMA UnmapType ==
    ASSUME NEW h \in HciRec, NEW v, WithVirt(h, v) # {}
    PROVE  /\ UnmapVirt(h, v) \in HciRec /\ UnmapVirt(h, v).last = h.last
           /\ \E i \in WithVirt(h, v) : Rewrites(h, UnmapVirt(h, v), i, Unmapped)
<1> DEFINE i == Min(WithVirt(h, v))
<1>1. i \in WithVirt(h, v) /\ i \in Entries
  BY EntriesNat DEF WithVirt
<1>2. Unmapped \in EntryRec
  BY DEF Unmapped, EntryRec
<1>. QED BY <1>1, <1>2, TableChange DEF UnmapVirt

-----------------------------------------------------------------------------
(* Types                                                                    *)

Kinds == {"connected", "disconnected", "event"}

\* Events with a handle in H about the connections up to number m.
Events(H, m) ==
    {e \in [type : Kinds, ok : BOOLEAN, handle : H, con : 0..m] :
        /\ e.type = "event" => e.ok
        /\ e.ok => e.con # None}

\* Nobody knows of a connection after number m.
Numbered(m) ==
    /\ link \in [Phys -> 0..m]
    /\ fakes \in SUBSET [con : 1..m, handle : VirtHandles]
    /\ usb \in Seq(Events(Phys, m))
    /\ evtQ \in Seq(Events(Nat, m))
    /\ host = [con |-> host.con, answer |-> host.answer]
    /\ host.con \in [VirtHandles -> 0..m]
    /\ host.answer \in Seq(Events(Nat, m))
    /\ taken \in Seq([con : 1..m, handle : VirtHandles])

HandlesType == hci \in HciRec /\ made \in 0..MaxCons /\ Numbered(made)

LEMMA VirtNat == VirtHandles \in SUBSET Nat
BY HciAssumption DEF VirtHandles

\* Events stay what they are when another connection is made.
LEMMA EventsMore ==
    ASSUME NEW m \in Nat, NEW H
    PROVE  Events(H, m) \subseteq Events(H, m + 1)
<1>1. 0..m \subseteq 0..(m + 1)
  OBVIOUS
<1>. QED BY <1>1 DEF Events

LEMMA NumberedMore ==
    ASSUME NEW m \in Nat, Numbered(m)
    PROVE  Numbered(m + 1)
<1> DEFINE n == m + 1
<1>1. 0..m \subseteq 0..n /\ 1..m \subseteq 1..n
  OBVIOUS
<1>2. \A H : Events(H, m) \subseteq Events(H, n)
  BY EventsMore
<1>3. /\ usb \in Seq(Events(Phys, n)) /\ evtQ \in Seq(Events(Nat, n))
      /\ host.answer \in Seq(Events(Nat, n))
  <2> HIDE DEF n
  <2>. QED BY <1>2, SeqMonotonic DEF Numbered
<1>4. taken \in Seq([con : 1..n, handle : VirtHandles])
  <2>1. [con : 1..m, handle : VirtHandles] \subseteq [con : 1..n, handle : VirtHandles]
    BY <1>1
  <2> HIDE DEF n
  <2>. QED BY <2>1, SeqMonotonic DEF Numbered
<1> HIDE DEF n
<1>5. Numbered(n)
  BY <1>1, <1>3, <1>4 DEF Numbered
<1>. QED BY <1>5 DEF n

LEMMA EventIn ==
    ASSUME NEW H, NEW m \in Nat, NEW type \in Kinds, NEW ok \in BOOLEAN, NEW h \in H,
           NEW c \in 0..m, type = "event" => ok, ok => c # None
    PROVE  Event(type, ok, h, c) \in Events(H, m)
BY DEF Event, Events

\* What fakemote makes of an event of the dongle.
LEMMA EventExcept ==
    ASSUME NEW H, NEW m \in Nat, NEW e \in Events(H, m), NEW h
    PROVE  /\ [e EXCEPT !.handle = h] = Event(e.type, e.ok, h, e.con)
           /\ h \in Nat => [e EXCEPT !.handle = h] \in Events(Nat, m)
BY DEF Event, Events

LEMMA KindsAre == "connected" \in Kinds /\ "disconnected" \in Kinds /\ "event" \in Kinds
BY DEF Kinds

LEMMA Fields ==
    \A t, o, h, c : /\ Event(t, o, h, c).type = t /\ Event(t, o, h, c).ok = o
                    /\ Event(t, o, h, c).handle = h /\ Event(t, o, h, c).con = c
BY DEF Event

\* The first event of a queue.
LEMMA HeadIn ==
    ASSUME NEW S, NEW q \in Seq(S), q # <<>>
    PROVE  Head(q) \in S /\ Tail(q) \in Seq(S)
BY HeadTailProperties

LEMMA TakeType ==
    ASSUME hci \in HciRec, NEW m \in Nat, Numbered(m), NEW c \in 1..m, Take(c)
    PROVE  taken' \in Seq([con : 1..m, handle : VirtHandles])
<1> DEFINE S == [con : 1..m, handle : VirtHandles]
           t == [con |-> c, handle |-> hci.last]
<1>1. t \in S /\ taken \in Seq(S)
  BY DEF HciRec, Numbered
<1> HIDE DEF S, t
<1>2. Append(taken, t) \in Seq(S)
  BY <1>1, AppendProperties
<1>. QED BY <1>2 DEF Take, S, t

LEMMA RealConnectsType ==
    ASSUME HandlesType, NEW p \in Phys, RealConnects(p)
    PROVE  HandlesType'
<1>0. PICK m : m = made + 1
  OBVIOUS
<1> DEFINE e == Event("connected", TRUE, p, m)
<1>1. /\ m \in 0..MaxCons /\ m \in Nat /\ m \in 0..m /\ m # None
      /\ made' = m /\ made \in Nat
  BY <1>0, HandlesAssumption DEF HandlesType, RealConnects, None
<1>2. Numbered(m)
  BY <1>0, <1>1, NumberedMore DEF HandlesType
<1>3. e \in Events(Phys, m)
  BY <1>1, KindsAre, EventIn
<1>4. usb' = Append(usb, e) /\ link' = [link EXCEPT ![p] = m]
  BY <1>0 DEF RealConnects, Sends
<1> HIDE DEF e
<1>5. usb' \in Seq(Events(Phys, m))
  BY <1>2, <1>3, <1>4, AppendProperties DEF Numbered
<1>6. link' \in [Phys -> 0..m]
  BY <1>1, <1>2, <1>4 DEF Numbered
<1>7. Numbered(m)'
  BY <1>2, <1>5, <1>6 DEF Numbered, RealConnects
<1>. QED BY <1>1, <1>7 DEF HandlesType, RealConnects

LEMMA RealFailsType ==
    ASSUME HandlesType, NEW p \in Phys, RealFails(p)
    PROVE  HandlesType'
<1> DEFINE e == Event("connected", FALSE, p, None)
<1>1. made \in Nat /\ None \in 0..made
  BY DEF HandlesType, None
<1>2. e \in Events(Phys, made)
  BY <1>1, KindsAre, EventIn
<1> HIDE DEF e
<1>3. usb' = Append(usb, e)
  BY DEF RealFails, Sends, e
<1>4. usb' \in Seq(Events(Phys, made))
  BY <1>2, <1>3, AppendProperties DEF HandlesType, Numbered
<1>. QED BY <1>4 DEF HandlesType, Numbered, RealFails

LEMMA RealLeavesType ==
    ASSUME HandlesType, NEW p \in Phys, RealLeaves(p)
    PROVE  HandlesType'
<1> DEFINE e == Event("disconnected", TRUE, p, link[p])
<1>1. made \in Nat /\ None \in 0..made /\ link[p] \in 0..made /\ link[p] # None
  BY DEF HandlesType, Numbered, None, RealLeaves
<1>2. e \in Events(Phys, made)
  BY <1>1, KindsAre, EventIn
<1> HIDE DEF e
<1>3. usb' = Append(usb, e) /\ link' = [link EXCEPT ![p] = None]
  BY DEF RealLeaves, Sends, e
<1>4. usb' \in Seq(Events(Phys, made))
  BY <1>2, <1>3, AppendProperties DEF HandlesType, Numbered
<1>5. link' \in [Phys -> 0..made]
  BY <1>1, <1>3 DEF HandlesType, Numbered
<1>. QED BY <1>4, <1>5 DEF HandlesType, Numbered, RealLeaves

LEMMA FakeConnectsType ==
    ASSUME HandlesType, FakeConnects
    PROVE  HandlesType'
<1>0. PICK m : m = made + 1
  OBVIOUS
<1> DEFINE e == Event("connected", TRUE, hci.last, m)
           f == [con |-> m, handle |-> hci.last]
<1>1. /\ m \in 0..MaxCons /\ m \in Nat /\ m \in 1..m /\ m \in 0..m /\ m # None
      /\ made' = m /\ made \in Nat
  BY <1>0, HandlesAssumption DEF HandlesType, FakeConnects, None
<1>2. Numbered(m) /\ hci \in HciRec
  BY <1>0, <1>1, NumberedMore DEF HandlesType
<1>3. hci.last \in VirtHandles /\ hci.last \in Nat
  BY <1>2, VirtNat DEF HciRec
<1>4. e \in Events(Nat, m)
  BY <1>1, <1>3, KindsAre, EventIn
<1>5. f \in [con : 1..m, handle : VirtHandles]
  BY <1>1, <1>3
<1>6. evtQ' = Append(evtQ, e) /\ fakes' = fakes \cup {f} /\ Take(m)
  BY <1>0 DEF FakeConnects
<1> HIDE DEF e, f
<1>7. evtQ' \in Seq(Events(Nat, m))
  BY <1>2, <1>4, <1>6, AppendProperties DEF Numbered
<1>8. fakes' \in SUBSET [con : 1..m, handle : VirtHandles]
  BY <1>2, <1>5, <1>6 DEF Numbered
<1>9. taken' \in Seq([con : 1..m, handle : VirtHandles])
  BY <1>1, <1>2, <1>6, TakeType
<1>10. Numbered(m)'
  BY <1>2, <1>7, <1>8, <1>9 DEF Numbered, FakeConnects
<1>11. hci' \in HciRec
  BY <1>2, AllocCounts DEF FakeConnects
<1>. QED BY <1>1, <1>10, <1>11 DEF HandlesType

LEMMA FakeLeavesType ==
    ASSUME HandlesType, NEW f \in fakes, FakeLeaves(f)
    PROVE  HandlesType'
<1> DEFINE e == Event("disconnected", TRUE, f.handle, f.con)
<1>1. made \in Nat /\ f \in [con : 1..made, handle : VirtHandles]
  BY DEF HandlesType, Numbered
<1>2. f.con \in 0..made /\ f.con # None /\ f.handle \in Nat
  <2>1. f.con \in 1..made /\ f.handle \in VirtHandles
    BY <1>1
  <2>2. \A c \in 1..made : c \in 0..made /\ c # None
    BY <1>1 DEF None
  <2>. QED BY <2>1, <2>2, VirtNat
<1>3. e \in Events(Nat, made)
  BY <1>1, <1>2, KindsAre, EventIn
<1> HIDE DEF e
<1>4. evtQ' = Append(evtQ, e) /\ fakes' = fakes \ {f}
  BY DEF FakeLeaves, e
<1>5. evtQ' \in Seq(Events(Nat, made))
  BY <1>3, <1>4, AppendProperties DEF HandlesType, Numbered
<1>. QED BY <1>4, <1>5 DEF HandlesType, Numbered, FakeLeaves

-----------------------------------------------------------------------------
(* What a command and an event of the dongle do                             *)

LEMMA HostExcept ==
    ASSUME NEW h, h = [con |-> h.con, answer |-> h.answer], NEW v, NEW c, NEW a
    PROVE  [h EXCEPT !.con[v] = c, !.answer = a]
             = [con |-> [h.con EXCEPT ![v] = c], answer |-> a]
<1> DEFINE f == [h.con EXCEPT ![v] = c]
<1>1. [h EXCEPT !.con[v] = c, !.answer = a] = [h EXCEPT !.con = f, !.answer = a]
  OBVIOUS
<1> HIDE DEF f
<1> DEFINE g == [h EXCEPT !.con = f]
           x == h.con
           y == h.answer
<1>2. [h EXCEPT !.con = f, !.answer = a] = [g EXCEPT !.answer = a]
  OBVIOUS
<1>3. h = [con |-> x, answer |-> y]
  OBVIOUS
<1> HIDE DEF x, y
<1>4. g = [con |-> f, answer |-> y]
  BY <1>3
<1> HIDE DEF g
<1>5. [g EXCEPT !.answer = a] = [con |-> f, answer |-> a]
  BY <1>4
<1>. QED BY <1>1, <1>2, <1>5 DEF f

Closes(what, ok) == what = "disconnected" /\ ok

\* The dongle performs a command for handle v, which is p of its own.
Performs(v, what, ok, p) ==
    /\ link[p] # None /\ hung' = hung
    /\ \E i \in WithPhys(hci, p) : hci.table[i].virt = v
    /\ usb' = Append(usb, Event(what, ok, p, host.con[v]))
    /\ link' = IF Closes(what, ok) THEN [link EXCEPT ![p] = None] ELSE link

LEMMA CommandEffect ==
    ASSUME HandlesType, NEW v \in VirtHandles, NEW what, NEW ok,
           HostCommands(v, what, ok)
    PROVE  /\ host.con[v] # None /\ (what = "disconnected" \/ ok)
           /\ UNCHANGED <<hci, fakes, evtQ, taken, crowded, made>>
           /\ host' = [con |-> [host.con EXCEPT ![v] = IF Closes(what, ok) THEN None
                                                       ELSE host.con[v]],
                       answer |-> <<>>]
           /\ \/ UNCHANGED <<usb, link>>
              \/ \E p \in Phys : Performs(v, what, ok, p)
<1> DEFINE c == IF what = "disconnected" /\ ok THEN None ELSE host.con[v]
<1>1. host = [con |-> host.con, answer |-> host.answer]
  BY DEF HandlesType, Numbered
<1>2. host' = [host EXCEPT !.con[v] = c, !.answer = <<>>]
  BY DEF HostCommands
<1> HIDE DEF c
<1>3. host' = [con |-> [host.con EXCEPT ![v] = c], answer |-> <<>>]
  BY <1>1, <1>2, HostExcept
<1>4. UNCHANGED <<usb, link>> \/ \E p \in Phys : Performs(v, what, ok, p)
  <2>1. CASE WithVirt(hci, v) = {}
    BY <2>1 DEF HostCommands
  <2>2. CASE WithVirt(hci, v) # {}
    <3> DEFINE p == GetPhys(hci, v)
    <3>1. p \in Phys /\ \E i \in WithPhys(hci, p) : hci.table[i].virt = v
      BY <2>2, PhysOf DEF HandlesType
    <3>2. CASE link[p] = None
      BY <2>2, <3>2 DEF HostCommands
    <3>3. CASE link[p] # None
      <4>1. /\ hung' = hung /\ usb' = Append(usb, Event(what, ok, p, host.con[v]))
            /\ link' = IF what = "disconnected" /\ ok THEN [link EXCEPT ![p] = None] ELSE link
        BY <2>2, <3>3 DEF HostCommands, Sends
      <4> HIDE DEF p
      <4>2. Performs(v, what, ok, p)
        BY <3>1, <3>3, <4>1 DEF Performs, Closes
      <4>. QED BY <3>1, <4>2
    <3>. QED BY <3>2, <3>3
  <2>. QED BY <2>1, <2>2
<1>. QED BY <1>3, <1>4 DEF HostCommands, c, Closes

LEMMA HostCommandsType ==
    ASSUME HandlesType, NEW v \in VirtHandles, NEW what \in {"event", "disconnected"},
           NEW ok \in BOOLEAN, HostCommands(v, what, ok)
    PROVE  HandlesType'
<1> DEFINE c == host.con[v]
           d == IF Closes(what, ok) THEN None ELSE c
           S == Events(Phys, made)
<1>1. /\ made \in Nat /\ c \in 0..made /\ c # None /\ d \in 0..made
      /\ host.con \in [VirtHandles -> 0..made]
  BY CommandEffect DEF HandlesType, Numbered, None
<1>2. /\ UNCHANGED <<hci, fakes, evtQ, taken, made>>
      /\ host' = [con |-> [host.con EXCEPT ![v] = d], answer |-> <<>>]
      /\ what \in Kinds /\ (what = "event" => ok)
  BY CommandEffect, KindsAre
<1>3. UNCHANGED <<usb, link>> \/ \E p \in Phys : Performs(v, what, ok, p)
  BY CommandEffect
<1>4. ASSUME NEW p \in Phys PROVE Event(what, ok, p, c) \in S
  BY <1>1, <1>2, EventIn
<1> HIDE DEF d
<1>5. [host.con EXCEPT ![v] = d] \in [VirtHandles -> 0..made]
  BY <1>1
<1>6. usb' \in Seq(S) /\ link' \in [Phys -> 0..made]
  <2>1. usb \in Seq(S) /\ link \in [Phys -> 0..made] /\ None \in 0..made
    BY <1>1 DEF HandlesType, Numbered, None
  <2> HIDE DEF S, c
  <2>2. CASE UNCHANGED <<usb, link>>
    BY <2>1, <2>2
  <2>3. ASSUME NEW p \in Phys, Performs(v, what, ok, p)
        PROVE  usb' \in Seq(S) /\ link' \in [Phys -> 0..made]
    <3>1. usb' = Append(usb, Event(what, ok, p, c))
      BY <2>3 DEF Performs, c
    <3>2. link' = link \/ link' = [link EXCEPT ![p] = None]
      BY <2>3 DEF Performs
    <3>. QED BY <1>4, <2>1, <3>1, <3>2, AppendProperties
  <2>. QED BY <1>3, <2>2, <2>3
<1>7. <<>> \in Seq(Events(Nat, made))
  BY EmptySeq
<1>8. Numbered(made)'
  BY <1>2, <1>5, <1>6, <1>7 DEF HandlesType, Numbered
<1>. QED BY <1>2, <1>8 DEF HandlesType

\* Event e of the dongle stops the module,
Stops(e) ==
    /\ \/ hung' = "map" /\ Maps(e) /\ Free(hci) = {}
       \/ hung' = "event" /\ Translated(e) /\ ~Maps(e) /\ WithPhys(hci, e.handle) = {}
    /\ UNCHANGED <<hci, evtQ, taken, crowded>>

\* or is a new connection, which it maps,
MapsTo(e) ==
    /\ Maps(e) /\ hung' = hung /\ Take(e.con)
    /\ hci' \in HciRec /\ hci'.last = VirtAlloc(hci).last
    /\ \E i \in Entries : /\ ~hci.table[i].valid
                          /\ Rewrites(hci, hci', i, Mapped(e.handle, hci.last))
    /\ evtQ' = Append(evtQ, Event(e.type, e.ok, hci.last, e.con))

\* or the end of one, which it unmaps,
UnmapsTo(e) ==
    /\ Unmaps(e) /\ UNCHANGED <<hung, taken, crowded>>
    /\ hci' \in HciRec /\ hci'.last = hci.last
    /\ \E j \in WithPhys(hci, e.handle) :
         LET v == hci.table[j].virt
         IN  /\ v \in VirtHandles
             /\ j \in WithVirt(hci, v)
             /\ \E i \in WithVirt(hci, v) : Rewrites(hci, hci', i, Unmapped)
             /\ evtQ' = Append(evtQ, Event(e.type, e.ok, v, e.con))

\* or an answer or a failure.
Passes(e) ==
    /\ e.ok => e.type = "event"
    /\ UNCHANGED <<hci, hung, taken, crowded>>
    /\ \E v \in Nat :
         /\ e.type = "event" => \E j \in WithPhys(hci, e.handle) : v = hci.table[j].virt
         /\ evtQ' = Append(evtQ, Event(e.type, e.ok, v, e.con))

LEMMA OH1EventEffect ==
    ASSUME HandlesType, OH1Event
    PROVE  /\ usb # <<>> /\ usb' = Tail(usb) /\ UNCHANGED <<link, fakes, host, made>>
           /\ Head(usb) \in Events(Phys, made)
           /\ LET e == Head(usb)
              IN  Stops(e) \/ MapsTo(e) \/ UnmapsTo(e) \/ Passes(e)
<1> DEFINE e == Head(usb)
<1>1. made \in Nat /\ hci \in HciRec /\ usb # <<>>
  BY DEF HandlesType, OH1Event
<1>2. e \in Events(Phys, made)
  BY <1>1, HeadIn DEF HandlesType, Numbered
<1>. SUFFICES Stops(e) \/ MapsTo(e) \/ UnmapsTo(e) \/ Passes(e)
  BY <1>2 DEF OH1Event
<1>3. /\ e.type \in Kinds /\ e.handle \in Phys /\ (e.type = "event" => e.ok)
      /\ e.ok \in BOOLEAN
  BY <1>2 DEF Events
<1>4. hci.last \in VirtHandles /\ e.handle \in Nat
  BY <1>1, <1>3, HandlesAssumption DEF HciRec
<1>5. \A h : [e EXCEPT !.handle = h] = Event(e.type, e.ok, h, e.con)
  BY <1>1, <1>2, EventExcept
<1>6. CASE Maps(e) /\ Free(hci) = {}
  BY <1>6 DEF OH1Event, Stops
<1>7. CASE Maps(e) /\ Free(hci) # {}
  <2> DEFINE h == VirtAlloc(hci)
  <2>1. h \in HciRec /\ h.table = hci.table
    BY <1>1, AllocCounts
  <2>2. Free(h) # {}
    BY <1>7, <2>1 DEF Free
  <2>3. /\ hci' = MapHandle(h, e.handle, hci.last) /\ Take(e.con) /\ hung' = hung
        /\ evtQ' = Append(evtQ, [e EXCEPT !.handle = hci.last])
    BY <1>7 DEF OH1Event
  <2> HIDE DEF h, e
  <2>4. /\ hci' \in HciRec /\ hci'.last = h.last
        /\ \E i \in Entries : /\ ~h.table[i].valid
                              /\ Rewrites(h, hci', i, Mapped(e.handle, hci.last))
    BY <1>3, <1>4, <2>1, <2>2, <2>3, MapType
  <2>5. MapsTo(e)
    BY <1>5, <1>7, <2>1, <2>3, <2>4 DEF MapsTo, Rewrites, h
  <2>. QED BY <2>5 DEF e
<1>8. CASE ~Maps(e) /\ Translated(e) /\ WithPhys(hci, e.handle) = {}
  BY <1>8 DEF OH1Event, Stops
<1>9. CASE ~Maps(e) /\ Unmaps(e) /\ WithPhys(hci, e.handle) # {}
  <2> DEFINE v == GetVirt(hci, e.handle)
  <2>1. Translated(e)
    BY <1>9 DEF Translated
  <2>2. /\ hci' = UnmapVirt(hci, v) /\ evtQ' = Append(evtQ, [e EXCEPT !.handle = v])
        /\ UNCHANGED <<taken, crowded, hung>>
    BY <1>9, <2>1 DEF OH1Event
  <2> HIDE DEF e
  <2>3. PICK j \in WithPhys(hci, e.handle) :
           v = hci.table[j].virt /\ v \in VirtHandles /\ j \in WithVirt(hci, v)
    BY <1>1, <1>9, VirtOf
  <2> HIDE DEF v
  <2>4. /\ hci' \in HciRec /\ hci'.last = hci.last
        /\ \E i \in WithVirt(hci, v) : Rewrites(hci, hci', i, Unmapped)
    BY <1>1, <2>2, <2>3, UnmapType
  <2>5. evtQ' = Append(evtQ, Event(e.type, e.ok, v, e.con))
    BY <1>5, <2>2
  <2>6. UnmapsTo(e)
    BY <1>9, <2>2, <2>3, <2>4, <2>5 DEF UnmapsTo
  <2>. QED BY <2>6 DEF e
<1>10. CASE ~Maps(e) /\ ~Unmaps(e) /\ (Translated(e) => WithPhys(hci, e.handle) # {})
  <2> DEFINE v == IF Translated(e) THEN GetVirt(hci, e.handle) ELSE e.handle
  <2>1. /\ hci' = hci /\ evtQ' = Append(evtQ, [e EXCEPT !.handle = v])
        /\ UNCHANGED <<taken, crowded, hung>>
    BY <1>10 DEF OH1Event
  <2> HIDE DEF e
  <2>2. e.ok => e.type = "event"
    BY <1>3, <1>10 DEF Maps, Unmaps, Kinds
  <2>3. v \in Nat
    BY <1>1, <1>4, <1>10, VirtOf, VirtNat
  <2>4. e.type = "event" => \E j \in WithPhys(hci, e.handle) : v = hci.table[j].virt
    BY <1>1, <1>10, VirtOf DEF Translated
  <2> HIDE DEF v
  <2>5. evtQ' = Append(evtQ, Event(e.type, e.ok, v, e.con))
    BY <1>5, <2>1
  <2>6. Passes(e)
    BY <2>1, <2>2, <2>3, <2>4, <2>5 DEF Passes
  <2>. QED BY <2>6 DEF e
<1>. QED BY <1>6, <1>7, <1>8, <1>9, <1>10 DEF Translated

LEMMA OH1EventType ==
    ASSUME HandlesType, OH1Event
    PROVE  HandlesType'
<1> DEFINE e == Head(usb)
           S == Events(Nat, made)
           T == [con : 1..made, handle : VirtHandles]
<1>1. /\ usb # <<>> /\ usb' = Tail(usb) /\ UNCHANGED <<link, fakes, host, made>>
      /\ e \in Events(Phys, made) /\ made \in Nat /\ hci \in HciRec
      /\ Stops(e) \/ MapsTo(e) \/ UnmapsTo(e) \/ Passes(e)
  BY OH1EventEffect DEF HandlesType
<1>2. /\ e.type \in Kinds /\ e.ok \in BOOLEAN /\ e.con \in 0..made /\ e.handle \in Phys
      /\ (e.type = "event" => e.ok) /\ (e.ok => e.con # None)
  BY <1>1 DEF Events
<1>3. usb' \in Seq(Events(Phys, made)) /\ evtQ \in Seq(S) /\ taken \in Seq(T)
  BY <1>1, HeadIn DEF HandlesType, Numbered
<1>4. \A v \in Nat : Event(e.type, e.ok, v, e.con) \in S
  BY <1>1, <1>2, EventIn
<1> HIDE DEF e, S
<1>5. \A v \in Nat : Append(evtQ, Event(e.type, e.ok, v, e.con)) \in Seq(S)
  BY <1>3, <1>4, AppendProperties
<1>6. hci.last \in Nat
  BY <1>1, AllocCounts
<1>7. hci' \in HciRec /\ evtQ' \in Seq(S) /\ taken' \in Seq(T)
  <2>1. CASE Stops(e)
    BY <1>1, <1>3, <2>1 DEF Stops
  <2>2. CASE MapsTo(e)
    <3>1. e.con \in 1..made
      BY <1>1, <1>2, <2>2 DEF MapsTo, Maps, None
    <3>2. taken' \in Seq(T)
      BY <1>1, <2>2, <3>1, TakeType DEF MapsTo, HandlesType
    <3>. QED BY <1>5, <1>6, <2>2, <3>2 DEF MapsTo
  <2>3. CASE UnmapsTo(e)
    BY <1>3, <1>5, <2>3, VirtNat DEF UnmapsTo
  <2>4. CASE Passes(e)
    BY <1>1, <1>3, <1>5, <2>4 DEF Passes
  <2>. QED BY <1>1, <2>1, <2>2, <2>3, <2>4
<1>8. Numbered(made)'
  BY <1>1, <1>3, <1>7 DEF HandlesType, Numbered, S, T
<1>. QED BY <1>1, <1>7, <1>8 DEF HandlesType

\* What the host learns from event e.
Learns(e) ==
    /\ UNCHANGED <<hci, link, fakes, usb, taken, crowded, made, hung>>
    /\ \E c, a : /\ host' = [con |-> c, answer |-> a]
                 /\ \/ c = host.con /\ a = <<>>
                    \/ /\ e.ok /\ e.type = "connected" /\ a = <<>>
                       /\ c = [host.con EXCEPT ![e.handle] = e.con]
                    \/ c = [host.con EXCEPT ![e.handle] = None] /\ a = <<>>
                    \/ e.ok /\ e.type = "event" /\ c = host.con /\ a = <<e>>

LEMMA HostReadEffect ==
    ASSUME HandlesType, HostRead
    PROVE  /\ evtQ # <<>> /\ evtQ' = Tail(evtQ) /\ Head(evtQ) \in Events(Nat, made)
           /\ Learns(Head(evtQ))
<1> DEFINE e == Head(evtQ)
           x == host.con
           y == host.answer
<1>1. e \in Events(Nat, made) /\ e.type \in Kinds
  BY HeadIn DEF HandlesType, Numbered, HostRead, Events
<1>2. host = [con |-> x, answer |-> y]
  BY DEF HandlesType, Numbered
<1>3. host' = Reads(host, e)
  BY DEF HostRead
<1> HIDE DEF e, x, y
<1>4. \A a : [host EXCEPT !.answer = a] = [con |-> x, answer |-> a]
  BY <1>2
<1>5. CASE ~e.ok
  <2>1. host' = [con |-> x, answer |-> <<>>]
    BY <1>3, <1>4, <1>5, Zenon DEF Reads
  <2>. QED BY <1>1, <2>1 DEF HostRead, Learns, e, x
<1>6. CASE e.ok /\ e.type = "connected"
  <2>1. host' = [host EXCEPT !.con[e.handle] = e.con, !.answer = <<>>]
    BY <1>3, <1>6 DEF Reads
  <2>2. host' = [con |-> [host.con EXCEPT ![e.handle] = e.con], answer |-> <<>>]
    BY <1>2, <2>1, HostExcept DEF x, y
  <2>. QED BY <1>1, <1>6, <2>2 DEF HostRead, Learns, e
<1>7. CASE e.ok /\ e.type = "disconnected"
  <2>1. host' = [host EXCEPT !.con[e.handle] = None, !.answer = <<>>]
    BY <1>3, <1>7 DEF Reads
  <2>2. host' = [con |-> [host.con EXCEPT ![e.handle] = None], answer |-> <<>>]
    BY <1>2, <2>1, HostExcept DEF x, y
  <2>. QED BY <1>1, <2>2 DEF HostRead, Learns, e
<1>8. CASE e.ok /\ e.type = "event"
  <2>1. host' = [con |-> x, answer |-> <<e>>]
    BY <1>3, <1>4, <1>8 DEF Reads
  <2>. QED BY <1>1, <1>8, <2>1 DEF HostRead, Learns, e, x
<1>. QED BY <1>1, <1>5, <1>6, <1>7, <1>8 DEF Kinds

LEMMA HostReadType ==
    ASSUME HandlesType, HostRead
    PROVE  HandlesType'
<1> DEFINE e == Head(evtQ)
           S == Events(Nat, made)
<1>1. /\ evtQ # <<>> /\ evtQ' = Tail(evtQ) /\ e \in S /\ Learns(e)
  BY HostReadEffect
<1>2. e.con \in 0..made /\ None \in 0..made /\ made \in Nat
  BY <1>1 DEF Events, HandlesType, None
<1>3. evtQ' \in Seq(S)
  BY <1>1, HeadIn DEF HandlesType, Numbered
<1> HIDE DEF e, S
<1>4. PICK c, a : /\ host' = [con |-> c, answer |-> a]
                  /\ \/ c = host.con
                     \/ c = [host.con EXCEPT ![e.handle] = e.con]
                     \/ c = [host.con EXCEPT ![e.handle] = None]
                  /\ a = <<>> \/ a = <<e>>
  BY <1>1 DEF Learns
<1>5. c \in [VirtHandles -> 0..made]
  BY <1>2, <1>4 DEF HandlesType, Numbered
<1>6. a \in Seq(S)
  <2>1. <<>> \in Seq(S) /\ <<e>> \in Seq(S)
    BY <1>1
  <2>. QED BY <1>4, <2>1
<1>7. host' = [con |-> host'.con, answer |-> host'.answer] /\ host'.con = c /\ host'.answer = a
  BY <1>4
<1>8. Numbered(made)'
  BY <1>1, <1>3, <1>5, <1>6, <1>7 DEF HandlesType, Numbered, Learns, S
<1>. QED BY <1>1, <1>8 DEF HandlesType, Learns

LEMMA TypeInit == Init => HandlesType
<1> SUFFICES ASSUME Init PROVE HandlesType
  OBVIOUS
<1>1. hci \in HciRec
  <2>1. 0 \in VirtHandles
    BY HciAssumption DEF VirtHandles
  <2>2. Unmapped \in EntryRec
    BY DEF Unmapped, EntryRec
  <2>. QED BY <2>1, <2>2 DEF Init, HciReset, HciRec
<1>2. made = 0 /\ made \in 0..MaxCons /\ None \in 0..made
  BY HandlesAssumption DEF Init, None
<1>3. link \in [Phys -> 0..made] /\ fakes \in SUBSET [con : 1..made, handle : VirtHandles]
  BY <1>2 DEF Init
<1>4. \A S : <<>> \in Seq(S)
  BY EmptySeq
<1>5. /\ host = [con |-> host.con, answer |-> host.answer]
      /\ host.con = [v \in VirtHandles |-> None] /\ host.answer = <<>>
  BY DEF Init
<1>6. host.con \in [VirtHandles -> 0..made]
  BY <1>2, <1>5
<1>7. Numbered(made)
  BY <1>3, <1>4, <1>5, <1>6 DEF Numbered, Init
<1>. QED BY <1>1, <1>2, <1>7 DEF HandlesType

LEMMA TypeNext == HandlesType /\ [Next]_vars => HandlesType'
<1> SUFFICES ASSUME HandlesType, [Next]_vars PROVE HandlesType'
  OBVIOUS
<1>1. CASE UNCHANGED vars
  BY <1>1 DEF HandlesType, Numbered, vars
<1>2. ASSUME NEW p \in Phys, RealConnects(p) PROVE HandlesType'
  BY <1>2, RealConnectsType
<1>3. ASSUME NEW p \in Phys, RealFails(p) PROVE HandlesType'
  BY <1>3, RealFailsType
<1>4. ASSUME NEW p \in Phys, RealLeaves(p) PROVE HandlesType'
  BY <1>4, RealLeavesType
<1>5. CASE FakeConnects
  BY <1>5, FakeConnectsType
<1>6. ASSUME NEW f \in fakes, FakeLeaves(f) PROVE HandlesType'
  BY <1>6, FakeLeavesType
<1>7. ASSUME NEW v \in VirtHandles, NEW what \in {"event", "disconnected"},
             NEW ok \in BOOLEAN, HostCommands(v, what, ok)
      PROVE  HandlesType'
  BY <1>7, HostCommandsType
<1>8. CASE OH1Event
  BY <1>8, OH1EventType
<1>9. CASE HostRead
  BY <1>9, HostReadType
<1>. QED BY <1>1, <1>2, <1>3, <1>4, <1>5, <1>6, <1>7, <1>8, <1>9 DEF Next

LEMMA TypeCorrect == Spec => []HandlesType
BY TypeInit, TypeNext, PTL DEF Spec

-----------------------------------------------------------------------------
(* A connection that nobody knows any more                                  *)

LinkHas(c) == \E p \in Phys : link[p] = c
FakeHas(c) == \E f \in fakes : f.con = c
HostHas(c) == \E v \in VirtHandles : host.con[v] = c
QueueHas(q, c) == \E i \in DOMAIN q : q[i].con = c

LEMMA OpenIs ==
    \A c \in Cons : c \in Open <=> \/ LinkHas(c) \/ FakeHas(c) \/ HostHas(c)
                                   \/ QueueHas(usb, c) \/ QueueHas(evtQ, c)
BY DEF Open, LinkHas, FakeHas, HostHas, QueueHas

LEMMA OpenIsNext ==
    \A c \in Cons : c \in Open' => \/ LinkHas(c)' \/ FakeHas(c)' \/ HostHas(c)'
                                   \/ QueueHas(usb', c) \/ QueueHas(evtQ', c)
BY DEF Open, LinkHas, FakeHas, HostHas, QueueHas

LEMMA QueueHasAppend ==
    ASSUME NEW S, NEW q \in Seq(S), NEW e \in S, NEW c, QueueHas(Append(q, e), c)
    PROVE  QueueHas(q, c) \/ e.con = c
<1> DEFINE r == Append(q, e)
<1>1. /\ \A i \in DOMAIN r : i \in DOMAIN q \/ r[i] = e
      /\ \A i \in DOMAIN q : r[i] = q[i]
  <2>1. /\ Len(r) = Len(q) + 1 /\ r[Len(q) + 1] = e /\ r \in Seq(S)
        /\ \A i \in 1..Len(q) : r[i] = q[i]
    BY AppendProperties
  <2>2. Len(q) \in Nat /\ DOMAIN q = 1..Len(q)
    BY LenProperties
  <2> HIDE DEF r
  <2>3. DOMAIN r = 1..Len(q) + 1
    BY <2>1, LenProperties
  <2>4. \A i \in 1..Len(q) + 1 : i \in 1..Len(q) \/ i = Len(q) + 1
    BY <2>2
  <2>. QED BY <2>1, <2>2, <2>3, <2>4
<1> HIDE DEF r
<1>2. QueueHas(r, c)
  BY DEF r
<1>. QED BY <1>1, <1>2 DEF QueueHas

LEMMA QueueHasTail ==
    ASSUME NEW S, NEW q \in Seq(S), q # <<>>, NEW c
    PROVE  /\ QueueHas(Tail(q), c) => QueueHas(q, c)
           /\ QueueHas(q, Head(q).con)
<1> DEFINE r == Tail(q)
<1>1. /\ Len(q) \in Nat \ {0} /\ Head(q) = q[1] /\ DOMAIN q = 1..Len(q)
      /\ r \in Seq(S) /\ Len(r) = Len(q) - 1
      /\ \A i \in 1..Len(q) - 1 : r[i] = q[i + 1]
  BY HeadTailProperties, LenProperties, EmptySeq
<1> HIDE DEF r
<1>2. \A i \in DOMAIN r : i + 1 \in DOMAIN q /\ r[i] = q[i + 1]
  BY <1>1, LenProperties
<1>3. 1 \in DOMAIN q
  BY <1>1
<1>4. QueueHas(r, c) => QueueHas(q, c)
  BY <1>2 DEF QueueHas
<1>. QED BY <1>1, <1>3, <1>4 DEF QueueHas, r

\* A connection that was made and is not open never is again: each of those who
\* know it learned of it from another one.
LEMMA OpenShrinks ==
    ASSUME HandlesType, Next, NEW c \in 1..made, c \in Open'
    PROVE  c \in Open
<1>1. /\ made \in Nat /\ made \in 0..MaxCons /\ c # None /\ c # made + 1
      /\ usb \in Seq(Events(Phys, made)) /\ evtQ \in Seq(Events(Nat, made))
  BY DEF HandlesType, Numbered, None
<1>2. c \in Cons
  BY <1>1, HandlesAssumption DEF Cons
<1> DEFINE Known == \/ LinkHas(c) \/ FakeHas(c) \/ HostHas(c)
                    \/ QueueHas(usb, c) \/ QueueHas(evtQ, c)
<1>. SUFFICES Known
  BY <1>2, OpenIs
<1>3. \/ LinkHas(c)' \/ FakeHas(c)' \/ HostHas(c)'
      \/ QueueHas(usb', c) \/ QueueHas(evtQ', c)
  BY <1>2, OpenIsNext
<1>4. \A q, e : (\E S : q \in Seq(S) /\ e \in S) /\ QueueHas(Append(q, e), c)
                   => QueueHas(q, c) \/ e.con = c
  BY QueueHasAppend
<1>5. ASSUME NEW t, NEW o, NEW h, NEW d,
             usb' = Append(usb, Event(t, o, h, d)), QueueHas(usb', c)
      PROVE  QueueHas(usb, c) \/ d = c
  <2>1. PICK e : e = Event(t, o, h, d)
    OBVIOUS
  <2> DEFINE S == Events(Phys, made) \cup {e}
  <2>2. usb \in Seq(S) /\ e \in S
    BY <1>1, SeqMonotonic
  <2>3. QueueHas(Append(usb, e), c) /\ e.con = d
    BY <1>5, <2>1, Fields
  <2> HIDE DEF S
  <2>. QED BY <1>4, <2>2, <2>3
<1>6. ASSUME NEW t, NEW o, NEW h, NEW d,
             evtQ' = Append(evtQ, Event(t, o, h, d)), QueueHas(evtQ', c)
      PROVE  QueueHas(evtQ, c) \/ d = c
  <2>1. PICK e : e = Event(t, o, h, d)
    OBVIOUS
  <2> DEFINE S == Events(Nat, made) \cup {e}
  <2>2. evtQ \in Seq(S) /\ e \in S
    BY <1>1, SeqMonotonic
  <2>3. QueueHas(Append(evtQ, e), c) /\ e.con = d
    BY <1>6, <2>1, Fields
  <2> HIDE DEF S
  <2>. QED BY <1>4, <2>2, <2>3
<1>7. ASSUME NEW p \in Phys, RealConnects(p) PROVE Known
  <2>1. usb' = Append(usb, Event("connected", TRUE, p, made + 1))
    BY <1>7 DEF RealConnects, Sends
  <2>2. QueueHas(usb', c) => QueueHas(usb, c)
    BY <1>1, <1>5, <2>1
  <2>3. LinkHas(c)' => LinkHas(c)
    BY <1>1, <1>7 DEF RealConnects, LinkHas, HandlesType, Numbered
  <2>. QED BY <1>3, <1>7, <2>2, <2>3 DEF RealConnects, FakeHas, HostHas
<1>8. ASSUME NEW p \in Phys, RealFails(p) PROVE Known
  <2>1. usb' = Append(usb, Event("connected", FALSE, p, None))
    BY <1>8 DEF RealFails, Sends
  <2>2. QueueHas(usb', c) => QueueHas(usb, c)
    BY <1>1, <1>5, <2>1
  <2>. QED BY <1>3, <1>8, <2>2 DEF RealFails, LinkHas, FakeHas, HostHas
<1>9. ASSUME NEW p \in Phys, RealLeaves(p) PROVE Known
  <2>1. usb' = Append(usb, Event("disconnected", TRUE, p, link[p]))
    BY <1>9 DEF RealLeaves, Sends
  <2>2. QueueHas(usb', c) => QueueHas(usb, c) \/ LinkHas(c)
    BY <1>5, <2>1 DEF LinkHas
  <2>3. LinkHas(c)' => LinkHas(c)
    BY <1>1, <1>9 DEF RealLeaves, LinkHas, HandlesType, Numbered
  <2>. QED BY <1>3, <1>9, <2>2, <2>3 DEF RealLeaves, FakeHas, HostHas
<1>10. CASE FakeConnects
  <2>1. evtQ' = Append(evtQ, Event("connected", TRUE, hci.last, made + 1))
    BY <1>10 DEF FakeConnects
  <2>2. QueueHas(evtQ', c) => QueueHas(evtQ, c)
    BY <1>1, <1>6, <2>1
  <2>3. FakeHas(c)' => FakeHas(c)
    BY <1>1, <1>10 DEF FakeConnects, FakeHas
  <2>. QED BY <1>3, <1>10, <2>2, <2>3 DEF FakeConnects, LinkHas, HostHas
<1>11. ASSUME NEW f \in fakes, FakeLeaves(f) PROVE Known
  <2>1. evtQ' = Append(evtQ, Event("disconnected", TRUE, f.handle, f.con))
    BY <1>11 DEF FakeLeaves
  <2>2. QueueHas(evtQ', c) => QueueHas(evtQ, c) \/ FakeHas(c)
    BY <1>6, <2>1 DEF FakeHas
  <2>3. FakeHas(c)' => FakeHas(c)
    BY <1>11 DEF FakeLeaves, FakeHas
  <2>. QED BY <1>3, <1>11, <2>2, <2>3 DEF FakeLeaves, LinkHas, HostHas
<1>12. ASSUME NEW v \in VirtHandles, NEW what \in {"event", "disconnected"},
              NEW ok \in BOOLEAN, HostCommands(v, what, ok)
       PROVE  Known
  <2>1. /\ UNCHANGED <<fakes, evtQ>>
        /\ host' = [con |-> [host.con EXCEPT ![v] = IF Closes(what, ok) THEN None
                                                    ELSE host.con[v]],
                    answer |-> <<>>]
        /\ UNCHANGED <<usb, link>> \/ \E p \in Phys : Performs(v, what, ok, p)
    BY <1>12, CommandEffect
  <2>2. HostHas(c)' => HostHas(c)
    BY <1>1, <2>1 DEF HostHas, HandlesType, Numbered
  <2>3. QueueHas(usb', c) => QueueHas(usb, c) \/ HostHas(c)
    <3>1. CASE usb' = usb
      BY <3>1
    <3>2. ASSUME NEW p \in Phys, Performs(v, what, ok, p)
          PROVE  QueueHas(usb', c) => QueueHas(usb, c) \/ HostHas(c)
      BY <1>5, <3>2, Fields DEF Performs, HostHas
    <3>. QED BY <2>1, <3>1, <3>2
  <2>4. LinkHas(c)' => LinkHas(c)
    BY <1>1, <2>1 DEF Performs, LinkHas, HandlesType, Numbered
  <2>. QED BY <1>3, <2>1, <2>2, <2>3, <2>4 DEF FakeHas
<1>13. CASE OH1Event
  <2> DEFINE e == Head(usb)
  <2>1. /\ usb # <<>> /\ usb' = Tail(usb) /\ UNCHANGED <<link, fakes, host>>
        /\ Stops(e) \/ MapsTo(e) \/ UnmapsTo(e) \/ Passes(e)
    BY <1>13, OH1EventEffect
  <2>2. QueueHas(usb', c) => QueueHas(usb, c)
    BY <1>1, <2>1, QueueHasTail
  <2>3. QueueHas(usb, e.con)
    BY <1>1, <2>1, QueueHasTail
  <2> HIDE DEF e
  <2>4. evtQ' = evtQ \/ \E v : evtQ' = Append(evtQ, Event(e.type, e.ok, v, e.con))
    BY <2>1 DEF Stops, MapsTo, UnmapsTo, Passes
  <2>5. QueueHas(evtQ', c) => QueueHas(evtQ, c) \/ c = e.con
    BY <1>6, <2>4
  <2>. QED BY <1>3, <2>1, <2>2, <2>3, <2>5 DEF LinkHas, FakeHas, HostHas
<1>14. CASE HostRead
  <2> DEFINE e == Head(evtQ)
  <2>1. evtQ # <<>> /\ evtQ' = Tail(evtQ) /\ Learns(e)
    BY <1>14, HostReadEffect
  <2>2. QueueHas(evtQ', c) => QueueHas(evtQ, c)
    BY <1>1, <2>1, QueueHasTail
  <2>3. QueueHas(evtQ, e.con)
    BY <1>1, <2>1, QueueHasTail
  <2> HIDE DEF e
  <2>4. \/ host'.con = host.con
        \/ host'.con = [host.con EXCEPT ![e.handle] = e.con]
        \/ host'.con = [host.con EXCEPT ![e.handle] = None]
    BY <2>1 DEF Learns
  <2>5. HostHas(c)' => HostHas(c) \/ c = e.con
    BY <1>1, <2>4 DEF HostHas, HandlesType, Numbered
  <2>. QED BY <1>3, <2>1, <2>2, <2>3, <2>5 DEF Learns, LinkHas, FakeHas
<1>. QED BY <1>7, <1>8, <1>9, <1>10, <1>11, <1>12, <1>13, <1>14 DEF Next

-----------------------------------------------------------------------------
(* Handles of open connections                                              *)

\* The counter tells how long ago each of the last handles was taken.
Clock ==
    \A k \in DOMAIN taken :
        LET d == Len(taken) + 1 - k
        IN  d <= NumHandles => hci.last \in {taken[k].handle + d,
                                             taken[k].handle + d - NumHandles}

\* Handles are different if they were taken in one round of the counter,
Near ==
    \A i, j \in DOMAIN taken :
        i < j /\ j - i < NumHandles => taken[i].handle # taken[j].handle

\* and if they were not, the older one is not in use any more.
Apart ==
    ~crowded => \A i, j \in DOMAIN taken : i + NumHandles <= j => taken[i].con \notin Open

Rounds == Clock /\ Near /\ Apart

\* A step takes no handle, or the next one.
LEMMA TakeKinds ==
    ASSUME HandlesType, [Next]_vars
    PROVE  \/ UNCHANGED <<taken, crowded>> /\ hci'.last = hci.last
           \/ \E c : Take(c) /\ hci'.last = VirtAlloc(hci).last
<1>1. CASE UNCHANGED vars
  BY <1>1 DEF vars
<1>2. CASE \E p \in Phys : RealConnects(p) \/ RealFails(p) \/ RealLeaves(p)
  BY <1>2 DEF RealConnects, RealFails, RealLeaves
<1>3. CASE FakeConnects
  <2>1. Take(made + 1) /\ hci'.last = VirtAlloc(hci).last
    BY <1>3 DEF FakeConnects
  <2>. QED BY <2>1
<1>4. CASE \E f \in fakes : FakeLeaves(f)
  BY <1>4 DEF FakeLeaves
<1>5. CASE \E v \in VirtHandles, what \in {"event", "disconnected"}, ok \in BOOLEAN :
              HostCommands(v, what, ok)
  BY <1>5 DEF HostCommands
<1>6. CASE OH1Event
  <2> DEFINE e == Head(usb)
  <2>1. Stops(e) \/ MapsTo(e) \/ UnmapsTo(e) \/ Passes(e)
    BY <1>6, OH1EventEffect
  <2> HIDE DEF e
  <2>. QED BY <2>1 DEF Stops, MapsTo, UnmapsTo, Passes
<1>7. CASE HostRead
  BY <1>7 DEF HostRead
<1>. QED BY <1>1, <1>2, <1>3, <1>4, <1>5, <1>6, <1>7 DEF Next

\* A sequence with one element more.
LEMMA Longer ==
    ASSUME NEW S, NEW q \in Seq(S), NEW e
    PROVE  LET r == Append(q, e)
           IN  /\ Len(q) \in Nat /\ DOMAIN q = 1..Len(q)
               /\ Len(r) = Len(q) + 1 /\ DOMAIN r = 1..Len(q) + 1
               /\ \A i \in 1..Len(q) : r[i] = q[i]
               /\ r[Len(q) + 1] = e
<1> DEFINE T == S \cup {e}
           r == Append(q, e)
<1>1. q \in Seq(T) /\ e \in T
  BY SeqMonotonic
<1> HIDE DEF T
<1>2. /\ r \in Seq(T) /\ Len(r) = Len(q) + 1 /\ r[Len(q) + 1] = e
      /\ \A i \in 1..Len(q) : r[i] = q[i]
  BY <1>1, AppendProperties
<1>3. Len(q) \in Nat /\ DOMAIN q = 1..Len(q)
  BY LenProperties
<1> HIDE DEF r
<1>4. DOMAIN r = 1..Len(q) + 1
  BY <1>2, LenProperties
<1>. QED BY <1>2, <1>3, <1>4 DEF r

LEMMA TakenTypes ==
    ASSUME HandlesType
    PROVE  /\ Len(taken) \in Nat /\ DOMAIN taken = 1..Len(taken)
           /\ \A k \in 1..Len(taken) :
                 /\ taken[k].con \in 1..made
                 /\ taken[k].handle \in Nat /\ taken[k].handle < NumHandles
<1> DEFINE S == [con : 1..made, handle : VirtHandles]
<1>1. taken \in Seq(S)
  BY DEF HandlesType, Numbered
<1>2. \A t \in S : t.con \in 1..made /\ t.handle \in Nat /\ t.handle < NumHandles
  BY HciAssumption DEF VirtHandles
<1> HIDE DEF S
<1>3. \A k \in 1..Len(taken) : taken[k] \in S
  BY <1>1
<1>4. Len(taken) \in Nat /\ DOMAIN taken = 1..Len(taken)
  BY <1>1, LenProperties
<1>. QED BY <1>2, <1>3, <1>4

\* The counter moves on from a handle h that was taken d handles ago.
LEMMA ClockTicks ==
    ASSUME NEW N \in Nat, NEW h \in Nat, NEW d \in Nat, NEW a \in Nat,
           h < N, a < N, d + 1 <= N, a \in {h + d, h + d - N}
    PROVE  (IF a + 1 < N THEN a + 1 ELSE 0) \in {h + (d + 1), h + (d + 1) - N}
OBVIOUS

LEMMA RoundsStep ==
    ASSUME HandlesType, Rounds, [Next]_vars
    PROVE  Rounds'
<1> DEFINE n == Len(taken)
           N == NumHandles
<1>1. /\ n \in Nat /\ DOMAIN taken = 1..n /\ N \in Nat \ {0}
      /\ \A k \in 1..n : /\ taken[k].con \in 1..made
                         /\ taken[k].handle \in Nat /\ taken[k].handle < N
  BY TakenTypes, HciAssumption
<1>2. \A c \in 1..made : c \in Open' => c \in Open
  <2>1. CASE UNCHANGED vars
    BY <2>1 DEF vars, Open
  <2>. QED BY <2>1, OpenShrinks
<1>3. CASE UNCHANGED <<taken, crowded>> /\ hci'.last = hci.last
  <2>1. Clock' /\ Near'
    BY <1>3 DEF Rounds, Clock, Near
  <2>2. Apart'
    BY <1>1, <1>2, <1>3 DEF Rounds, Apart
  <2>. QED BY <2>1, <2>2 DEF Rounds
<1>4. ASSUME NEW c, Take(c), hci'.last = VirtAlloc(hci).last
      PROVE  Rounds'
  <2> DEFINE t == [con |-> c, handle |-> hci.last]
  <2>1. /\ hci.last \in Nat /\ hci.last < N
        /\ hci'.last = IF hci.last + 1 < N THEN hci.last + 1 ELSE 0
    BY <1>4, AllocCounts DEF HandlesType
  <2>2. taken' = Append(taken, t) /\ \E S : taken \in Seq(S)
    BY <1>4 DEF Take, HandlesType, Numbered
  <2>3. t.handle = hci.last
    OBVIOUS
  <2> HIDE DEF t
  <2>4. /\ Len(taken') = n + 1 /\ DOMAIN taken' = 1..n + 1
        /\ \A i \in 1..n : taken'[i] = taken[i]
        /\ taken'[n + 1] = t
    BY <2>2, Longer
  <2>5. ASSUME NEW k \in 1..n, n + 1 - k <= N
        PROVE  hci.last \in {taken[k].handle + (n + 1 - k), taken[k].handle + (n + 1 - k) - N}
    BY <1>1, <2>5 DEF Rounds, Clock
  <2>6. ASSUME NEW k \in 1..n + 1, n + 2 - k <= N
        PROVE  hci'.last \in {taken'[k].handle + (n + 2 - k), taken'[k].handle + (n + 2 - k) - N}
    <3>1. CASE k = n + 1
      BY <1>1, <2>1, <2>3, <2>4, <3>1
    <3>2. CASE k \in 1..n
      <4>1. n + 1 - k <= N /\ taken[k].handle \in Nat /\ taken[k].handle < N
        BY <1>1, <2>6, <3>2
      <4>2. hci.last \in {taken[k].handle + (n + 1 - k), taken[k].handle + (n + 1 - k) - N}
        BY <2>5, <3>2, <4>1
      <4>3. taken'[k] = taken[k]
        BY <2>4, <3>2
      <4>4. n + 1 - k \in Nat /\ (n + 1 - k) + 1 <= N /\ (n + 1 - k) + 1 = n + 2 - k
        BY <1>1, <2>6, <3>2
      <4>5. PICK h, d, a : h = taken[k].handle /\ d = n + 1 - k /\ a = hci.last
        OBVIOUS
      <4>6. /\ h \in Nat /\ d \in Nat /\ a \in Nat /\ h < N /\ a < N /\ d + 1 <= N
            /\ a \in {h + d, h + d - N}
        BY <2>1, <4>1, <4>2, <4>4, <4>5
      <4>7. N \in Nat
        BY <1>1
      <4>8. (IF a + 1 < N THEN a + 1 ELSE 0) \in {h + (d + 1), h + (d + 1) - N}
        BY <4>6, <4>7, ClockTicks
      <4>9. hci'.last = IF a + 1 < N THEN a + 1 ELSE 0
        BY <2>1, <4>5
      <4>. QED BY <4>3, <4>4, <4>5, <4>8, <4>9
    <3>. QED BY <1>1, <3>1, <3>2
  <2>7. Clock'
    <3>1. \A k \in 1..n + 1 : Len(taken') + 1 - k = n + 2 - k
      BY <1>1, <2>4
    <3>. QED BY <2>4, <2>6, <3>1 DEF Clock
  <2>8. ASSUME NEW i \in 1..n + 1, NEW j \in 1..n + 1, i < j, j - i < N
        PROVE  taken'[i].handle # taken'[j].handle
    <3>1. i \in 1..n /\ taken'[i] = taken[i]
      BY <1>1, <2>4, <2>8
    <3>2. CASE j \in 1..n
      BY <1>1, <2>4, <2>8, <3>1, <3>2 DEF Rounds, Near
    <3>3. CASE j = n + 1
      <4>1. hci.last \in {taken[i].handle + (n + 1 - i), taken[i].handle + (n + 1 - i) - N}
        BY <1>1, <2>5, <2>8, <3>1, <3>3
      <4>2. taken'[j].handle = hci.last
        BY <2>3, <2>4, <3>3
      <4>3. taken[i].handle \in Nat
        BY <1>1, <3>1
      <4>. QED BY <1>1, <2>8, <3>1, <3>3, <4>1, <4>2, <4>3
    <3>. QED BY <1>1, <3>2, <3>3
  <2>9. Near'
    BY <2>4, <2>8 DEF Near
  <2>10. ASSUME ~crowded', NEW i \in 1..n + 1, NEW j \in 1..n + 1, i + N <= j
         PROVE  taken'[i].con \notin Open'
    <3>1. i \in 1..n /\ taken'[i] = taken[i] /\ taken[i].con \in 1..made
      BY <1>1, <2>4, <2>10
    <3>2. ~crowded /\ ~\E k \in 1..(n + 1 - N) : taken[k].con \in Open
      BY <1>4, <2>10 DEF Take
    <3>3. CASE j \in 1..n
      <4>1. taken[i].con \notin Open
        BY <1>1, <2>10, <3>1, <3>2, <3>3 DEF Rounds, Apart
      <4>. QED BY <1>2, <3>1, <4>1
    <3>4. CASE j = n + 1
      <4>1. i \in 1..(n + 1 - N)
        BY <1>1, <2>10, <3>1, <3>4
      <4>. QED BY <1>2, <3>1, <3>2, <4>1
    <3>. QED BY <1>1, <3>3, <3>4
  <2>11. Apart'
    BY <2>4, <2>10 DEF Apart
  <2>. QED BY <2>7, <2>9, <2>11 DEF Rounds
<1>. QED BY <1>3, <1>4, TakeKinds

LEMMA RoundsInit == Init => Rounds
BY DEF Init, Rounds, Clock, Near, Apart

LEMMA RoundsCorrect == Spec => []Rounds
<1>1. HandlesType /\ Rounds /\ [Next]_vars => Rounds'
  BY RoundsStep
<1>. QED BY <1>1, RoundsInit, TypeCorrect, PTL DEF Spec

LEMMA RoundsDistinct == HandlesType /\ Rounds => HandlesDistinct
<1> SUFFICES ASSUME HandlesType, Rounds, ~crowded,
                    NEW i \in DOMAIN taken, NEW j \in DOMAIN taken, i # j,
                    {taken[i].con, taken[j].con} \subseteq Open
             PROVE  taken[i].handle # taken[j].handle
  BY DEF HandlesDistinct
<1>1. DOMAIN taken = 1..Len(taken) /\ Len(taken) \in Nat /\ NumHandles \in Nat
  BY TakenTypes, HciAssumption
<1>2. ~(i + NumHandles <= j) /\ ~(j + NumHandles <= i)
  BY DEF Rounds, Apart
<1>3. (i < j /\ j - i < NumHandles) \/ (j < i /\ i - j < NumHandles)
  BY <1>1, <1>2
<1>. QED BY <1>3 DEF Rounds, Near

\* Open connections, real or fake, have different handles, in whatever order
\* they come and go, and however often the counter wraps, unless it went around
\* once within the life of one of them (the counter and the comment of
\* hci_con_handle_virt_alloc).
THEOREM Distinct == Spec => []HandlesDistinct
BY RoundsCorrect, RoundsDistinct, TypeCorrect, PTL

-----------------------------------------------------------------------------
(* The table and the dongle                                                 *)

\* Connection c was made with handle v.
Given(c, v) == \E k \in DOMAIN taken : taken[k] = [con |-> c, handle |-> v]

Live == hung = "no" /\ ~crowded

\* Handle p of the dongle belongs to no two connections, nor they to two handles.
OneEach ==
    \A p, r \in Phys : \A c, d :
        Bears(usb, link[p], p, c) /\ Bears(usb, link[r], r, d) => (p = r <=> c = d)

\* The connections that answers on handle p of the dongle are about.
Asks(q, p, c) == \E k \in Mine(q, p) : q[k].type = "event" /\ c = q[k].con

\* They, and the one that is behind the handle, were made with the handle of the
\* host that it is mapped to.
GivenAt(p) ==
    \A i \in WithPhys(hci, p) : \A c :
        Bears(usb, link[p], p, c) \/ Asks(usb, p, c) => Given(c, hci.table[i].virt)

At(p) == Flows(usb, WithPhys(hci, p), link[p], p) /\ GivenAt(p)

Right == OneEach /\ \A p \in Phys : At(p)

Table == Live => Right

\* Event e names the handle that its connection was made with.
Truthful(e) == e.ok /\ e.type # "disconnected" => Given(e.con, e.handle)

\* What the host knows, and what it will read, is true.
HostTold ==
    /\ \A v \in VirtHandles : host.con[v] # None => Given(host.con[v], v)
    /\ \A k \in DOMAIN host.answer :
          Given(host.answer[k].con, host.answer[k].handle)

Told == ~crowded => HostTold /\ \A k \in DOMAIN evtQ : Truthful(evtQ[k])

LEMMA GivenStays ==
    ASSUME HandlesType, [Next]_vars
    PROVE  \A c, v : Given(c, v) => Given(c, v)'
<1>1. CASE UNCHANGED <<taken, crowded>>
  BY <1>1 DEF Given
<1>2. ASSUME NEW b, Take(b) PROVE \A c, v : Given(c, v) => Given(c, v)'
  <2>1. DOMAIN taken \subseteq DOMAIN taken' /\ \A k \in DOMAIN taken : taken'[k] = taken[k]
    <3>1. PICK t : taken' = Append(taken, t)
      BY <1>2 DEF Take
    <3>2. \E S : taken \in Seq(S)
      BY DEF HandlesType, Numbered
    <3>3. /\ Len(taken) \in Nat /\ DOMAIN taken = 1..Len(taken)
          /\ DOMAIN taken' = 1..Len(taken) + 1
          /\ \A i \in 1..Len(taken) : taken'[i] = taken[i]
      BY <3>1, <3>2, Longer
    <3>. QED BY <3>3
  <2>. QED BY <2>1 DEF Given
<1>. QED BY <1>1, <1>2, TakeKinds

LEMMA GivenNew ==
    ASSUME HandlesType, NEW c, Take(c)
    PROVE  \E v \in VirtHandles : v = hci.last /\ Given(c, v)'
<1>1. hci.last \in VirtHandles
  BY DEF HandlesType, HciRec
<1>2. PICK v : v = hci.last
  OBVIOUS
<1> DEFINE t == [con |-> c, handle |-> v]
<1>3. taken' = Append(taken, t) /\ \E S : taken \in Seq(S)
  BY <1>2 DEF Take, HandlesType, Numbered
<1> HIDE DEF t
<1>4. /\ Len(taken) \in Nat /\ DOMAIN taken' = 1..Len(taken) + 1
      /\ taken'[Len(taken) + 1] = t
  BY <1>3, Longer
<1>5. Len(taken) + 1 \in DOMAIN taken'
  BY <1>4
<1>6. Given(c, v)'
  BY <1>4, <1>5 DEF Given, t
<1>. QED BY <1>1, <1>2, <1>6

LEMMA Borne ==
    ASSUME NEW q, NEW T, NEW l, NEW p, Flows(q, T, l, p), T # {}
    PROVE  \E c : Bears(q, l, p, c)
<1>1. CASE l # None
  BY <1>1 DEF Bears
<1>2. CASE l = None
  <2>1. PICK i \in Mine(q, p) : q[i].type = "disconnected"
    BY <1>2 DEF Flows
  <2>2. Bears(q, l, p, q[i].con)
    BY <2>1 DEF Bears
  <2>. QED BY <2>2
<1>. QED BY <1>1, <1>2

\* Who is behind a handle of the dongle is open.
LEMMA BornOpen ==
    ASSUME HandlesType, NEW p \in Phys, NEW c, Bears(usb, link[p], p, c)
    PROVE  c \in 1..made /\ c \in Open
<1>1. made \in Nat /\ made <= MaxCons /\ MaxCons \in Nat /\ link[p] \in 0..made
  BY HandlesAssumption DEF HandlesType, Numbered
<1>2. c \in 1..made /\ (LinkHas(c) \/ QueueHas(usb, c))
  <2>1. CASE link[p] # None /\ c = link[p]
    BY <1>1, <2>1 DEF LinkHas, None
  <2>2. ASSUME NEW i \in Mine(usb, p), c = usb[i].con
        PROVE  c \in 1..made /\ QueueHas(usb, c)
    <3>1. i \in DOMAIN usb /\ usb[i].ok
      BY DEF Mine
    <3>2. usb \in Seq(Events(Phys, made))
      BY DEF HandlesType, Numbered
    <3>3. usb[i] \in Events(Phys, made)
      BY <3>1, <3>2
    <3>4. usb[i].con \in 0..made /\ usb[i].con # None
      BY <3>1, <3>3 DEF Events
    <3>. QED BY <1>1, <2>2, <3>1, <3>4 DEF QueueHas, None
  <2>. QED BY <2>1, <2>2 DEF Bears
<1>3. c \in Cons
  BY <1>1, <1>2 DEF Cons
<1>. QED BY <1>2, <1>3, OpenIs

LEMMA OneOfHandle ==
    ASSUME HandlesType, Rounds, ~crowded,
           NEW c \in Open, NEW d \in Open, NEW v, Given(c, v), Given(d, v)
    PROVE  c = d
<1>1. PICK k \in DOMAIN taken : taken[k] = [con |-> c, handle |-> v]
  BY DEF Given
<1>2. PICK l \in DOMAIN taken : taken[l] = [con |-> d, handle |-> v]
  BY DEF Given
<1>3. /\ taken[k].con = c /\ taken[l].con = d
      /\ taken[k].handle = v /\ taken[l].handle = v
  BY <1>1, <1>2
<1>. QED BY <1>3, RoundsDistinct DEF HandlesDistinct

\* No two entries have one handle of the host.
LEMMA VirtOnce ==
    ASSUME HandlesType, Rounds, ~crowded, Right, NEW p \in Phys,
           NEW i \in WithPhys(hci, p), NEW j \in WithVirt(hci, hci.table[i].virt)
    PROVE  i = j
<1> DEFINE v == hci.table[i].virt
<1>1. /\ i \in Entries /\ hci.table[i].phys = p
      /\ j \in Entries /\ hci.table[j].valid /\ hci.table[j].virt = v
  BY DEF WithPhys, WithVirt
<1>2. PICK r \in Phys : j \in WithPhys(hci, r)
  <2>1. hci.table[j] \in EntryRec
    BY <1>1 DEF HandlesType, HciRec
  <2>2. hci.table[j].phys \in Phys
    BY <1>1, <2>1 DEF EntryRec
  <2>. QED BY <1>1, <2>2 DEF WithPhys
<1> HIDE DEF v
<1>3. /\ Flows(usb, WithPhys(hci, p), link[p], p) /\ GivenAt(p)
      /\ Flows(usb, WithPhys(hci, r), link[r], r) /\ GivenAt(r)
  BY DEF Right, At
<1>4. PICK c : Bears(usb, link[p], p, c)
  BY <1>3, Borne
<1>5. PICK d : Bears(usb, link[r], r, d)
  BY <1>2, <1>3, Borne
<1>6. Given(c, v) /\ Given(d, v)
  BY <1>1, <1>2, <1>3, <1>4, <1>5 DEF GivenAt, v
<1>7. c = d
  BY <1>4, <1>5, <1>6, BornOpen, OneOfHandle
<1>8. p = r
  BY <1>4, <1>5, <1>7 DEF Right, OneEach
<1>. QED BY <1>2, <1>3, <1>8 DEF Flows

\* There is an entry for a new connection.
LEMMA Room ==
    ASSUME HandlesType, \A p \in Phys : Flows(usb, WithPhys(hci, p), link[p], p),
           NEW p \in Phys, WithPhys(hci, p) = {}
    PROVE  Free(hci) # {}
<1> SUFFICES ASSUME Free(hci) = {} PROVE FALSE
  OBVIOUS
<1> DEFINE f == [i \in Entries |-> hci.table[i].phys]
           P == Phys \ {p}
<1>1. \A i \in Entries : hci.table[i].valid /\ hci.table[i].phys \in Phys
  <2> SUFFICES ASSUME NEW i \in Entries
               PROVE  hci.table[i].valid /\ hci.table[i].phys \in Phys
    OBVIOUS
  <2>1. hci.table[i].valid
    BY DEF Free
  <2>2. hci.table[i] \in EntryRec
    BY DEF HandlesType, HciRec
  <2>. QED BY <2>1, <2>2 DEF EntryRec
<1>2. \A i \in Entries : i \in WithPhys(hci, f[i]) /\ f[i] \in P
  BY <1>1 DEF WithPhys
<1>3. \A i, j \in Entries : f[i] = f[j] => i = j
  BY <1>2 DEF Flows
<1>4. IsFiniteSet(P) /\ Cardinality(P) = Cardinality(Phys) - 1
  BY TableAssumption, FS_RemoveElement
<1>5. f \in [Entries -> P]
  BY <1>2
<1> HIDE DEF f, P
<1>6. f \in Injection(Entries, P)
  BY <1>3, <1>5 DEF Injection, IsInjective
<1>7. Cardinality(Entries) <= Cardinality(P)
  BY <1>4, <1>6, FS_Injection
<1>8. Cardinality(Entries) = NumEntries
  BY HciAssumption, FS_Interval DEF Entries
<1>. QED BY <1>4, <1>7, <1>8, TableAssumption, HciAssumption, FS_CardinalityType
-----------------------------------------------------------------------------
(* A step and the table                                                     *)

\* Entries of handle p of the dongle stay as they are.
Same(p) ==
    /\ WithPhys(hci, p)' = WithPhys(hci, p)
    /\ \A i \in WithPhys(hci, p) : hci'.table[i].virt = hci.table[i].virt

\* Nobody is behind handle p, nor asked, who was not before.
Fewer(p) ==
    \A c : /\ Bears(usb', link'[p], p, c) => Bears(usb, link[p], p, c)
           /\ Asks(usb', p, c) => Asks(usb, p, c)

LEMMA GivenKept ==
    ASSUME HandlesType, [Next]_vars, NEW p \in Phys, GivenAt(p), Same(p), Fewer(p)
    PROVE  GivenAt(p)'
<1>1. ASSUME NEW i \in WithPhys(hci, p)', NEW c, NEW v, v = hci'.table[i].virt,
             Bears(usb', link'[p], p, c) \/ Asks(usb', p, c)
      PROVE  Given(c, v)'
  <2>1. i \in WithPhys(hci, p) /\ v = hci.table[i].virt
    BY <1>1 DEF Same
  <2>2. Bears(usb, link[p], p, c) \/ Asks(usb, p, c)
    BY <1>1 DEF Fewer
  <2>3. Given(c, v)
    BY <2>1, <2>2 DEF GivenAt
  <2>. QED BY <2>3, GivenStays
<1>. QED BY <1>1 DEF GivenAt, Given

LEMMA OneEachKept ==
    ASSUME OneEach,
           \A p \in Phys : \A c : Bears(usb', link'[p], p, c) => Bears(usb, link[p], p, c)
    PROVE  OneEach'
BY DEF OneEach

LEMMA UsbGrows ==
    ASSUME HandlesType, NEW e, usb' = Append(usb, e)
    PROVE  \A p : Grown(usb, usb', e, p)
<1> DEFINE S == Events(Phys, made) \cup {e}
<1>1. usb \in Seq(S) /\ e \in S
  BY SeqMonotonic DEF HandlesType, Numbered
<1> HIDE DEF S
<1>. QED BY <1>1, AppendGrows

LEMMA UsbShrinks ==
    ASSUME HandlesType, usb # <<>>, usb' = Tail(usb)
    PROVE  \A p : Shrunk(usb, usb', Head(usb), p)
<1>1. usb \in Seq(Events(Phys, made))
  BY DEF HandlesType, Numbered
<1>. QED BY <1>1, TailShrinks

\* A step that leaves p alone.
LEMMA AtStill ==
    ASSUME HandlesType, [Next]_vars, UNCHANGED usb, NEW p \in Phys, link'[p] = link[p],
           Same(p), At(p)
    PROVE  At(p)' /\ Fewer(p)
<1>1. Fewer(p)
  BY DEF Fewer
<1>2. GivenAt(p)'
  BY <1>1, GivenKept DEF At
<1>3. Flows(usb, WithPhys(hci, p), link[p], p)'
  BY DEF At, Same
<1>. QED BY <1>1, <1>2, <1>3 DEF At

\* An event of the dongle about another handle, or of a failure.
LEMMA AtOther ==
    ASSUME HandlesType, [Next]_vars, NEW e, usb' = Append(usb, e),
           NEW p \in Phys, link'[p] = link[p], ~(e.ok /\ e.handle = p), Same(p), At(p)
    PROVE  At(p)' /\ Fewer(p)
<1>1. PICK q, r, T, l : q = usb /\ r = usb' /\ T = WithPhys(hci, p) /\ l = link[p]
  OBVIOUS
<1>2. Grown(q, r, e, p) /\ Flows(q, T, l, p)
  BY <1>1, UsbGrows DEF At
<1>3. Flows(r, T, l, p) /\ \A c : Bears(r, l, p, c) <=> Bears(q, l, p, c)
  BY <1>2, OtherFlows
<1>4. \A c : Asks(r, p, c) => Asks(q, p, c)
  BY <1>2 DEF Grown, Asks
<1>5. Fewer(p)
  BY <1>1, <1>3, <1>4 DEF Fewer
<1>6. GivenAt(p)'
  BY <1>5, GivenKept DEF At
<1>7. Flows(usb, WithPhys(hci, p), link[p], p)'
  BY <1>1, <1>3 DEF Same
<1>. QED BY <1>5, <1>6, <1>7 DEF At

\* fakemote sees an event about another handle, of a failure, or an answer.
LEMMA AtPass ==
    ASSUME HandlesType, [Next]_vars, usb # <<>>, usb' = Tail(usb),
           NEW p \in Phys, link'[p] = link[p], Same(p), At(p),
           LET e == Head(usb) IN e.ok /\ e.handle = p => e.type = "event"
    PROVE  At(p)' /\ Fewer(p)
<1>1. PICK q, r, e, T, l : /\ q = usb /\ r = usb' /\ e = Head(usb)
                           /\ T = WithPhys(hci, p) /\ l = link[p]
  OBVIOUS
<1>2. Shrunk(q, r, e, p) /\ Flows(q, T, l, p) /\ (e.ok /\ e.handle = p => e.type = "event")
  BY <1>1, UsbShrinks DEF At
<1>3. Flows(r, T, l, p) /\ \A c : Bears(r, l, p, c) => Bears(q, l, p, c)
  BY <1>2, PassFlows
<1>4. \A c : Asks(r, p, c) => Asks(q, p, c)
  BY <1>2 DEF Shrunk, Asks
<1>5. Fewer(p)
  BY <1>1, <1>3, <1>4 DEF Fewer
<1>6. GivenAt(p)'
  BY <1>5, GivenKept DEF At
<1>7. Flows(usb, WithPhys(hci, p), link[p], p)'
  BY <1>1, <1>3 DEF Same
<1>. QED BY <1>5, <1>6, <1>7 DEF At
-----------------------------------------------------------------------------
(* The actions and the table                                                *)

LEMMA RightStill ==
    ASSUME HandlesType, [Next]_vars, Right, UNCHANGED <<usb, link>>, hci'.table = hci.table
    PROVE  Right'
<1>1. ASSUME NEW p \in Phys PROVE At(p)' /\ Fewer(p)
  <2>1. Same(p)
    BY DEF Same, WithPhys
  <2>. QED BY <2>1, AtStill DEF Right
<1>2. OneEach'
  BY <1>1, OneEachKept DEF Right, Fewer
<1>. QED BY <1>1, <1>2 DEF Right

LEMMA RightConnects ==
    ASSUME HandlesType, Next, Right, NEW p \in Phys, RealConnects(p)
    PROVE  Right'
<1>1. PICK m : m = made + 1
  OBVIOUS
<1> DEFINE e == Event("connected", TRUE, p, m)
<1>2. /\ usb' = Append(usb, e) /\ link' = [link EXCEPT ![p] = m] /\ link[p] = None
      /\ hci' = hci /\ ~\E i \in DOMAIN usb : usb[i].ok /\ usb[i].handle = p
  BY <1>1 DEF RealConnects, Sends
<1>3. e.ok /\ e.handle = p /\ e.type = "connected" /\ e.con = m
  BY DEF Event
<1> HIDE DEF e
<1>4. /\ made \in Nat /\ m # None /\ m \notin 1..made
      /\ link'[p] = m /\ \A r \in Phys : r # p => link'[r] = link[r]
  BY <1>1, <1>2 DEF HandlesType, Numbered, None
<1>5. \A r : Same(r)
  BY <1>2 DEF Same, WithPhys
<1>6. ASSUME NEW r \in Phys, r # p PROVE At(r)' /\ Fewer(r)
  BY <1>2, <1>3, <1>4, <1>5, <1>6, AtOther DEF Right
<1>7. /\ Flows(usb', WithPhys(hci, p), m, p) /\ WithPhys(hci, p) = {}
      /\ \A c : Bears(usb', m, p, c) => c = m
  <2>1. PICK q, r, T : q = usb /\ r = usb' /\ T = WithPhys(hci, p)
    OBVIOUS
  <2>2. Grown(q, r, e, p)
    BY <1>2, <2>1, UsbGrows
  <2>3. Mine(q, p) = {}
    BY <1>2, <2>1 DEF Mine
  <2>4. Flows(q, T, None, p)
    <3>1. Flows(usb, WithPhys(hci, p), link[p], p)
      BY DEF Right, At
    <3>. QED BY <1>2, <2>1, <3>1
  <2>5. e.con # None
    BY <1>3, <1>4
  <2>6. /\ Flows(r, T, e.con, p) /\ T = {}
        /\ \A c : Bears(r, e.con, p, c) => c = e.con
    BY <1>3, <2>2, <2>3, <2>4, <2>5, OpenFlows
  <2>. QED BY <1>3, <2>1, <2>6
<1>8. At(p)'
  <2>1. WithPhys(hci, p)' = {}
    BY <1>5, <1>7 DEF Same
  <2>2. Flows(usb, WithPhys(hci, p), link[p], p)'
    BY <1>4, <1>7, <2>1
  <2>. QED BY <2>1, <2>2 DEF At, GivenAt
<1>9. OneEach'
  <2> SUFFICES ASSUME NEW r \in Phys, NEW s \in Phys, NEW c, NEW d,
                      Bears(usb', link'[r], r, c), Bears(usb', link'[s], s, d)
               PROVE  r = s <=> c = d
    BY DEF OneEach
  <2>1. r # p => Bears(usb, link[r], r, c) /\ c # m
    BY <1>4, <1>6, BornOpen DEF Fewer
  <2>2. s # p => Bears(usb, link[s], s, d) /\ d # m
    BY <1>4, <1>6, BornOpen DEF Fewer
  <2>3. /\ r = p => c = m
        /\ s = p => d = m
    BY <1>4, <1>7
  <2>. QED BY <2>1, <2>2, <2>3 DEF Right, OneEach
<1>. QED BY <1>6, <1>8, <1>9 DEF Right

LEMMA RightFails ==
    ASSUME HandlesType, Next, Right, NEW p \in Phys, RealFails(p)
    PROVE  Right'
<1> DEFINE e == Event("connected", FALSE, p, None)
<1>1. usb' = Append(usb, e) /\ ~e.ok /\ UNCHANGED <<hci, link>>
  BY Fields DEF RealFails, Sends
<1> HIDE DEF e
<1>2. ASSUME NEW r \in Phys PROVE At(r)' /\ Fewer(r)
  <2>1. Same(r) /\ link'[r] = link[r]
    BY <1>1 DEF Same, WithPhys
  <2>. QED BY <1>1, <2>1, AtOther DEF Right
<1>3. OneEach'
  BY <1>2, OneEachKept DEF Right, Fewer
<1>. QED BY <1>2, <1>3 DEF Right

\* The end of a connection, whoever asked for it.
LEMMA RightCloses ==
    ASSUME HandlesType, Next, Right, NEW p \in Phys, link[p] # None, UNCHANGED hci,
           usb' = Append(usb, Event("disconnected", TRUE, p, link[p])),
           link' = [link EXCEPT ![p] = None]
    PROVE  Right'
<1> DEFINE e == Event("disconnected", TRUE, p, link[p])
<1>1. usb' = Append(usb, e)
  OBVIOUS
<1>2. e.ok /\ e.handle = p /\ e.type = "disconnected" /\ e.con = link[p]
  BY DEF Event
<1> HIDE DEF e
<1>3. link'[p] = None /\ \A r \in Phys : r # p => link'[r] = link[r]
  BY DEF HandlesType, Numbered
<1>4. \A r : Same(r)
  BY DEF Same, WithPhys
<1>5. ASSUME NEW r \in Phys, r # p PROVE At(r)' /\ Fewer(r)
  BY <1>1, <1>2, <1>3, <1>4, <1>5, AtOther DEF Right
<1>6. At(p)' /\ Fewer(p)
  <2>1. PICK q, r, T, l : q = usb /\ r = usb' /\ T = WithPhys(hci, p) /\ l = link[p]
    OBVIOUS
  <2>2. Grown(q, r, e, p) /\ Flows(q, T, l, p)
    BY <1>1, <2>1, UsbGrows DEF Right, At
  <2>3. Flows(r, T, None, p) /\ \A c : Bears(r, None, p, c) => Bears(q, l, p, c)
    BY <1>2, <2>1, <2>2, CloseFlows
  <2>4. \A c : Asks(r, p, c) => Asks(q, p, c)
    BY <1>2, <2>2 DEF Grown, Asks
  <2>5. Fewer(p)
    BY <1>3, <2>1, <2>3, <2>4 DEF Fewer
  <2>6. GivenAt(p)'
    BY <1>4, <2>5, GivenKept DEF Right, At
  <2>7. Flows(usb, WithPhys(hci, p), link[p], p)'
    BY <1>3, <1>4, <2>1, <2>3 DEF Same
  <2>. QED BY <2>5, <2>6, <2>7 DEF At
<1>7. OneEach'
  BY <1>5, <1>6, OneEachKept DEF Right, Fewer
<1>. QED BY <1>5, <1>6, <1>7 DEF Right
LEMMA RightCommands ==
    ASSUME HandlesType, Rounds, Told, ~crowded, Next, Right,
           NEW v \in VirtHandles, NEW what \in {"event", "disconnected"},
           NEW ok \in BOOLEAN, HostCommands(v, what, ok)
    PROVE  Right'
<1>1. /\ host.con[v] # None /\ (what = "disconnected" \/ ok) /\ UNCHANGED hci
      /\ UNCHANGED <<usb, link>> \/ \E p \in Phys : Performs(v, what, ok, p)
  BY CommandEffect
<1>2. CASE UNCHANGED <<usb, link>>
  BY <1>1, <1>2, RightStill
<1>3. ASSUME NEW p \in Phys, Performs(v, what, ok, p) PROVE Right'
  <2>1. PICK c, i : c = host.con[v] /\ i \in WithPhys(hci, p) /\ hci.table[i].virt = v
    BY <1>3 DEF Performs
  <2>2. Given(c, v)
    BY <1>1, <2>1 DEF Told, HostTold
  <2>3. link[p] # None
    BY <1>3 DEF Performs
  <2>4. Flows(usb, WithPhys(hci, p), link[p], p) /\ GivenAt(p)
    BY DEF Right, At
  <2> DEFINE e == Event(what, ok, p, c)
  <2>5. usb' = Append(usb, e)
    BY <1>3, <2>1 DEF Performs
  <2>6. e.type = what /\ e.ok = ok /\ e.handle = p /\ e.con = c
    BY DEF Event
  <2>7. CASE Closes(what, ok)
    <3>1. PICK d : d = link[p]
      OBVIOUS
    <3>2. Bears(usb, link[p], p, d)
      BY <2>3, <3>1 DEF Bears
    <3>3. d \in Open /\ Given(d, v)
      BY <2>1, <2>4, <3>2, BornOpen DEF GivenAt
    <3>4. c \in Open
      <4>1. c \in 0..made /\ made \in Nat /\ made <= MaxCons /\ MaxCons \in Nat
        BY <2>1, HandlesAssumption DEF HandlesType, Numbered
      <4>2. c \in Cons
        BY <1>1, <2>1, <4>1 DEF Cons, None
      <4>. QED BY <2>1, <4>2, OpenIs DEF HostHas
    <3>5. c = d
      BY <2>2, <3>3, <3>4, OneOfHandle
    <3>6. what = "disconnected" /\ ok = TRUE
      BY <2>7 DEF Closes
    <3>7. usb' = Append(usb, Event("disconnected", TRUE, p, link[p]))
      BY <2>5, <3>1, <3>5, <3>6
    <3>8. link' = [link EXCEPT ![p] = None]
      BY <1>3, <2>7 DEF Performs
    <3>. QED BY <1>1, <2>3, <3>7, <3>8, RightCloses
  <2>8. CASE ~Closes(what, ok)
    <3> HIDE DEF e
    <3>1. link' = link /\ \A r : Same(r)
      BY <1>1, <1>3, <2>8 DEF Performs, Same, WithPhys
    <3>2. ASSUME NEW r \in Phys, r # p \/ ~ok PROVE At(r)' /\ Fewer(r)
      <4>1. ~(e.ok /\ e.handle = r)
        BY <2>6, <3>2
      <4>. QED BY <2>5, <3>1, <4>1, AtOther DEF Right
    <3>3. CASE ~ok
      <4>1. OneEach'
        BY <3>2, <3>3, OneEachKept DEF Right, Fewer
      <4>. QED BY <3>2, <3>3, <4>1 DEF Right
    <3>4. CASE ok
      <4>1. e.ok /\ e.handle = p /\ e.type = "event"
        BY <1>1, <2>6, <2>8, <3>4 DEF Closes
      <4>2. PICK q, r, T, l : q = usb /\ r = usb' /\ T = WithPhys(hci, p) /\ l = link[p]
        OBVIOUS
      <4>3. Grown(q, r, e, p) /\ Flows(q, T, l, p) /\ l # None /\ T # {}
        BY <2>1, <2>3, <2>4, <2>5, <4>2, UsbGrows
      <4>4. Flows(r, T, l, p) /\ \A b : Bears(r, l, p, b) <=> Bears(q, l, p, b)
        BY <4>1, <4>3, AskFlows
      <4>5. \A b : Asks(r, p, b) => Asks(q, p, b) \/ b = c
        BY <2>6, <4>3 DEF Grown, Asks
      <4>6. Flows(usb, WithPhys(hci, p), link[p], p)'
        BY <3>1, <4>2, <4>4 DEF Same
      <4>7. \A j \in WithPhys(hci, p) : hci.table[j].virt = v
        BY <2>1, <2>4 DEF Flows
      <4>8. \A b : Given(b, v) => Given(b, v)'
        BY GivenStays
      <4>9. ASSUME NEW b, Bears(usb', link'[p], p, b) \/ Asks(usb', p, b)
            PROVE  Given(b, v)'
        <5>1. Bears(usb, link[p], p, b) \/ Asks(usb, p, b) \/ b = c
          BY <3>1, <4>2, <4>4, <4>5, <4>9
        <5>2. Given(b, v)
          BY <2>1, <2>2, <2>4, <5>1 DEF GivenAt
        <5>. QED BY <4>8, <5>2
      <4>10. WithPhys(hci, p)' = WithPhys(hci, p) /\ hci'.table = hci.table
        BY <1>1 DEF WithPhys
      <4>11. \A j \in WithPhys(hci, p)' : hci'.table[j].virt = v
        BY <4>7, <4>10
      <4>12. GivenAt(p)'
        BY <4>9, <4>11 DEF GivenAt, Given
      <4>13. \A s \in Phys : \A b : Bears(usb', link'[s], s, b) => Bears(usb, link[s], s, b)
        BY <3>1, <3>2, <4>2, <4>4 DEF Fewer
      <4>14. OneEach'
        BY <4>13, OneEachKept DEF Right
      <4>. QED BY <3>2, <4>6, <4>12, <4>14 DEF Right, At
    <3>. QED BY <3>3, <3>4
  <2>. QED BY <2>7, <2>8
<1>. QED BY <1>1, <1>2, <1>3
\* No event of the dongle stops the module.
LEMMA NoStop ==
    ASSUME HandlesType, Right, usb # <<>>, usb' = Tail(usb),
           Head(usb) \in Events(Phys, made)
    PROVE  ~Stops(Head(usb))
<1>1. PICK e : e = Head(usb)
  OBVIOUS
<1> SUFFICES ASSUME Stops(e) PROVE FALSE
  BY <1>1
<1>2. PICK p \in Phys : p = e.handle
  BY <1>1 DEF Events
<1>3. PICK q, r, T, l : q = usb /\ r = usb' /\ T = WithPhys(hci, p) /\ l = link[p]
  OBVIOUS
<1>4. Shrunk(q, r, e, p) /\ Flows(q, T, l, p)
  BY <1>1, <1>3, UsbShrinks DEF Right, At
<1>5. e.type = "event" => e.ok
  BY <1>1 DEF Events
<1>6. CASE Maps(e) /\ Free(hci) = {}
  <2>1. e.ok /\ e.type = "connected"
    BY <1>6 DEF Maps
  <2>2. T = {}
    BY <1>2, <1>4, <2>1, MapFlows
  <2>3. \A s \in Phys : Flows(usb, WithPhys(hci, s), link[s], s)
    BY DEF Right, At
  <2>4. Free(hci) # {}
    BY <1>3, <2>2, <2>3, Room
  <2>. QED BY <1>6, <2>4
<1>7. CASE Translated(e) /\ ~Maps(e) /\ WithPhys(hci, e.handle) = {}
  <2>1. T = {}
    BY <1>2, <1>3, <1>7
  <2>2. CASE e.type = "event"
    <3>1. T # {}
      BY <1>2, <1>4, <1>5, <2>2, PassFlows
    <3>. QED BY <2>1, <3>1
  <2>3. CASE Unmaps(e)
    <3>1. T # {}
      BY <1>2, <1>4, <2>3, UnmapFlows DEF Unmaps
    <3>. QED BY <2>1, <3>1
  <2>. QED BY <1>7, <2>2, <2>3 DEF Translated
<1>. QED BY <1>6, <1>7 DEF Stops

LEMMA RightMaps ==
    ASSUME HandlesType, Next, Right, usb # <<>>, usb' = Tail(usb), UNCHANGED link,
           Head(usb) \in Events(Phys, made), MapsTo(Head(usb))
    PROVE  Right'
<1>1. PICK e : e = Head(usb)
  OBVIOUS
<1>2. PICK p \in Phys : p = e.handle
  BY <1>1 DEF Events
<1>3. e.ok /\ e.type = "connected" /\ Take(e.con)
  BY <1>1 DEF MapsTo, Maps
<1>4. PICK v \in VirtHandles : v = hci.last /\ Given(e.con, v)'
  BY <1>3, GivenNew
<1>5. PICK i \in Entries : ~hci.table[i].valid /\ Rewrites(hci, hci', i, Mapped(p, v))
  BY <1>1, <1>2, <1>4 DEF MapsTo
<1>6. /\ hci'.table[i].valid /\ hci'.table[i].phys = p /\ hci'.table[i].virt = v
      /\ \A j \in Entries : j # i => hci'.table[j] = hci.table[j]
  BY <1>5 DEF Rewrites, Mapped
<1>7. \A r \in Phys : r # p => Same(r)
  BY <1>5, <1>6 DEF Same, WithPhys
<1>8. ASSUME NEW r \in Phys, r # p PROVE At(r)' /\ Fewer(r)
  BY <1>1, <1>2, <1>7, <1>8, AtPass DEF Right
<1>9. PICK q, r, T, l : q = usb /\ r = usb' /\ T = WithPhys(hci, p) /\ l = link[p]
  OBVIOUS
<1>10. Shrunk(q, r, e, p) /\ Flows(q, T, l, p)
  BY <1>1, <1>9, UsbShrinks DEF Right, At
<1>11. /\ T = {} /\ Flows(r, {i}, l, p) /\ Bears(q, l, p, e.con)
       /\ \A c : Bears(r, l, p, c) => Bears(q, l, p, c)
       /\ \A k \in Mine(r, p) : r[k].type # "event"
  BY <1>2, <1>3, <1>10, MapFlows
<1>12. WithPhys(hci, p)' = {i}
  BY <1>6, <1>9, <1>11 DEF WithPhys
<1>13. Flows(usb, WithPhys(hci, p), link[p], p)'
  BY <1>9, <1>11, <1>12
<1>14. ASSUME NEW c, Bears(usb', link'[p], p, c) \/ Asks(usb', p, c)
       PROVE  Given(c, v)'
  <2>1. ~Asks(usb', p, c)
    BY <1>9, <1>11 DEF Asks
  <2>2. Bears(usb, link[p], p, c) /\ Bears(usb, link[p], p, e.con)
    BY <1>9, <1>11, <1>14, <2>1
  <2>3. c = e.con
    BY <2>2 DEF Right, OneEach
  <2>. QED BY <1>4, <2>3
<1>15. GivenAt(p)'
  BY <1>6, <1>12, <1>14 DEF GivenAt, Given
<1>16. \A s \in Phys : \A b : Bears(usb', link'[s], s, b) => Bears(usb, link[s], s, b)
  BY <1>8, <1>9, <1>11 DEF Fewer
<1>17. OneEach'
  BY <1>16, OneEachKept DEF Right
<1>. QED BY <1>8, <1>13, <1>15, <1>17 DEF Right, At

LEMMA RightUnmaps ==
    ASSUME HandlesType, Rounds, ~crowded, Next, Right, usb # <<>>, usb' = Tail(usb),
           UNCHANGED link, Head(usb) \in Events(Phys, made), UnmapsTo(Head(usb))
    PROVE  Right'
<1>1. PICK e : e = Head(usb)
  OBVIOUS
<1>2. PICK p \in Phys : p = e.handle
  BY <1>1 DEF Events
<1>3. e.ok /\ e.type = "disconnected"
  BY <1>1 DEF UnmapsTo, Unmaps
<1>4. PICK j \in WithPhys(hci, p) : \E i \in WithVirt(hci, hci.table[j].virt) :
         Rewrites(hci, hci', i, Unmapped)
  BY <1>1, <1>2 DEF UnmapsTo
<1>5. PICK i : i = j /\ Rewrites(hci, hci', i, Unmapped)
  BY <1>4, VirtOnce
<1>6. /\ hci.table[i].phys = p /\ ~hci'.table[i].valid
      /\ \A k \in Entries : k # i => hci'.table[k] = hci.table[k]
  BY <1>4, <1>5 DEF Rewrites, Unmapped, WithPhys
<1>7. \A r \in Phys : r # p => Same(r)
  BY <1>4, <1>6 DEF Same, WithPhys
<1>8. ASSUME NEW r \in Phys, r # p PROVE At(r)' /\ Fewer(r)
  BY <1>1, <1>2, <1>7, <1>8, AtPass DEF Right
<1>9. PICK q, r, T, l : q = usb /\ r = usb' /\ T = WithPhys(hci, p) /\ l = link[p]
  OBVIOUS
<1>10. Shrunk(q, r, e, p) /\ Flows(q, T, l, p)
  BY <1>1, <1>9, UsbShrinks DEF Right, At
<1>11. Flows(r, {}, l, p) /\ \A c : ~Bears(r, l, p, c)
  BY <1>2, <1>3, <1>10, UnmapFlows
<1>12. \A k \in T : k = i
  BY <1>4, <1>5, <1>9, <1>10 DEF Flows
<1>13. WithPhys(hci, p)' = {}
  BY <1>6, <1>9, <1>12 DEF WithPhys
<1>14. Flows(usb, WithPhys(hci, p), link[p], p)'
  BY <1>9, <1>11, <1>13
<1>15. GivenAt(p)'
  BY <1>13 DEF GivenAt
<1>16. \A s \in Phys : \A b : Bears(usb', link'[s], s, b) => Bears(usb, link[s], s, b)
  BY <1>8, <1>9, <1>11 DEF Fewer
<1>17. OneEach'
  BY <1>16, OneEachKept DEF Right
<1>. QED BY <1>8, <1>14, <1>15, <1>17 DEF Right, At

LEMMA RightPasses ==
    ASSUME HandlesType, Next, Right, usb # <<>>, usb' = Tail(usb), UNCHANGED link,
           Passes(Head(usb))
    PROVE  Right'
<1>1. /\ LET e == Head(usb) IN e.ok => e.type = "event"
      /\ UNCHANGED hci
  BY DEF Passes
<1>2. ASSUME NEW p \in Phys PROVE At(p)' /\ Fewer(p)
  <2>1. Same(p)
    BY <1>1 DEF Same, WithPhys
  <2>. QED BY <1>1, <2>1, AtPass DEF Right
<1>3. OneEach'
  BY <1>2, OneEachKept DEF Right, Fewer
<1>. QED BY <1>2, <1>3 DEF Right

LEMMA RightEvents ==
    ASSUME HandlesType, Rounds, ~crowded, Next, Right, OH1Event
    PROVE  Right' /\ ~Stops(Head(usb))
<1>1. PICK e : e = Head(usb)
  OBVIOUS
<1>2. /\ usb # <<>> /\ usb' = Tail(usb) /\ UNCHANGED link /\ Head(usb) \in Events(Phys, made)
      /\ Stops(e) \/ MapsTo(e) \/ UnmapsTo(e) \/ Passes(e)
  BY <1>1, OH1EventEffect
<1>3. ~Stops(e)
  BY <1>1, <1>2, NoStop
<1>. QED BY <1>1, <1>2, <1>3, RightMaps, RightUnmaps, RightPasses
LEMMA StillLive ==
    ASSUME HandlesType, Next, ~crowded'
    PROVE  Live
<1>1. ~crowded
  BY TakeKinds DEF Take
<1>. QED BY <1>1 DEF Next, Live

LEMMA TableNext ==
    ASSUME HandlesType, Rounds, Told, Table, Next
    PROVE  Table'
<1> SUFFICES ASSUME Live' PROVE Right'
  BY DEF Table
<1>1. ~crowded /\ Right
  BY StillLive DEF Live, Table
<1>2. ASSUME NEW p \in Phys, RealConnects(p) PROVE Right'
  BY <1>1, <1>2, RightConnects
<1>3. ASSUME NEW p \in Phys, RealFails(p) PROVE Right'
  BY <1>1, <1>3, RightFails
<1>4. ASSUME NEW p \in Phys, RealLeaves(p) PROVE Right'
  BY <1>1, <1>4, RightCloses DEF RealLeaves, Sends
<1>5. CASE FakeConnects
  <2>1. hci'.table = hci.table /\ UNCHANGED <<usb, link>>
    BY <1>5, AllocCounts DEF FakeConnects, HandlesType
  <2>. QED BY <1>1, <2>1, RightStill
<1>6. ASSUME NEW f \in fakes, FakeLeaves(f) PROVE Right'
  <2>1. hci'.table = hci.table /\ UNCHANGED <<usb, link>>
    BY <1>6 DEF FakeLeaves
  <2>. QED BY <1>1, <2>1, RightStill
<1>7. ASSUME NEW v \in VirtHandles, NEW what \in {"event", "disconnected"},
             NEW ok \in BOOLEAN, HostCommands(v, what, ok)
      PROVE  Right'
  BY <1>1, <1>7, RightCommands
<1>8. CASE OH1Event
  BY <1>1, <1>8, RightEvents
<1>9. CASE HostRead
  <2>1. hci'.table = hci.table /\ UNCHANGED <<usb, link>>
    BY <1>9 DEF HostRead
  <2>. QED BY <1>1, <2>1, RightStill
<1>. QED BY <1>2, <1>3, <1>4, <1>5, <1>6, <1>7, <1>8, <1>9 DEF Next

-----------------------------------------------------------------------------
(* What the host is told                                                    *)

LEMMA ToldQueue ==
    ASSUME HandlesType, Next, Told, ~crowded, NEW e, evtQ' = Append(evtQ, e), Truthful(e)'
    PROVE  \A k \in DOMAIN evtQ' : Truthful(evtQ[k])'
<1>1. \E S : evtQ \in Seq(S)
  BY DEF HandlesType, Numbered
<1>2. /\ Len(evtQ) \in Nat /\ DOMAIN evtQ = 1..Len(evtQ)
      /\ DOMAIN evtQ' = 1..Len(evtQ) + 1
      /\ \A i \in 1..Len(evtQ) : evtQ'[i] = evtQ[i]
      /\ evtQ'[Len(evtQ) + 1] = e
  BY <1>1, Longer
<1>3. ASSUME NEW k \in DOMAIN evtQ' PROVE Truthful(evtQ[k])'
  <2>1. CASE k = Len(evtQ) + 1
    BY <1>2, <2>1 DEF Truthful, Given
  <2>2. CASE k \in DOMAIN evtQ
    <3>1. PICK f : f = evtQ[k]
      OBVIOUS
    <3>2. f = evtQ'[k]
      BY <1>2, <2>2, <3>1
    <3>3. Truthful(f)
      BY <2>2, <3>1 DEF Told
    <3>4. Truthful(f)'
      BY <3>3, GivenStays DEF Truthful
    <3>. QED BY <3>2, <3>4 DEF Truthful, Given
  <2>. QED BY <1>2, <1>3, <2>1, <2>2
<1>. QED BY <1>3
LEMMA HostStill ==
    ASSUME HandlesType, Next, HostTold, UNCHANGED host
    PROVE  HostTold'
<1>1. \A c, v : Given(c, v) => Given(c, v)'
  BY GivenStays
<1>2. ASSUME NEW v \in VirtHandles, host'.con[v] # None
      PROVE  Given(host.con[v], v)'
  <2>1. PICK c : c = host.con[v] /\ c = host'.con[v]
    OBVIOUS
  <2>2. Given(c, v)'
    BY <1>1, <1>2, <2>1 DEF HostTold
  <2>. QED BY <2>1, <2>2 DEF Given
<1>3. ASSUME NEW k \in DOMAIN host'.answer
      PROVE  Given(host.answer[k].con, host.answer[k].handle)'
  <2>1. PICK e : e = host.answer[k] /\ e = host'.answer[k]
    OBVIOUS
  <2>2. Given(e.con, e.handle)'
    BY <1>1, <1>3, <2>1 DEF HostTold
  <2>. QED BY <2>1, <2>2 DEF Given
<1>. QED BY <1>2, <1>3 DEF HostTold

\* A command that ends a connection, or not, and reads no answer.
LEMMA HostForgets ==
    ASSUME HandlesType, Next, HostTold, NEW v \in VirtHandles, NEW o \in BOOLEAN,
           host' = [con |-> [host.con EXCEPT ![v] = IF o THEN None ELSE host.con[v]],
                    answer |-> <<>>]
    PROVE  HostTold'
<1>1. \A c, u : Given(c, u) => Given(c, u)'
  BY GivenStays
<1>2. host.con \in [VirtHandles -> 0..made]
  BY DEF HandlesType, Numbered
<1>3. ASSUME NEW u \in VirtHandles, host'.con[u] # None
      PROVE  Given(host.con[u], u)'
  <2>1. PICK c : c = host.con[u] /\ c = host'.con[u]
    BY <1>2, <1>3
  <2>2. Given(c, u)'
    BY <1>1, <1>3, <2>1 DEF HostTold
  <2>. QED BY <2>1, <2>2 DEF Given
<1>4. host'.answer = <<>>
  OBVIOUS
<1>5. \A k \in DOMAIN host'.answer : Given(host.answer[k].con, host.answer[k].handle)'
  BY <1>4
<1>. QED BY <1>3, <1>5 DEF HostTold

LEMMA HostLearns ==
    ASSUME HandlesType, Next, HostTold, NEW e, Truthful(e), Learns(e),
           e \in Events(Nat, made)
    PROVE  HostTold'
<1>1. \A c, u : Given(c, u) => Given(c, u)'
  BY GivenStays
<1>2. host.con \in [VirtHandles -> 0..made] /\ None \in 0..made
  BY DEF HandlesType, Numbered, None
<1>3. PICK c, a : /\ host' = [con |-> c, answer |-> a]
                  /\ \/ c = host.con /\ a = <<>>
                     \/ /\ e.ok /\ e.type = "connected" /\ a = <<>>
                        /\ c = [host.con EXCEPT ![e.handle] = e.con]
                     \/ c = [host.con EXCEPT ![e.handle] = None] /\ a = <<>>
                     \/ e.ok /\ e.type = "event" /\ c = host.con /\ a = <<e>>
  BY DEF Learns
<1>4. host'.con = c /\ host'.answer = a
  BY <1>3
<1>5. e.ok /\ e.type # "disconnected" => Given(e.con, e.handle)'
  BY <1>1 DEF Truthful
<1>6. ASSUME NEW u \in VirtHandles, c[u] # None PROVE Given(c[u], u)'
  <2>1. c[u] = host.con[u] \/ (e.ok /\ e.type = "connected" /\ u = e.handle /\ c[u] = e.con)
    BY <1>2, <1>3, <1>6
  <2>2. CASE c[u] = host.con[u]
    <3>1. PICK d : d = c[u]
      OBVIOUS
    <3>2. Given(d, u)'
      BY <1>1, <1>6, <2>2, <3>1 DEF HostTold
    <3>. QED BY <3>1, <3>2 DEF Given
  <2>3. CASE e.ok /\ e.type = "connected" /\ u = e.handle /\ c[u] = e.con
    BY <1>5, <2>3
  <2>. QED BY <2>1, <2>2, <2>3
<1>7. ASSUME NEW k \in DOMAIN a PROVE Given(a[k].con, a[k].handle)'
  <2>1. a = <<e>> /\ e.ok /\ e.type = "event"
    BY <1>3, <1>7
  <2>2. a[k] = e
    BY <1>7, <2>1
  <2>. QED BY <1>5, <2>1, <2>2
<1>8. \A u \in VirtHandles : host'.con[u] # None => Given(host.con[u], u)'
  BY <1>4, <1>6 DEF Given
<1>9. \A k \in DOMAIN host'.answer : Given(host.answer[k].con, host.answer[k].handle)'
  BY <1>4, <1>7 DEF Given
<1>. QED BY <1>8, <1>9 DEF HostTold

\* An event of the dongle is passed on with the handle that its connection was
\* made with.
LEMMA ToldEvent ==
    ASSUME HandlesType, Rounds, Told, ~crowded, Right, Next, OH1Event
    PROVE  /\ UNCHANGED host
           /\ \A k \in DOMAIN evtQ' : Truthful(evtQ[k])'
<1>1. PICK e : e = Head(usb)
  OBVIOUS
<1>2. /\ usb # <<>> /\ UNCHANGED host /\ e \in Events(Phys, made)
      /\ MapsTo(e) \/ UnmapsTo(e) \/ Passes(e)
  BY <1>1, OH1EventEffect, RightEvents
<1>3. CASE MapsTo(e)
  <2>1. PICK v \in VirtHandles : v = hci.last /\ Given(e.con, v)'
    BY <1>3, GivenNew DEF MapsTo
  <2>2. PICK f : f = Event(e.type, e.ok, v, e.con)
    OBVIOUS
  <2>3. evtQ' = Append(evtQ, f) /\ f.con = e.con /\ f.handle = v
    BY <1>3, <2>1, <2>2, Fields DEF MapsTo
  <2>4. Truthful(f)'
    BY <2>1, <2>3 DEF Truthful
  <2>. QED BY <1>2, <2>3, <2>4, ToldQueue
<1>4. CASE UnmapsTo(e)
  <2>1. PICK v : evtQ' = Append(evtQ, Event(e.type, e.ok, v, e.con))
    BY <1>4 DEF UnmapsTo
  <2>2. PICK f : f = Event(e.type, e.ok, v, e.con)
    OBVIOUS
  <2>3. evtQ' = Append(evtQ, f) /\ f.type = "disconnected"
    <3>1. e.type = "disconnected"
      BY <1>4 DEF UnmapsTo, Unmaps
    <3>. QED BY <2>1, <2>2, <3>1, Fields
  <2>4. Truthful(f)'
    BY <2>3 DEF Truthful
  <2>. QED BY <1>2, <2>3, <2>4, ToldQueue
<1>5. CASE Passes(e)
  <2>1. PICK v \in Nat :
           /\ e.type = "event" => \E j \in WithPhys(hci, e.handle) : v = hci.table[j].virt
           /\ evtQ' = Append(evtQ, Event(e.type, e.ok, v, e.con))
    BY <1>5 DEF Passes
  <2>2. PICK f : f = Event(e.type, e.ok, v, e.con)
    OBVIOUS
  <2>3. /\ evtQ' = Append(evtQ, f) /\ f.ok = e.ok /\ f.type = e.type
        /\ f.con = e.con /\ f.handle = v /\ (e.ok => e.type = "event")
    BY <1>5, <2>1, <2>2, Fields DEF Passes
  <2>4. ASSUME e.ok PROVE Given(e.con, v)
    <3>1. PICK p \in Phys : p = e.handle
      BY <1>2 DEF Events
    <3>2. 1 \in Mine(usb, p) /\ e = usb[1]
      <4>1. Shrunk(usb, usb', e, p)
        BY <1>1, <1>2, UsbShrinks DEF OH1Event
      <4>. QED BY <2>4, <3>1, <4>1 DEF Shrunk
    <3>3. Asks(usb, p, e.con)
      BY <2>3, <2>4, <3>2 DEF Asks
    <3>. QED BY <2>1, <2>3, <2>4, <3>1, <3>3 DEF Right, At, GivenAt
  <2>5. Truthful(f)'
    BY <2>3, <2>4, GivenStays DEF Truthful
  <2>. QED BY <1>2, <2>3, <2>5, ToldQueue
<1>. QED BY <1>2, <1>3, <1>4, <1>5
LEMMA ToldNext ==
    ASSUME HandlesType, Rounds, Told, Table, Next
    PROVE  Told'
<1> SUFFICES ASSUME ~crowded'
             PROVE  HostTold' /\ \A k \in DOMAIN evtQ' : Truthful(evtQ[k])'
  BY DEF Told
<1>1. ~crowded /\ HostTold /\ Right
  BY StillLive DEF Live, Table, Told
<1>2. ASSUME UNCHANGED evtQ PROVE \A k \in DOMAIN evtQ' : Truthful(evtQ[k])'
  <2> SUFFICES ASSUME NEW k \in DOMAIN evtQ' PROVE Truthful(evtQ[k])'
    OBVIOUS
  <2>1. PICK f : f = evtQ[k] /\ f = evtQ'[k]
    BY <1>2
  <2>2. Truthful(f)
    BY <1>1, <1>2, <2>1 DEF Told
  <2>3. Truthful(f)'
    BY <2>2, GivenStays DEF Truthful
  <2>. QED BY <2>1, <2>3 DEF Truthful, Given
<1>3. CASE UNCHANGED <<evtQ, host>>
  BY <1>1, <1>2, <1>3, HostStill
<1>4. ASSUME NEW p \in Phys, RealConnects(p) \/ RealFails(p) \/ RealLeaves(p)
      PROVE  UNCHANGED <<evtQ, host>>
  BY <1>4 DEF RealConnects, RealFails, RealLeaves
<1>5. CASE FakeConnects
  <2>1. PICK m : m = made + 1
    OBVIOUS
  <2>2. Take(m) /\ evtQ' = Append(evtQ, Event("connected", TRUE, hci.last, m))
    BY <1>5, <2>1 DEF FakeConnects
  <2>3. PICK v \in VirtHandles : v = hci.last /\ Given(m, v)'
    BY <2>2, GivenNew
  <2>4. PICK f : f = Event("connected", TRUE, v, m)
    OBVIOUS
  <2>5. f.con = m /\ f.handle = v
    BY <2>4 DEF Event
  <2>6. Truthful(f)'
    BY <2>3, <2>5 DEF Truthful
  <2>7. evtQ' = Append(evtQ, f) /\ UNCHANGED host
    BY <1>5, <2>2, <2>3, <2>4 DEF FakeConnects
  <2>. QED BY <1>1, <2>6, <2>7, ToldQueue, HostStill
<1>6. ASSUME NEW f \in fakes, FakeLeaves(f)
      PROVE  HostTold' /\ \A k \in DOMAIN evtQ' : Truthful(evtQ[k])'
  <2>1. PICK e : e = Event("disconnected", TRUE, f.handle, f.con)
    OBVIOUS
  <2>2. evtQ' = Append(evtQ, e) /\ e.type = "disconnected" /\ UNCHANGED host
    BY <1>6, <2>1 DEF FakeLeaves, Event
  <2>3. Truthful(e)'
    BY <2>2 DEF Truthful
  <2>. QED BY <1>1, <2>2, <2>3, ToldQueue, HostStill
<1>7. ASSUME NEW v \in VirtHandles, NEW what \in {"event", "disconnected"},
             NEW ok \in BOOLEAN, HostCommands(v, what, ok)
      PROVE  HostTold' /\ UNCHANGED evtQ
  <2>1. PICK o \in BOOLEAN : o = Closes(what, ok)
    BY DEF Closes
  <2>2. /\ UNCHANGED evtQ
        /\ host' = [con |-> [host.con EXCEPT ![v] = IF o THEN None ELSE host.con[v]],
                    answer |-> <<>>]
    BY <1>7, <2>1, CommandEffect
  <2>. QED BY <1>1, <2>2, HostForgets
<1>8. CASE OH1Event
  BY <1>1, <1>8, ToldEvent, HostStill
<1>9. CASE HostRead
  <2>1. PICK e : e = Head(evtQ)
    OBVIOUS
  <2>2. evtQ # <<>> /\ evtQ' = Tail(evtQ) /\ e \in Events(Nat, made) /\ Learns(e)
    BY <1>9, <2>1, HostReadEffect
  <2>3. /\ e = evtQ[1] /\ 1 \in DOMAIN evtQ
        /\ \A k \in DOMAIN evtQ' : k + 1 \in DOMAIN evtQ /\ evtQ'[k] = evtQ[k + 1]
    <3>1. evtQ \in Seq(Events(Nat, made))
      BY DEF HandlesType, Numbered
    <3>2. PICK S, q, r : q = evtQ /\ r = evtQ' /\ q \in Seq(S)
      BY <3>1
    <3>3. /\ Len(q) \in Nat \ {0} /\ Head(q) = q[1] /\ DOMAIN q = 1..Len(q)
          /\ r \in Seq(S) /\ Len(r) = Len(q) - 1
          /\ \A i \in 1..Len(q) - 1 : r[i] = q[i + 1]
      BY <2>2, <3>2, HeadTailProperties, LenProperties, EmptySeq
    <3>4. DOMAIN r = 1..Len(q) - 1
      BY <3>3, LenProperties
    <3>. QED BY <2>1, <3>2, <3>3, <3>4
  <2>4. HostTold'
    BY <1>1, <2>2, <2>3, HostLearns DEF Told
  <2>5. ASSUME NEW k \in DOMAIN evtQ' PROVE Truthful(evtQ[k])'
    <3>1. PICK f : f = evtQ[k + 1] /\ f = evtQ'[k]
      BY <2>3
    <3>2. Truthful(f)
      BY <1>1, <2>3, <3>1 DEF Told
    <3>3. Truthful(f)'
      BY <3>2, GivenStays DEF Truthful
    <3>. QED BY <3>1, <3>3 DEF Truthful, Given
  <2>. QED BY <2>4, <2>5
<1>. QED BY <1>2, <1>3, <1>4, <1>5, <1>6, <1>7, <1>8, <1>9 DEF Next

-----------------------------------------------------------------------------
(* The properties                                                           *)

LEMMA TableToldInit == Init => Table /\ Told
<1> SUFFICES ASSUME Init PROVE Table /\ Told
  OBVIOUS
<1>1. /\ usb = <<>> /\ evtQ = <<>> /\ host.answer = <<>>
      /\ \A v \in VirtHandles : host.con[v] = None
      /\ \A p \in Phys : link[p] = None
  BY DEF Init
<1>2. ASSUME NEW p \in Phys
      PROVE  Mine(usb, p) = {} /\ WithPhys(hci, p) = {}
  <2>1. Mine(usb, p) = {}
    BY <1>1 DEF Mine
  <2>2. WithPhys(hci, p) = {}
    BY DEF Init, HciReset, Unmapped, WithPhys
  <2>. QED BY <2>1, <2>2
<1>3. \A p \in Phys : /\ Flows(usb, WithPhys(hci, p), link[p], p) /\ GivenAt(p)
                      /\ \A c : ~Bears(usb, link[p], p, c)
  BY <1>1, <1>2 DEF Flows, GivenAt, Bears
<1>4. Table
  BY <1>3 DEF Table, Right, OneEach, At
<1>5. Told
  BY <1>1 DEF Told, HostTold
<1>. QED BY <1>4, <1>5

LEMMA TableToldNext == HandlesType /\ Rounds /\ Table /\ Told /\ [Next]_vars => Table' /\ Told'
<1>1. CASE UNCHANGED vars
  <2>1. Table => Table'
    BY <1>1 DEF vars, Table, Live, Right, OneEach, At, GivenAt, Given
  <2>2. Told => Told'
    BY <1>1 DEF vars, Told, HostTold, Truthful, Given
  <2>. QED BY <2>1, <2>2
<1>. QED BY <1>1, TableNext, ToldNext

LEMMA TableToldCorrect == Spec => [](Table /\ Told)
BY TableToldInit, TableToldNext, TypeCorrect, RoundsCorrect, PTL DEF Spec

\* While no connection has seen the counter go around, no event of the dongle
\* stops the module: one with a handle finds its entry, and a new connection
\* finds an entry that is free (the assertions of
\* hci_state_handle_hci_event_from_controller and hci_state_connection_map).
THEOREM EntriesKnown == Spec => []EventHandleKnown
<1>1. Init => EventHandleKnown
  BY DEF Init, EventHandleKnown
<1>2. HandlesType /\ Rounds /\ Table /\ EventHandleKnown /\ [Next]_vars => EventHandleKnown'
  <2> SUFFICES ASSUME HandlesType, Rounds, Table, EventHandleKnown, [Next]_vars, ~crowded'
               PROVE  hung' \notin {"event", "map"}
    BY DEF EventHandleKnown
  <2>1. CASE UNCHANGED vars
    BY <2>1 DEF vars, EventHandleKnown
  <2>2. CASE Next
    <3>1. hung = "no" /\ ~crowded /\ Right
      BY <2>2, StillLive DEF Live, Table
    <3>2. ASSUME NEW p \in Phys, RealConnects(p) \/ RealFails(p) \/ RealLeaves(p)
          PROVE  hung' = hung
      BY <3>2 DEF RealConnects, RealFails, RealLeaves
    <3>3. FakeConnects \/ HostRead => hung' = hung
      BY DEF FakeConnects, HostRead
    <3>4. ASSUME NEW f \in fakes, FakeLeaves(f) PROVE hung' = hung
      BY <3>4 DEF FakeLeaves
    <3>5. ASSUME NEW v \in VirtHandles, NEW what, NEW ok, HostCommands(v, what, ok)
          PROVE  hung' \in {"command", hung}
      BY <3>5 DEF HostCommands
    <3>6. CASE OH1Event
      <4>1. PICK e : e = Head(usb)
        OBVIOUS
      <4>2. MapsTo(e) \/ UnmapsTo(e) \/ Passes(e)
        BY <2>2, <3>1, <3>6, <4>1, OH1EventEffect, RightEvents
      <4>3. hung' = hung
        BY <4>2 DEF MapsTo, UnmapsTo, Passes
      <4>. QED BY <3>1, <4>3
    <3>. QED BY <2>2, <3>1, <3>2, <3>3, <3>4, <3>5, <3>6 DEF Next
  <2>. QED BY <2>1, <2>2
<1>. QED BY <1>1, <1>2, TypeCorrect, RoundsCorrect, TableToldCorrect, PTL DEF Spec

\* An answer that the host reads is announced with the handle of the connection
\* that the command was for, although handles of the dongle and of the host are
\* used again (TRANSLATE_CON_HANDLE, and the table in either direction).
THEOREM AnswersTrue == Spec => []AnswerNamesConnection
<1>1. HandlesType /\ Told => AnswerNamesConnection
  <2> SUFFICES ASSUME HandlesType, Told, ~crowded, host.answer # <<>>
               PROVE  Given(host.answer[1].con, host.answer[1].handle)
    BY DEF AnswerNamesConnection, Given
  <2>1. host.answer \in Seq(Events(Nat, made))
    BY DEF HandlesType, Numbered
  <2>2. 1 \in DOMAIN host.answer
    BY <2>1, LenProperties, EmptySeq
  <2>. QED BY <2>2 DEF Told, HostTold
<1>. QED BY <1>1, TypeCorrect, TableToldCorrect, PTL

================================================================================
