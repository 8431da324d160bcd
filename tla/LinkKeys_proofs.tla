---------------------------- MODULE LinkKeys_proofs ----------------------------
(***************************************************************************)
(* For any numbers of keys and any room for events: a host that waits for  *)
(* the answer to a command before it sends the next one is told of as many *)
(* keys as it was given, as long as no event is lost.  It is not true of a *)
(* host that sends two: the tracker remembers only the last one.           *)
(***************************************************************************)
EXTENDS LinkKeys, SequenceTheorems, TLAPS

-----------------------------------------------------------------------------
(* Types                                                                    *)

Event == [type : {"keys", "complete"}, n : Nat] \cup [type : {"reset_done"}]

Asked == [all : BOOLEAN, said : BOOLEAN]

Answer == [all : BOOLEAN, told : Nat, counted : Nat]

Host == [sent : Seq(BOOLEAN), counted : Nat, resetting : BOOLEAN, answer : Seq(Answer)]

TypeOK ==
    /\ readAll \in BOOLEAN
    /\ keys \in Nat
    /\ dongle \in Seq(Asked)
    /\ usb \in Seq(Event)
    /\ evtQ \in Seq(Event)
    /\ host \in Host

-----------------------------------------------------------------------------
(* What is on its way to the host: evtQ, and then usb.                       *)

Worth(e) == IF e.type = "keys" THEN e.n ELSE 0

At(q, i) == IF i <= Len(q) THEN Worth(q[i]) ELSE 0

\* The keys in a queue of at most three events.
KeysIn(q) == At(q, 1) + At(q, 2) + At(q, 3)

Given == host.counted + KeysIn(evtQ) + KeysIn(usb)

\* The dongle has given the keys that were asked for.
HasSaid == dongle = <<>> \/ dongle[1].said

\* The last event on its way is of this type, and no other is.
EndsWith(type) ==
    /\ \A i \in DOMAIN usb : usb[i].type = type <=> i = Len(usb)
    /\ \A i \in DOMAIN evtQ : evtQ[i].type = type <=> usb = <<>> /\ i = Len(evtQ)
    /\ usb # <<>> \/ evtQ # <<>>

Without(type) ==
    /\ \A i \in DOMAIN usb : usb[i].type # type
    /\ \A i \in DOMAIN evtQ : evtQ[i].type # type

\* The host waits for its reset: what the dongle said before it comes first.
Resetting ==
    /\ host.sent = <<>> /\ dongle = <<>> /\ host.counted = 0 /\ host.answer = <<>>
    /\ EndsWith("reset_done")

\* Nothing is asked for, and nothing on its way.
Idle == host.sent = <<>> /\ dongle = <<>> /\ usb = <<>> /\ evtQ = <<>> /\ host.counted = 0

\* How many keys the host is given until the dongle has said all.
Due(all) ==
    IF all THEN Given = Fakes + (IF HasSaid THEN keys ELSE 0)
    ELSE IF dongle = <<>> THEN Given <= 1
    ELSE Given = IF dongle[1].said THEN 1 ELSE 0

\* One command is asked, the tracker knows which, and the dongle has said nothing,
\* its keys, or all: then the last event on its way has the number of keys.
Busy(all) ==
    /\ host.sent = <<all>> /\ readAll = all /\ host.answer = <<>>
    /\ Without("reset_done")
    /\ Due(all)
    /\ IF dongle = <<>>
       THEN /\ EndsWith("complete") /\ Len(evtQ) + Len(usb) <= 3
            /\ \A i \in DOMAIN usb : usb[i].type = "complete" =>
                  Given = usb[i].n + (IF all THEN Fakes ELSE 0)
            /\ \A i \in DOMAIN evtQ : evtQ[i].type = "complete" => Given = evtQ[i].n
       ELSE /\ Without("complete") /\ Len(dongle) = 1 /\ dongle[1].all = all
            /\ Len(evtQ) + Len(usb) <= IF dongle[1].said THEN 2 ELSE 1

KeysInv ==
    /\ lost \in BOOLEAN
    /\ ~lost =>
          /\ TypeOK
          /\ IF host.resetting THEN Resetting
             ELSE (Idle /\ KeysAnnounced) \/ \E all \in BOOLEAN : Busy(all)

-----------------------------------------------------------------------------
(* Queues                                                                   *)

LEMMA Appended ==
    ASSUME NEW q \in Seq(Event), NEW e \in Event
    PROVE  LET p == Append(q, e)
           IN  /\ p \in Seq(Event) /\ p # <<>>
               /\ Len(q) \in Nat /\ Len(p) = Len(q) + 1 /\ p[Len(p)] = e
               /\ \A i \in DOMAIN q : i \in 1..Len(q) /\ p[i] = q[i]
               /\ DOMAIN p = DOMAIN q \cup {Len(p)}
<1> DEFINE p == Append(q, e)
<1>1. /\ p \in Seq(Event) /\ Len(p) = Len(q) + 1 /\ p[Len(q) + 1] = e
      /\ \A i \in 1..Len(q) : p[i] = q[i]
  OBVIOUS
<1>2. DOMAIN q = 1..Len(q) /\ DOMAIN p = 1..Len(p) /\ Len(q) \in Nat
  BY <1>1
<1>3. p # <<>>
  BY <1>1, <1>2
<1> HIDE DEF p
<1>4. DOMAIN p = DOMAIN q \cup {Len(p)}
  BY <1>1, <1>2
<1>. QED BY <1>1, <1>2, <1>3, <1>4 DEF p

LEMMA KeysAppended ==
    ASSUME NEW q \in Seq(Event), NEW e \in Event, Len(q) <= 2
    PROVE  KeysIn(Append(q, e)) = KeysIn(q) + Worth(e) /\ KeysIn(q) \in Nat
<1> DEFINE p == Append(q, e)
<1>1. /\ Len(p) = Len(q) + 1 /\ p[Len(q) + 1] = e
      /\ \A i \in 1..Len(q) : p[i] = q[i]
      /\ Len(q) = 0 \/ Len(q) = 1 \/ Len(q) = 2
  <2> DEFINE n == Len(q)
  <2>1. n \in Nat
    OBVIOUS
  <2>2. n = 0 \/ n = 1 \/ n = 2
    <3>1. n <= 2
      OBVIOUS
    <3> HIDE DEF n
    <3>. QED BY <2>1, <3>1
  <2>. QED BY <2>2
<1> HIDE DEF p
<1>2. Worth(e) \in Nat /\ \A i \in 1..Len(q) : Worth(q[i]) \in Nat
  BY DEF Worth, Event
<1>3. KeysIn(p) = KeysIn(q) + Worth(e) /\ KeysIn(q) \in Nat
  BY <1>1, <1>2 DEF KeysIn, At
<1>. QED BY <1>3 DEF p

LEMMA Taken ==
    ASSUME NEW q \in Seq(Event), q # <<>>
    PROVE  LET p == Tail(q)
           IN  /\ p \in Seq(Event) /\ Head(q) = q[1] /\ q[1] \in Event
               /\ Len(q) \in Nat \ {0} /\ Len(p) = Len(q) - 1 /\ (p = <<>> <=> Len(q) = 1)
               /\ DOMAIN q = 1..Len(q) /\ DOMAIN p = 1..Len(p)
               /\ \A i \in 1..Len(p) : p[i] = q[i + 1]
<1> DEFINE p == Tail(q)
           n == Len(q)
<1>1. n \in Nat \ {0}
  BY EmptySeq
<1>2. p \in Seq(Event) /\ Len(p) = n - 1 /\ DOMAIN q = 1..n /\ DOMAIN p = 1..Len(p)
  BY <1>1
<1>3. \A i \in 1..Len(p) : p[i] = q[i + 1]
  BY <1>1, <1>2
<1>4. p = <<>> <=> n = 1
  BY <1>1, <1>2, EmptySeq
<1>5. Head(q) = q[1] /\ q[1] \in Event
  BY <1>1
<1>. QED BY <1>1, <1>2, <1>3, <1>4, <1>5

LEMMA KeysTaken ==
    ASSUME NEW q \in Seq(Event), q # <<>>, Len(q) <= 3
    PROVE  /\ KeysIn(Tail(q)) + Worth(q[1]) = KeysIn(q) /\ KeysIn(Tail(q)) \in Nat
           /\ Worth(q[1]) \in Nat
<1> DEFINE p == Tail(q)
           n == Len(q)
<1>1. /\ n \in Nat \ {0} /\ Len(p) = n - 1 /\ DOMAIN q = 1..n
      /\ \A i \in 1..Len(p) : p[i] = q[i + 1]
  BY Taken
<1>2. \A i \in 1..n : Worth(q[i]) \in Nat
  BY DEF Worth, Event
<1> HIDE DEF p
<1>3. n = 1 \/ n = 2 \/ n = 3
  <2> HIDE DEF n
  <2>1. n \in Nat /\ n <= 3
    BY <1>1 DEF n
  <2>. QED BY <1>1, <2>1
<1>4. KeysIn(p) + Worth(q[1]) = KeysIn(q) /\ KeysIn(p) \in Nat
  BY <1>1, <1>2, <1>3 DEF KeysIn, At
<1>. QED BY <1>1, <1>2, <1>4 DEF p

-----------------------------------------------------------------------------
(* Types                                                                    *)

LEMMA SendType ==
    ASSUME LinkKeysAssumption, TypeOK, lost \in BOOLEAN, NEW e \in Event, Send(e)
    PROVE  /\ evtQ' \in Seq(Event) /\ lost' \in BOOLEAN
           /\ ~lost' => ~lost /\ evtQ' = Append(evtQ, e)
<1>1. evtQ \in Seq(Event) /\ Append(evtQ, e) \in Seq(Event) /\ Len(evtQ) \in Nat
  BY Appended DEF TypeOK
<1>2. EvtCap \in Nat
  BY DEF LinkKeysAssumption
<1>3. /\ evtQ' = IF Len(evtQ) < EvtCap THEN Append(evtQ, e) ELSE evtQ
      /\ lost' = (lost \/ Len(evtQ) >= EvtCap)
  BY DEF Send
<1>4. lost \in BOOLEAN
  OBVIOUS
<1>5. Len(evtQ) < EvtCap \/ Len(evtQ) >= EvtCap
  BY <1>1, <1>2
<1>6. evtQ' \in Seq(Event)
  BY <1>1, <1>3
<1>7. lost' \in BOOLEAN /\ (~lost' => ~lost)
  BY <1>3, <1>4
<1>8. ~lost' => evtQ' = Append(evtQ, e)
  <2>1. ~lost' => ~(Len(evtQ) >= EvtCap)
    BY <1>3, <1>4
  <2>. QED BY <1>3, <1>5, <2>1
<1>. QED BY <1>6, <1>7, <1>8

LEMMA EventTypes ==
    ASSUME LinkKeysAssumption
    PROVE
    /\ \A n \in Nat : /\ Keys(n) \in Event /\ Keys(n).type = "keys" /\ Keys(n).n = n
                      /\ Complete(n) \in Event /\ Complete(n).type = "complete"
                      /\ Complete(n).n = n
                      /\ Worth(Keys(n)) = n /\ Worth(Complete(n)) = 0
    /\ ResetDone \in Event /\ ResetDone.type = "reset_done" /\ Worth(ResetDone) = 0
    /\ Fakes \in Nat
BY DEF LinkKeysAssumption, Keys, Complete, ResetDone, Event, Worth

LEMMA PatchedType ==
    ASSUME LinkKeysAssumption, TypeOK, NEW e \in Event
    PROVE  /\ Patched(e) \in Event /\ Patched(e).type = e.type
           /\ Worth(Patched(e)) = Worth(e)
           /\ e.type = "keys" \/ ~readAll => Patched(e) = e
           /\ e.type = "complete" /\ readAll => e.n \in Nat /\ Patched(e) = Complete(e.n + Fakes)
<1>1. e.type = "complete" => e.n \in Nat
  BY DEF Event
<1>2. CASE e.type = "complete" /\ readAll
  <2>1. e.n + Fakes \in Nat
    BY <1>1, <1>2, EventTypes
  <2>. QED BY <1>1, <1>2, <2>1, EventTypes DEF Patched, Worth
<1>3. CASE ~(e.type = "complete" /\ readAll)
  BY <1>3 DEF Patched
<1>. QED BY <1>2, <1>3

LEMMA OneAsked ==
    ASSUME TypeOK, dongle # <<>>
    PROVE  /\ dongle[1] \in Asked /\ Head(dongle) = dongle[1] /\ Tail(dongle) \in Seq(Asked)
           /\ Len(dongle) \in Nat \ {0}
           /\ Len(dongle) = 1 <=> Tail(dongle) = <<>>
<1>1. dongle \in Seq(Asked)
  BY DEF TypeOK
<1>2. Len(dongle) \in Nat \ {0}
  BY <1>1, EmptySeq
<1>3. Tail(dongle) \in Seq(Asked) /\ Len(Tail(dongle)) = Len(dongle) - 1
  BY <1>1, <1>2
<1>4. Len(dongle) = 1 <=> Tail(dongle) = <<>>
  <2> DEFINE t == Tail(dongle)
             n == Len(dongle)
  <2>1. t = <<>> <=> Len(t) = 0
    BY <1>3, EmptySeq
  <2>2. Len(t) = n - 1 /\ n \in Nat \ {0}
    BY <1>2, <1>3
  <2> HIDE DEF t, n
  <2>3. n = 1 <=> t = <<>>
    BY <2>1, <2>2
  <2>. QED BY <2>3 DEF t, n
<1>. QED BY <1>1, <1>2, <1>3, <1>4

\* The dongle has said its keys.
LEMMA SaidIs ==
    ASSUME TypeOK, dongle # <<>>, NEW d, d = [dongle EXCEPT ![1].said = TRUE]
    PROVE  /\ d \in Seq(Asked) /\ d # <<>> /\ Len(d) = Len(dongle)
           /\ d[1].said /\ d[1].all = dongle[1].all
<1>1. dongle \in Seq(Asked) /\ dongle[1] \in Asked /\ Len(dongle) \in Nat \ {0}
  BY OneAsked DEF TypeOK
<1> DEFINE a == [dongle[1] EXCEPT !.said = TRUE]
<1>2. a \in Asked /\ a.said /\ a.all = dongle[1].all
  BY <1>1 DEF Asked
<1>3. d = [dongle EXCEPT ![1] = a]
  OBVIOUS
<1> HIDE DEF a
<1>4. 1 \in 1..Len(dongle)
  BY <1>1
<1>5. d \in Seq(Asked) /\ Len(d) = Len(dongle) /\ d[1] = a
  <2>1. /\ [dongle EXCEPT ![1] = a] \in Seq(Asked)
        /\ Len([dongle EXCEPT ![1] = a]) = Len(dongle)
        /\ \A j \in 1..Len(dongle) :
              [dongle EXCEPT ![1] = a][j] = IF j = 1 THEN a ELSE dongle[j]
    BY <1>1, <1>2, <1>4, ExceptSeq
  <2>. QED BY <1>3, <1>4, <2>1
<1>6. d # <<>>
  BY <1>1, <1>5
<1>. QED BY <1>2, <1>5, <1>6

LEMMA TypeInit == ASSUME LinkKeysAssumption, Init PROVE TypeOK
<1>1. /\ <<>> \in Seq(Asked) /\ <<>> \in Seq(Event) /\ <<>> \in Seq(BOOLEAN)
      /\ <<>> \in Seq(Answer)
  OBVIOUS
<1>. QED BY <1>1 DEF Init, TypeOK, LinkKeysAssumption, Host

\* What reading an event makes of the host.
LEMMA CountsType ==
    ASSUME NEW h \in Host, NEW e \in Event, e.type = "complete" => h.resetting \/ h.sent # <<>>
    PROVE  Counts(h, e) \in Host
<1>1. CASE e.type = "reset_done" \/ h.resetting
  BY <1>1 DEF Counts, Host
<1>2. CASE e.type = "keys" /\ ~h.resetting
  <2>1. e.n \in Nat /\ h.counted \in Nat /\ <<>> \in Seq(Answer)
    BY <1>2 DEF Event, Host
  <2>2. h.counted + e.n \in Nat
    BY <2>1
  <2>3. Counts(h, e) = [h EXCEPT !.counted = h.counted + e.n, !.answer = <<>>]
    BY <1>2 DEF Counts
  <2>. QED BY <2>1, <2>2, <2>3 DEF Host
<1>3. CASE e.type = "complete" /\ ~h.resetting
  <2> DEFINE a == [all |-> Head(h.sent), told |-> e.n, counted |-> h.counted]
  <2>1. e.n \in Nat /\ h.counted \in Nat /\ h.sent \in Seq(BOOLEAN) /\ h.sent # <<>>
    BY <1>3 DEF Event, Host
  <2>2. Head(h.sent) \in BOOLEAN /\ Tail(h.sent) \in Seq(BOOLEAN)
    BY <2>1, HeadTailProperties
  <2>3. <<a>> \in Seq(Answer)
    BY <2>1, <2>2 DEF Answer
  <2>4. Counts(h, e) = [h EXCEPT !.sent = Tail(h.sent), !.counted = 0, !.answer = <<a>>]
    BY <1>3 DEF Counts
  <2> DEFINE q == <<a>>
             s == Tail(h.sent)
  <2>5. Counts(h, e) = [h EXCEPT !.sent = s, !.counted = 0, !.answer = q]
    BY <2>4
  <2>6. s \in Seq(BOOLEAN) /\ q \in Seq(Answer)
    BY <2>2, <2>3
  <2> DEFINE S == Seq(BOOLEAN)
             A == Seq(Answer)
  <2>7. h \in [sent : S, counted : Nat, resetting : BOOLEAN, answer : A]
    BY DEF Host
  <2>8. s \in S /\ q \in A
    BY <2>6
  <2> HIDE DEF q, s, S, A
  <2>9. Counts(h, e) \in [sent : S, counted : Nat, resetting : BOOLEAN, answer : A]
    <3>1. [h EXCEPT !.sent = s, !.counted = 0, !.answer = q]
             \in [sent : S, counted : Nat, resetting : BOOLEAN, answer : A]
      BY <2>7, <2>8
    <3>. QED BY <2>5, <3>1
  <2>. QED BY <2>9 DEF Host, S, A
<1>. QED BY <1>1, <1>2, <1>3 DEF Event

-----------------------------------------------------------------------------
(* The steps.  The host asks one thing at a time.                           *)

Waiting == LinkKeysAssumption /\ Window = 1 /\ KeysInv /\ ~lost

\* What is on its way when nothing is.
LEMMA NothingGiven ==
    /\ KeysIn(<<>>) = 0 /\ Len(<<>>) = 0 /\ DOMAIN <<>> = {}
    /\ \A e \in Event : KeysIn(Append(<<>>, e)) = Worth(e)
<1>1. Len(<<>>) = 0 /\ DOMAIN <<>> = {} /\ <<>> \in Seq(Event)
  OBVIOUS
<1>2. KeysIn(<<>>) = 0
  BY <1>1 DEF KeysIn, At
<1>3. ASSUME NEW e \in Event
      PROVE  KeysIn(Append(<<>>, e)) = Worth(e)
  <2>1. Worth(e) \in Nat
    BY DEF Worth, Event
  <2> DEFINE q == <<>>
  <2>2. q \in Seq(Event) /\ Len(q) <= 2
    BY <1>1
  <2>3. KeysIn(q) = 0
    BY <1>2
  <2> HIDE DEF q
  <2>4. KeysIn(Append(q, e)) = KeysIn(q) + Worth(e)
    BY <2>2, KeysAppended
  <2>5. KeysIn(Append(q, e)) = Worth(e)
    BY <2>1, <2>3, <2>4
  <2>. QED BY <2>5 DEF q
<1>. QED BY <1>1, <1>2, <1>3

LEMMA ReadsInv ==
    ASSUME Waiting, NEW all \in BOOLEAN, HostReads(all), ~lost'
    PROVE  TypeOK' /\ Busy(all)' /\ ~host'.resetting
<1>1. TypeOK /\ host \in Host /\ ~host.resetting /\ lost \in BOOLEAN
  BY DEF Waiting, KeysInv, TypeOK, HostReads
<1>2. host.sent = <<>>
  <2>1. host.sent \in Seq(BOOLEAN) /\ Len(host.sent) < 1
    BY <1>1 DEF Host, HostReads, Waiting
  <2>2. host.sent # <<>> => Len(host.sent) \in Nat \ {0}
    BY <2>1, EmptySeq
  <2>. QED BY <2>1, <2>2
<1>3. Idle
  <2>1. \A b \in BOOLEAN : ~Busy(b)
    BY <1>2 DEF Busy
  <2>. QED BY <1>1, <2>1 DEF Waiting, KeysInv
<1>4. /\ usb = <<>> /\ evtQ = <<>> /\ dongle = <<>> /\ host.counted = 0
      /\ usb' = <<>> /\ keys' = keys /\ readAll' = all
      /\ dongle' = Append(dongle, [all |-> all, said |-> FALSE])
      /\ host' = [host EXCEPT !.sent = Append(host.sent, all), !.answer = <<>>]
  BY <1>3 DEF Idle, HostReads, Requested
<1>5. /\ dongle' = <<[all |-> all, said |-> FALSE]>> /\ dongle' \in Seq(Asked)
      /\ dongle' # <<>> /\ Len(dongle') = 1 /\ dongle'[1].all = all /\ ~dongle'[1].said
  <2> DEFINE a == [all |-> all, said |-> FALSE]
  <2>1. a \in Asked /\ a.all = all /\ ~a.said
    BY DEF Asked
  <2>2. dongle' = <<a>>
    BY <1>4
  <2> HIDE DEF a
  <2>3. dongle' \in Seq(Asked) /\ Len(dongle') = 1 /\ dongle'[1] = a /\ dongle' # <<>>
    BY <2>1, <2>2
  <2>. QED BY <2>1, <2>2, <2>3 DEF a
<1>6. /\ host' \in Host /\ host'.sent = <<all>> /\ host'.answer = <<>>
      /\ host'.counted = 0 /\ ~host'.resetting
  <2> DEFINE s == Append(host.sent, all)
             S == Seq(BOOLEAN)
             A == Seq(Answer)
             q == <<>>
  <2>1. s = <<all>> /\ s \in S /\ q \in A
    BY <1>2
  <2>2. host \in [sent : S, counted : Nat, resetting : BOOLEAN, answer : A]
    BY <1>1 DEF Host
  <2>3. host' = [host EXCEPT !.sent = s, !.answer = q]
    BY <1>4
  <2> HIDE DEF s, S, A, q
  <2>4. [host EXCEPT !.sent = s, !.answer = q]
           \in [sent : S, counted : Nat, resetting : BOOLEAN, answer : A]
    BY <2>1, <2>2
  <2>5. /\ host'.sent = s /\ host'.answer = q /\ host'.counted = host.counted
        /\ host'.resetting = host.resetting
    BY <2>2, <2>3
  <2>6. host' \in [sent : S, counted : Nat, resetting : BOOLEAN, answer : A]
    BY <2>3, <2>4
  <2>. QED BY <1>1, <1>4, <2>1, <2>5, <2>6 DEF Host, S, A, q
<1>7. /\ evtQ' \in Seq(Event)
      /\ KeysIn(evtQ') = IF all THEN Fakes ELSE 0
      /\ \A i \in DOMAIN evtQ' : evtQ'[i].type = "keys"
      /\ Len(evtQ') <= 1
  <2>1. CASE all
    <3>1. Send(Keys(Fakes))
      BY <2>1 DEF HostReads
    <3>2. Keys(Fakes) \in Event /\ Keys(Fakes).type = "keys" /\ Worth(Keys(Fakes)) = Fakes
      BY EventTypes DEF Waiting
    <3>3. evtQ' \in Seq(Event) /\ evtQ' = Append(<<>>, Keys(Fakes))
      BY <1>1, <1>4, <3>1, <3>2, SendType DEF Waiting
    <3>4. KeysIn(evtQ') = Fakes
      BY <3>2, <3>3, NothingGiven
    <3>5. evtQ' = <<Keys(Fakes)>>
      BY <3>3
    <3>6. Len(evtQ') = 1 /\ DOMAIN evtQ' = {1} /\ evtQ'[1] = Keys(Fakes)
      BY <3>5
    <3>. QED BY <2>1, <3>2, <3>3, <3>4, <3>6
  <2>2. CASE ~all
    <3>1. evtQ' = <<>>
      BY <1>4, <2>2 DEF HostReads
    <3>. QED BY <2>2, <3>1, NothingGiven
  <2>. QED BY <2>1, <2>2
<1>8. TypeOK'
  BY <1>1, <1>4, <1>5, <1>6, <1>7 DEF TypeOK
<1>9. Given' = IF all THEN Fakes ELSE 0
  <2>1. Fakes \in Nat
    BY DEF Waiting, LinkKeysAssumption
  <2>. QED BY <1>4, <1>6, <1>7, <2>1, NothingGiven DEF Given
<1>10. Due(all)'
  <2>1. Fakes \in Nat /\ ~HasSaid'
    BY <1>5 DEF HasSaid, Waiting, LinkKeysAssumption
  <2>. QED BY <1>5, <1>9, <2>1 DEF Due
<1>11. Without("reset_done")' /\ Without("complete")'
  BY <1>4, <1>7 DEF Without
<1>12. (Len(evtQ) + Len(usb) <= 1)'
  <2>1. Len(evtQ') \in Nat
    BY <1>7, LenProperties
  <2>. QED BY <1>4, <1>7, <2>1, NothingGiven
<1>13. Busy(all)'
  BY <1>4, <1>5, <1>6, <1>10, <1>11, <1>12 DEF Busy
<1>. QED BY <1>6, <1>8, <1>13

LEMMA ResetsInv ==
    ASSUME Waiting, HostResets
    PROVE  TypeOK' /\ Resetting' /\ host'.resetting
<1>1. TypeOK /\ ~host.resetting
  BY DEF Waiting, KeysInv, TypeOK, HostResets
<1>2. /\ readAll' = FALSE /\ dongle' = <<>> /\ usb' = Append(usb, ResetDone)
      /\ host' = [sent |-> <<>>, counted |-> 0, resetting |-> TRUE, answer |-> <<>>]
      /\ keys' = keys /\ evtQ' = evtQ
  BY DEF HostResets
<1>3. /\ host' \in Host /\ host'.sent = <<>> /\ host'.answer = <<>>
      /\ host'.counted = 0 /\ host'.resetting
  <2>1. <<>> \in Seq(BOOLEAN) /\ <<>> \in Seq(Answer)
    OBVIOUS
  <2>. QED BY <1>2, <2>1 DEF Host
<1>4. usb \in Seq(Event) /\ ResetDone \in Event /\ ResetDone.type = "reset_done"
  BY <1>1, EventTypes DEF TypeOK, Waiting
<1>5. /\ usb' \in Seq(Event) /\ usb' # <<>> /\ Len(usb) \in Nat /\ Len(usb') = Len(usb) + 1
      /\ usb'[Len(usb')] = ResetDone
      /\ \A i \in DOMAIN usb : i \in 1..Len(usb) /\ usb'[i] = usb[i]
      /\ DOMAIN usb' = DOMAIN usb \cup {Len(usb')}
  BY <1>2, <1>4, Appended
<1>6. TypeOK'
  <2>1. <<>> \in Seq(Asked)
    OBVIOUS
  <2>. QED BY <1>1, <1>2, <1>3, <1>5, <2>1 DEF TypeOK
<1>7. Without("reset_done")
  <2>1. CASE Idle
    BY <2>1, NothingGiven DEF Idle, Without
  <2>. QED BY <1>1, <2>1 DEF Waiting, KeysInv, Busy
<1>8. EndsWith("reset_done")'
  BY <1>2, <1>4, <1>5, <1>7 DEF EndsWith, Without
<1>. QED BY <1>2, <1>3, <1>6, <1>8 DEF Resetting

\* The dongle speaks: e is the next of its events, and d what it has left to do.
LEMMA Speaks ==
    ASSUME Waiting, NEW all \in BOOLEAN, Busy(all), ~host.resetting, dongle # <<>>,
           NEW e \in Event, usb' = Append(usb, e), dongle' \in Seq(Asked),
           UNCHANGED <<readAll, keys, evtQ, lost, host>>,
           dongle' = <<>> => e.type = "complete",
           dongle' # <<>> =>
              /\ ~dongle[1].said /\ e.type = "keys"
              /\ Len(dongle') = 1 /\ dongle'[1].all = all /\ dongle'[1].said,
           e.type = "keys" => e.n = IF all THEN keys ELSE 1,
           e.type = "complete" => e.n \in Nat /\ Given = e.n + (IF all THEN Fakes ELSE 0),
           e.type = "complete" => IF all THEN e.n = keys ELSE e.n <= 1
    PROVE  TypeOK' /\ Busy(all)'
<1>1. /\ TypeOK /\ usb \in Seq(Event) /\ evtQ \in Seq(Event) /\ keys \in Nat
      /\ host.counted \in Nat /\ dongle[1] \in Asked /\ Fakes \in Nat
  BY OneAsked DEF Waiting, KeysInv, TypeOK, Host, LinkKeysAssumption
<1>2. /\ Len(usb) \in Nat /\ Len(evtQ) \in Nat
      /\ Len(evtQ) + Len(usb) <= IF dongle[1].said THEN 2 ELSE 1
      /\ Without("complete") /\ Without("reset_done")
      /\ Due(all)
  BY <1>1, LenProperties DEF Busy
<1>3. Len(usb) <= 2 /\ Len(evtQ) <= 2
  BY <1>2
<1>4. /\ usb' \in Seq(Event) /\ usb' # <<>> /\ Len(usb') = Len(usb) + 1
      /\ usb'[Len(usb')] = e
      /\ \A i \in DOMAIN usb : i \in 1..Len(usb) /\ usb'[i] = usb[i]
      /\ DOMAIN usb' = DOMAIN usb \cup {Len(usb')}
  BY <1>1, Appended
<1>5. KeysIn(usb') = KeysIn(usb) + Worth(e) /\ KeysIn(usb) \in Nat /\ Worth(e) \in Nat
  <2>1. Worth(e) \in Nat
    BY DEF Worth, Event
  <2>. QED BY <1>1, <1>3, <2>1, KeysAppended
<1>6. KeysIn(evtQ) \in Nat
  BY <1>1, <1>3, KeysAppended
<1>7. Given' = Given + Worth(e) /\ Given \in Nat
  <2> DEFINE a == host.counted
             b == KeysIn(evtQ)
             c == KeysIn(usb)
             n == Worth(e)
  <2>1. Given = a + b + c /\ Given' = a + b + KeysIn(usb')
    BY Zenon DEF Given
  <2>2. a \in Nat /\ b \in Nat /\ c \in Nat /\ n \in Nat /\ KeysIn(usb') = c + n
    BY <1>1, <1>5, <1>6, Zenon
  <2> HIDE DEF a, b, c, n
  <2>3. Given' = Given + n /\ Given \in Nat
    BY <2>1, <2>2
  <2>. QED BY <2>3 DEF n
<1>8. TypeOK'
  BY <1>1, <1>4 DEF TypeOK
<1>9. (dongle' = <<>> <=> e.type = "complete") /\ (dongle' # <<>> <=> e.type = "keys")
  OBVIOUS
<1>10. Due(all)'
  <2>1. CASE dongle' = <<>>
    <3>1. Given' = Given
      BY <1>7, <1>9, <2>1 DEF Worth
    <3>2. HasSaid'
      BY <2>1 DEF HasSaid
    <3>3. Given = e.n + (IF all THEN Fakes ELSE 0) /\ e.n \in Nat
          /\ IF all THEN e.n = keys ELSE e.n <= 1
      BY <1>9, <2>1
    <3>. QED BY <1>1, <2>1, <3>1, <3>2, <3>3 DEF Due
  <2>2. CASE dongle' # <<>>
    <3>1. Worth(e) = IF all THEN keys ELSE 1
      BY <1>9, <2>2 DEF Worth
    <3>2. HasSaid' /\ ~HasSaid /\ dongle'[1].said
      BY <2>2 DEF HasSaid
    <3>3. Given = IF all THEN Fakes ELSE 0
      BY <1>1, <1>2, <2>2, <3>2 DEF Due
    <3>. QED BY <1>1, <1>7, <2>2, <3>1, <3>2, <3>3 DEF Due
  <2>. QED BY <2>1, <2>2
<1>11. Without("reset_done")'
  BY <1>2, <1>4, <1>9 DEF Without
<1>12. CASE dongle' = <<>>
  <2>1. EndsWith("complete")'
    BY <1>2, <1>4, <1>9, <1>12 DEF EndsWith, Without
  <2>2. (Len(evtQ) + Len(usb) <= 3)'
    BY <1>2, <1>4
  <2>3. Given' = Given
    BY <1>7, <1>9, <1>12 DEF Worth
  <2>4. \A i \in DOMAIN usb' : usb'[i].type = "complete" =>
           Given' = usb'[i].n + (IF all THEN Fakes ELSE 0)
    BY <1>2, <1>4, <1>9, <1>12, <2>3 DEF Without
  <2>5. \A i \in DOMAIN evtQ' : evtQ'[i].type = "complete" => Given' = evtQ'[i].n
    BY <1>2 DEF Without
  <2>. QED BY <1>8, <1>10, <1>11, <1>12, <2>1, <2>2, <2>4, <2>5 DEF Busy
<1>13. CASE dongle' # <<>>
  <2>1. Without("complete")'
    BY <1>2, <1>4, <1>9, <1>13 DEF Without
  <2>2. (Len(evtQ) + Len(usb) <= 2)'
    BY <1>2, <1>4, <1>13
  <2>. QED BY <1>8, <1>10, <1>11, <1>13, <2>1, <2>2 DEF Busy
<1>. QED BY <1>12, <1>13

LEMMA BusyDongle ==
    ASSUME Waiting, dongle # <<>>
    PROVE  ~host.resetting /\ \E all \in BOOLEAN :
              /\ Busy(all) /\ Len(dongle) = 1 /\ dongle[1].all = all
              /\ dongle[1] \in Asked /\ Head(dongle) = dongle[1] /\ Tail(dongle) = <<>>
<1>1. TypeOK /\ ~host.resetting /\ \E all \in BOOLEAN : Busy(all)
  BY DEF Waiting, KeysInv, Resetting, Idle
<1>2. PICK all \in BOOLEAN : Busy(all)
  BY <1>1
<1>3. Len(dongle) = 1 /\ dongle[1].all = all
  BY <1>2 DEF Busy
<1>. QED BY <1>1, <1>2, <1>3, OneAsked

LEMMA SaysInv ==
    ASSUME Waiting, NEW n \in Stored \cup {1}, DongleSays(n)
    PROVE  TypeOK' /\ ~host'.resetting /\ \E all \in BOOLEAN : Busy(all)'
<1>1. PICK all \in BOOLEAN :
         /\ Busy(all) /\ Len(dongle) = 1 /\ dongle[1].all = all
         /\ dongle[1] \in Asked /\ Head(dongle) = dongle[1] /\ Tail(dongle) = <<>>
  BY BusyDongle DEF DongleSays
<1>2. TypeOK /\ ~host.resetting /\ dongle # <<>> /\ keys \in Nat /\ Fakes \in Nat
  BY BusyDongle DEF DongleSays, Waiting, KeysInv, TypeOK, LinkKeysAssumption
<1>3. n \in Nat /\ n <= keys /\ n = IF all THEN keys ELSE 1
  BY <1>1, <1>2 DEF DongleSays, Waiting, LinkKeysAssumption
<1>4. /\ Keys(n) \in Event /\ Keys(n).type = "keys" /\ Keys(n).n = n
      /\ Complete(n) \in Event /\ Complete(n).type = "complete" /\ Complete(n).n = n
  BY <1>3, EventTypes DEF Waiting
<1>5. UNCHANGED <<readAll, keys, evtQ, lost, host>>
  BY DEF DongleSays
<1>6. CASE n > 0 /\ ~dongle[1].said
  <2>1. usb' = Append(usb, Keys(n)) /\ dongle' = [dongle EXCEPT ![1].said = TRUE]
    BY <1>1, <1>6 DEF DongleSays
  <2>2. /\ dongle' \in Seq(Asked) /\ dongle' # <<>> /\ Len(dongle') = 1
        /\ dongle'[1].said /\ dongle'[1].all = all
    BY <1>1, <1>2, <2>1, SaidIs
  <2>. QED BY <1>1, <1>2, <1>3, <1>4, <1>5, <1>6, <2>1, <2>2, Speaks
<1>7. CASE ~(n > 0 /\ ~dongle[1].said)
  <2>1. usb' = Append(usb, Complete(n)) /\ dongle' = <<>> /\ dongle' \in Seq(Asked)
    <3>1. usb' = Append(usb, Complete(n)) /\ dongle' = <<>>
      BY <1>1, <1>7 DEF DongleSays
    <3>2. <<>> \in Seq(Asked)
      OBVIOUS
    <3>. QED BY <3>1, <3>2
  <2>2. Given = n + (IF all THEN Fakes ELSE 0)
    <3>1. Due(all) /\ (HasSaid <=> dongle[1].said)
      BY <1>1, <1>2 DEF Busy, HasSaid
    <3>2. CASE dongle[1].said
      BY <1>2, <1>3, <3>1, <3>2 DEF Due
    <3>3. CASE ~dongle[1].said
      <4>1. n = 0 /\ all /\ keys = 0
        BY <1>3, <1>7, <3>3
      <4>2. Given = Fakes
        BY <1>2, <3>1, <3>3, <4>1 DEF Due
      <4>. QED BY <1>2, <4>1, <4>2
    <3>. QED BY <3>2, <3>3
  <2>. QED BY <1>1, <1>2, <1>3, <1>4, <1>5, <2>1, <2>2, Speaks
<1>. QED BY <1>6, <1>7

LEMMA HasNoneInv ==
    ASSUME Waiting, DongleHasNone
    PROVE  TypeOK' /\ ~host'.resetting /\ \E all \in BOOLEAN : Busy(all)'
<1>1. PICK all \in BOOLEAN :
         /\ Busy(all) /\ Len(dongle) = 1 /\ dongle[1].all = all
         /\ dongle[1] \in Asked /\ Head(dongle) = dongle[1] /\ Tail(dongle) = <<>>
  BY BusyDongle DEF DongleHasNone
<1>2. TypeOK /\ ~host.resetting /\ dongle # <<>>
  BY BusyDongle DEF DongleHasNone, Waiting, KeysInv
<1>3. ~all /\ ~dongle[1].said
  BY <1>1 DEF DongleHasNone
<1>4. Complete(0) \in Event /\ Complete(0).type = "complete" /\ Complete(0).n = 0
  BY EventTypes DEF Waiting
<1>5. UNCHANGED <<readAll, keys, evtQ, lost, host>>
  BY DEF DongleHasNone
<1>6. usb' = Append(usb, Complete(0)) /\ dongle' = <<>> /\ dongle' \in Seq(Asked)
  <2>1. usb' = Append(usb, Complete(0)) /\ dongle' = <<>>
    BY <1>1 DEF DongleHasNone
  <2>2. <<>> \in Seq(Asked)
    OBVIOUS
  <2>. QED BY <2>1, <2>2
<1>7. Given = 0
  BY <1>1, <1>2, <1>3 DEF Busy, Due
<1> DEFINE e == Complete(0)
<1>8. /\ e \in Event /\ e.type = "complete" /\ e.n \in Nat /\ e.n <= 1
      /\ Given = e.n + (IF all THEN Fakes ELSE 0)
  BY <1>3, <1>4, <1>7
<1>9. usb' = Append(usb, e)
  BY <1>6
<1> HIDE DEF e
<1>10. TypeOK' /\ Busy(all)'
  BY <1>1, <1>2, <1>3, <1>5, <1>6, <1>8, <1>9, Speaks
<1>. QED BY <1>2, <1>5, <1>10

\* An event goes from the dongle's queue to that of the host.
LEMMA Moves ==
    ASSUME TypeOK, usb # <<>>, NEW e \in Event, e.type = Head(usb).type,
           evtQ' = Append(evtQ, e), usb' = Tail(usb), NEW type
    PROVE  /\ EndsWith(type) => EndsWith(type)'
           /\ Without(type) => Without(type)'
<1>1. /\ usb' \in Seq(Event) /\ Head(usb) = usb[1] /\ usb[1] \in Event
      /\ Len(usb) \in Nat \ {0} /\ Len(usb') = Len(usb) - 1
      /\ usb' = <<>> <=> Len(usb) = 1
      /\ DOMAIN usb = 1..Len(usb) /\ DOMAIN usb' = 1..Len(usb')
      /\ \A i \in 1..Len(usb') : usb'[i] = usb[i + 1]
  BY Taken DEF TypeOK
<1>2. /\ evtQ' \in Seq(Event) /\ evtQ' # <<>>
      /\ Len(evtQ) \in Nat /\ Len(evtQ') = Len(evtQ) + 1 /\ evtQ'[Len(evtQ')] = e
      /\ \A i \in DOMAIN evtQ : i \in 1..Len(evtQ) /\ evtQ'[i] = evtQ[i]
      /\ DOMAIN evtQ' = DOMAIN evtQ \cup {Len(evtQ')}
  BY Appended DEF TypeOK
<1>3. \A i \in DOMAIN usb' : i + 1 \in DOMAIN usb /\ usb'[i] = usb[i + 1]
                             /\ (i = Len(usb') <=> i + 1 = Len(usb))
  BY <1>1
<1>4. 1 \in DOMAIN usb
  BY <1>1
<1>5. ASSUME EndsWith(type)
      PROVE  EndsWith(type)'
  <2>1. \A i \in DOMAIN usb' : usb'[i].type = type <=> i = Len(usb')
    BY <1>3, <1>5 DEF EndsWith
  <2>2. e.type = type <=> usb' = <<>>
    BY <1>1, <1>4, <1>5 DEF EndsWith
  <2>3. \A i \in DOMAIN evtQ : evtQ'[i].type # type /\ i # Len(evtQ')
    BY <1>2, <1>5 DEF EndsWith
  <2>. QED BY <1>2, <2>1, <2>2, <2>3 DEF EndsWith
<1>6. ASSUME Without(type)
      PROVE  Without(type)'
  BY <1>1, <1>2, <1>3, <1>4, <1>6 DEF Without
<1>. QED BY <1>5, <1>6

LEMMA EventInv ==
    ASSUME Waiting, OH1Event, ~lost'
    PROVE  TypeOK' /\ host' = host
           /\ IF host.resetting THEN Resetting' ELSE \E all \in BOOLEAN : Busy(all)'
<1> DEFINE h == Head(usb)
           e == Patched(h)
<1>1. /\ TypeOK /\ usb # <<>> /\ usb' = Tail(usb) /\ Send(e)
      /\ UNCHANGED <<readAll, keys, dongle, host>> /\ lost \in BOOLEAN
      /\ LinkKeysAssumption
  BY DEF Waiting, KeysInv, OH1Event
<1>2. /\ usb' \in Seq(Event) /\ h = usb[1] /\ h \in Event
      /\ Len(usb) \in Nat \ {0} /\ Len(usb') = Len(usb) - 1
      /\ usb' = <<>> <=> Len(usb) = 1
      /\ DOMAIN usb = 1..Len(usb)
  BY <1>1, Taken DEF TypeOK
<1>3. /\ e \in Event /\ e.type = h.type /\ Worth(e) = Worth(h)
      /\ e.type = "keys" \/ ~readAll => e = h
      /\ h.type = "complete" /\ readAll => h.n \in Nat /\ e = Complete(h.n + Fakes)
  BY <1>1, <1>2, PatchedType
<1> HIDE DEF e
<1>4. evtQ' = Append(evtQ, e) /\ evtQ' \in Seq(Event)
  BY <1>1, <1>3, SendType
<1>5. TypeOK'
  BY <1>1, <1>2, <1>4 DEF TypeOK
<1>6. \A type : /\ EndsWith(type) => EndsWith(type)'
                /\ Without(type) => Without(type)'
  BY <1>1, <1>3, <1>4, Moves
<1>7. CASE host.resetting
  <2>1. Resetting
    BY <1>7 DEF Waiting, KeysInv
  <2>. QED BY <1>1, <1>5, <1>6, <1>7, <2>1 DEF Resetting
<1>8. ASSUME ~host.resetting, NEW all \in BOOLEAN, Busy(all)
      PROVE  Busy(all)'
  <2>1. /\ evtQ \in Seq(Event) /\ Len(evtQ) \in Nat /\ evtQ' # <<>>
        /\ Len(evtQ') = Len(evtQ) + 1 /\ evtQ'[Len(evtQ')] = e
        /\ \A i \in DOMAIN evtQ : i \in 1..Len(evtQ) /\ evtQ'[i] = evtQ[i]
        /\ DOMAIN evtQ' = DOMAIN evtQ \cup {Len(evtQ')}
    BY <1>1, <1>3, <1>4, Appended DEF TypeOK
  <2>2. Len(evtQ) + Len(usb) <= 3
    BY <1>2, <1>8, <2>1 DEF Busy
  <2>3. /\ KeysIn(evtQ') = KeysIn(evtQ) + Worth(e) /\ KeysIn(evtQ) \in Nat
        /\ KeysIn(usb') + Worth(h) = KeysIn(usb) /\ KeysIn(usb') \in Nat /\ Worth(h) \in Nat
    <3>1. Len(evtQ) <= 2 /\ Len(usb) <= 3
      BY <1>2, <2>1, <2>2
    <3>. QED BY <1>1, <1>2, <1>3, <1>4, <2>1, <3>1, KeysAppended, KeysTaken DEF TypeOK
  <2>4. Given' = Given
    <3>1. host.counted \in Nat /\ host' = host
      BY <1>1 DEF TypeOK, Host
    <3>. QED BY <1>3, <2>3, <3>1 DEF Given
  <2>5. Due(all)'
    <3>1. Due(all) /\ dongle' = dongle /\ keys' = keys /\ (HasSaid' <=> HasSaid)
      BY <1>1, <1>8 DEF Busy, HasSaid
    <3>. QED BY <2>4, <3>1 DEF Due
  <2>6. Len(evtQ') + Len(usb') = Len(evtQ) + Len(usb)
    BY <1>2, <2>1
  <2>7. CASE dongle = <<>>
    <3>1. EndsWith("complete")
      BY <1>8, <2>7 DEF Busy
    <3>2. EndsWith("complete")'
      BY <1>6, <3>1
    <3>3. \A i \in DOMAIN usb' : usb'[i].type = "complete" =>
             Given' = usb'[i].n + (IF all THEN Fakes ELSE 0)
      <4>1. \A i \in DOMAIN usb' : i + 1 \in DOMAIN usb /\ usb'[i] = usb[i + 1]
        BY <1>1, <1>2, Taken DEF TypeOK
      <4>. QED BY <1>8, <2>4, <2>7, <4>1 DEF Busy
    <3>4. e.type = "complete" => Given' = e.n
      <4>1. h.type = "complete" => Given = h.n + (IF all THEN Fakes ELSE 0) /\ h.n \in Nat
        <5>1. 1 \in DOMAIN usb
          BY <1>2
        <5>2. h.type = "complete" => h.n \in Nat
          BY <1>2 DEF Event
        <5>. QED BY <1>2, <1>8, <2>7, <5>1, <5>2 DEF Busy
      <4>2. h.type = "complete" => e.n = h.n + (IF all THEN Fakes ELSE 0)
        <5>1. readAll = all
          BY <1>8 DEF Busy
        <5>2. ASSUME h.type = "complete", all
              PROVE  e.n = h.n + Fakes
          BY <1>3, <5>1, <5>2 DEF Complete
        <5>3. ASSUME h.type = "complete", ~all
              PROVE  e.n = h.n
          BY <1>3, <5>1, <5>3
        <5>4. h.type = "complete" => h.n + 0 = h.n
          BY <4>1
        <5>. QED BY <5>2, <5>3, <5>4
      <4>. QED BY <1>3, <2>4, <4>1, <4>2
    <3>5. \A i \in DOMAIN evtQ : evtQ[i].type # "complete"
      BY <1>1, <3>1 DEF EndsWith
    <3>6. \A i \in DOMAIN evtQ' : evtQ'[i].type = "complete" => Given' = evtQ'[i].n
      BY <2>1, <3>4, <3>5
    <3>. QED BY <1>1, <1>6, <1>8, <2>2, <2>5, <2>6, <2>7, <3>2, <3>3, <3>6 DEF Busy
  <2>8. CASE dongle # <<>>
    BY <1>1, <1>6, <1>8, <2>5, <2>6, <2>8 DEF Busy
  <2>. QED BY <2>7, <2>8
<1>9. ~Idle
  BY <1>1 DEF Idle
<1>. QED BY <1>1, <1>5, <1>7, <1>8, <1>9 DEF Waiting, KeysInv

LEMMA ReadInv ==
    ASSUME Waiting, HostRead
    PROVE  KeysInv'
<1> DEFINE e == Head(evtQ)
<1>1. /\ TypeOK /\ evtQ # <<>> /\ evtQ' = Tail(evtQ) /\ host' = Counts(host, e)
      /\ UNCHANGED <<readAll, keys, dongle, usb, lost>> /\ lost \in BOOLEAN
      /\ LinkKeysAssumption /\ host \in Host
  BY DEF Waiting, KeysInv, HostRead, TypeOK
<1>2. /\ evtQ' \in Seq(Event) /\ e = evtQ[1] /\ e \in Event
      /\ Len(evtQ) \in Nat \ {0} /\ Len(evtQ') = Len(evtQ) - 1
      /\ evtQ' = <<>> <=> Len(evtQ) = 1
      /\ DOMAIN evtQ = 1..Len(evtQ) /\ DOMAIN evtQ' = 1..Len(evtQ')
      /\ \A i \in 1..Len(evtQ') : evtQ'[i] = evtQ[i + 1]
  BY <1>1, Taken DEF TypeOK
<1>3. /\ 1 \in DOMAIN evtQ
      /\ \A i \in DOMAIN evtQ' : /\ i + 1 \in DOMAIN evtQ /\ evtQ'[i] = evtQ[i + 1]
                                 /\ i = Len(evtQ') <=> i + 1 = Len(evtQ)
  BY <1>2
<1> HIDE DEF e
<1>4. \A type : /\ EndsWith(type) /\ e.type # type => EndsWith(type)'
                /\ EndsWith(type) /\ e.type = type => evtQ' = <<>> /\ usb' = <<>>
                /\ Without(type) => Without(type)'
  <2> SUFFICES ASSUME NEW type
               PROVE  /\ EndsWith(type) /\ e.type # type => EndsWith(type)'
                      /\ EndsWith(type) /\ e.type = type => evtQ' = <<>> /\ usb' = <<>>
                      /\ Without(type) => Without(type)'
    OBVIOUS
  <2>1. ASSUME EndsWith(type), e.type # type
        PROVE  EndsWith(type)'
    BY <1>1, <1>2, <1>3, <2>1 DEF EndsWith
  <2>2. ASSUME EndsWith(type), e.type = type
        PROVE  evtQ' = <<>> /\ usb' = <<>>
    BY <1>1, <1>2, <1>3, <2>2 DEF EndsWith
  <2>3. Without(type) => Without(type)'
    BY <1>1, <1>3 DEF Without
  <2>. QED BY <2>1, <2>2, <2>3
<1>5. CASE host.resetting /\ e.type # "reset_done"
  <2>1. host' = host /\ Resetting
    BY <1>1, <1>5 DEF Counts, Waiting, KeysInv
  <2>. QED BY <1>1, <1>2, <1>4, <1>5, <2>1 DEF Resetting, KeysInv, TypeOK
<1>6. CASE host.resetting /\ e.type = "reset_done"
  <2>1. Resetting /\ host.answer = <<>>
    BY <1>6 DEF Waiting, KeysInv, Resetting
  <2>2. host' = [host EXCEPT !.resetting = FALSE]
    BY <1>1, <1>6 DEF Counts
  <2>3. /\ host' \in Host /\ ~host'.resetting /\ host'.sent = <<>>
        /\ host'.counted = 0 /\ host'.answer = <<>>
    <3> DEFINE S == Seq(BOOLEAN)
               A == Seq(Answer)
    <3>1. host \in [sent : S, counted : Nat, resetting : BOOLEAN, answer : A]
      BY <1>1 DEF Host
    <3> HIDE DEF S, A
    <3>2. [host EXCEPT !.resetting = FALSE]
             \in [sent : S, counted : Nat, resetting : BOOLEAN, answer : A]
      BY <3>1
    <3>3. /\ ~host'.resetting /\ host'.sent = host.sent /\ host'.counted = host.counted
          /\ host'.answer = host.answer
      BY <2>2, <3>1
    <3>. QED BY <2>1, <2>2, <3>2, <3>3 DEF Resetting, Host, S, A
  <2>4. evtQ' = <<>> /\ usb' = <<>>
    BY <1>4, <1>6, <2>1 DEF Resetting
  <2>5. TypeOK'
    BY <1>1, <1>2, <2>3 DEF TypeOK
  <2>6. Idle'
    BY <1>1, <2>1, <2>3, <2>4 DEF Idle, Resetting
  <2>7. KeysAnnounced'
    BY <2>3 DEF KeysAnnounced
  <2>. QED BY <1>1, <2>3, <2>5, <2>6, <2>7 DEF KeysInv
<1>7. CASE ~host.resetting
  <2>1. ~Idle
    BY <1>1 DEF Idle
  <2>2. PICK all \in BOOLEAN : Busy(all)
    BY <1>7, <2>1 DEF Waiting, KeysInv
  <2>3. e.type # "reset_done"
    BY <1>2, <1>3, <2>2 DEF Busy, Without
  <2>4. e.type \in {"keys", "complete"} /\ e.n \in Nat
    BY <1>2, <2>3 DEF Event
  <2>5. host' \in Host
    <3>1. host.sent # <<>>
      BY <2>2 DEF Busy
    <3>. QED BY <1>1, <1>2, <3>1, CountsType
  <2>6. TypeOK'
    BY <1>1, <1>2, <2>5 DEF TypeOK
  <2>7. /\ Len(usb) \in Nat /\ usb \in Seq(Event) /\ host.counted \in Nat
        /\ Len(evtQ) + Len(usb) <= 3
    BY <1>1, <1>2, <2>2, LenProperties DEF Busy, TypeOK, Host
  <2>8. /\ KeysIn(evtQ') + Worth(e) = KeysIn(evtQ) /\ KeysIn(evtQ') \in Nat
        /\ Worth(e) \in Nat /\ KeysIn(usb) \in Nat
    <3>1. Len(evtQ) <= 3 /\ Len(usb) <= 2
      BY <1>2, <2>7
    <3>. QED BY <1>1, <1>2, <2>7, <3>1, KeysTaken, KeysAppended DEF TypeOK
  <2>9. CASE e.type = "keys"
    <3>1. host' = [host EXCEPT !.counted = @ + e.n, !.answer = <<>>]
      BY <1>1, <1>7, <2>9 DEF Counts
    <3>2. /\ host'.counted = host.counted + e.n /\ host'.answer = <<>>
          /\ host'.sent = host.sent /\ ~host'.resetting
      BY <1>1, <1>7, <3>1 DEF Host
    <3>3. Given' = Given
      BY <1>1, <2>4, <2>7, <2>8, <2>9, <3>2 DEF Given, Worth
    <3>4. Due(all)'
      <4>1. Due(all) /\ dongle' = dongle /\ keys' = keys /\ (HasSaid' <=> HasSaid)
        BY <1>1, <2>2 DEF Busy, HasSaid
      <4>. QED BY <3>3, <4>1 DEF Due
    <3>5. Len(evtQ') + Len(usb') <= Len(evtQ) + Len(usb) - 1
      BY <1>1, <1>2, <2>7
    <3>6. Len(evtQ') \in Nat
      BY <1>2, LenProperties
    <3>7. CASE dongle = <<>>
      <4>1. EndsWith("complete")'
        BY <1>4, <2>2, <2>9, <3>7 DEF Busy
      <4>2. Len(evtQ') + Len(usb') <= 3
        BY <1>1, <1>2, <2>7, <3>5, <3>6
      <4>3. \A i \in DOMAIN usb' : usb'[i].type = "complete" =>
               Given' = usb'[i].n + (IF all THEN Fakes ELSE 0)
        BY <1>1, <2>2, <3>3, <3>7 DEF Busy
      <4>4. \A i \in DOMAIN evtQ' : evtQ'[i].type = "complete" => Given' = evtQ'[i].n
        BY <1>3, <2>2, <3>3, <3>7 DEF Busy
      <4>5. Without("reset_done")'
        BY <1>4, <2>2 DEF Busy
      <4>6. Busy(all)'
        BY <1>1, <2>2, <3>2, <3>4, <3>7, <4>1, <4>2, <4>3, <4>4, <4>5 DEF Busy
      <4>. QED BY <1>1, <2>6, <3>2, <4>6 DEF KeysInv
    <3>8. CASE dongle # <<>>
      <4>1. Without("complete")' /\ Without("reset_done")'
        BY <1>4, <2>2, <3>8 DEF Busy
      <4>2. Len(evtQ') + Len(usb') <= IF dongle[1].said THEN 2 ELSE 1
        BY <1>1, <1>2, <2>2, <2>7, <3>5, <3>6, <3>8 DEF Busy
      <4>3. Busy(all)'
        BY <1>1, <2>2, <3>2, <3>4, <3>8, <4>1, <4>2 DEF Busy
      <4>. QED BY <1>1, <2>6, <3>2, <4>3 DEF KeysInv
    <3>. QED BY <3>7, <3>8
  <2>10. CASE e.type = "complete"
    <3>1. dongle = <<>>
      BY <1>2, <1>3, <2>2, <2>10 DEF Busy, Without
    <3>2. evtQ' = <<>> /\ usb' = <<>>
      BY <1>4, <2>2, <2>10, <3>1 DEF Busy
    <3>3. Given = e.n
      BY <1>2, <1>3, <2>2, <2>10, <3>1 DEF Busy
    <3>4. Given = host.counted
      <4>1. KeysIn(evtQ') = 0 /\ KeysIn(usb) = 0
        BY <1>1, <3>2, NothingGiven
      <4>2. Worth(e) = 0
        BY <2>10 DEF Worth
      <4>. QED BY <2>7, <2>8, <4>1, <4>2 DEF Given
    <3>5. IF all THEN e.n = keys + Fakes ELSE e.n <= 1
      <4>1. Due(all) /\ HasSaid /\ keys \in Nat /\ Fakes \in Nat
        BY <1>1, <2>2, <3>1 DEF Busy, HasSaid, TypeOK, LinkKeysAssumption
      <4>. QED BY <3>1, <3>3, <4>1 DEF Due
    <3> DEFINE a == [all |-> Head(host.sent), told |-> e.n, counted |-> host.counted]
    <3>6. host' = [host EXCEPT !.sent = Tail(host.sent), !.counted = 0, !.answer = <<a>>]
      BY <1>1, <1>7, <2>10 DEF Counts
    <3>7. Tail(host.sent) = <<>> /\ Head(host.sent) = all
      BY <2>2 DEF Busy
    <3>8. a.all = all /\ a.told = e.n /\ a.counted = e.n
      BY <3>3, <3>4, <3>7
    <3> HIDE DEF a
    <3>9. /\ host'.sent = <<>> /\ host'.counted = 0 /\ ~host'.resetting
          /\ host'.answer = <<a>>
      BY <1>1, <1>7, <3>6, <3>7 DEF Host
    <3>10. Idle'
      BY <1>1, <3>1, <3>2, <3>9 DEF Idle
    <3>11. host'.answer[1] = a
      BY <3>9
    <3>12. KeysAnnounced'
      BY <1>1, <3>5, <3>8, <3>11 DEF KeysAnnounced
    <3>. QED BY <1>1, <2>6, <3>9, <3>10, <3>12 DEF KeysInv
  <2>. QED BY <2>4, <2>9, <2>10
<1>. QED BY <1>5, <1>6, <1>7

-----------------------------------------------------------------------------
(* The invariant, and what follows from it.                                 *)

LEMMA InvInit == ASSUME LinkKeysAssumption, Init PROVE KeysInv
<1>1. TypeOK
  BY TypeInit
<1>2. Idle /\ KeysAnnounced /\ ~host.resetting /\ lost = FALSE
  BY DEF Init, Idle, KeysAnnounced
<1>. QED BY <1>1, <1>2 DEF KeysInv

LEMMA LostForGood ==
    ASSUME lost \in BOOLEAN, Next
    PROVE  lost' \in BOOLEAN /\ (lost => lost')
<1>1. \A e : Send(e) => lost' \in BOOLEAN /\ (lost => lost')
  BY DEF Send
<1>2. (\E e : Send(e)) \/ lost' = lost
  BY DEF Next, HostReads, HostResets, DongleSays, DongleHasNone, OH1Event, HostRead
<1>. QED BY <1>1, <1>2

LEMMA InvNext ==
    ASSUME LinkKeysAssumption, Window = 1, KeysInv, [Next]_vars
    PROVE  KeysInv'
<1>1. CASE UNCHANGED vars
  <2>1. TypeOK' <=> TypeOK
    BY <1>1 DEF vars, TypeOK
  <2>2. Resetting' <=> Resetting
    BY <1>1 DEF vars, Resetting, EndsWith
  <2>3. Idle /\ KeysAnnounced => Idle' /\ KeysAnnounced'
    BY <1>1 DEF vars, Idle, KeysAnnounced
  <2>4. ASSUME NEW all \in BOOLEAN, Busy(all)
        PROVE  Busy(all)'
    <3>1. Due(all) => Due(all)'
      BY <1>1 DEF vars, Due, Given, HasSaid
    <3>2. Given' = Given
      BY <1>1 DEF vars, Given
    <3>. QED BY <1>1, <2>4, <3>1, <3>2 DEF vars, Busy, EndsWith, Without
  <2>. QED BY <1>1, <2>1, <2>2, <2>3, <2>4 DEF vars, KeysInv
<1>2. CASE Next /\ (lost \/ lost')
  <2>1. lost \in BOOLEAN
    BY DEF KeysInv
  <2>2. lost' \in BOOLEAN /\ (lost => lost')
    BY <1>2, <2>1, LostForGood
  <2>. QED BY <1>2, <2>2 DEF KeysInv
<1>3. CASE Next /\ ~lost /\ ~lost'
  <2>1. Waiting /\ lost' = FALSE
    <3>1. lost' \in BOOLEAN
      BY <1>3, LostForGood DEF KeysInv
    <3>. QED BY <1>3, <3>1 DEF Waiting
  <2>2. ASSUME NEW all \in BOOLEAN, HostReads(all)
        PROVE  KeysInv'
    BY <1>3, <2>1, <2>2, ReadsInv DEF KeysInv
  <2>3. CASE HostResets
    BY <2>1, <2>3, ResetsInv DEF KeysInv
  <2>4. ASSUME NEW n \in Stored \cup {1}, DongleSays(n)
        PROVE  KeysInv'
    BY <2>1, <2>4, SaysInv DEF KeysInv
  <2>5. CASE DongleHasNone
    BY <2>1, <2>5, HasNoneInv DEF KeysInv
  <2>6. CASE OH1Event
    BY <1>3, <2>1, <2>6, EventInv DEF KeysInv
  <2>7. CASE HostRead
    BY <2>1, <2>7, ReadInv
  <2>. QED BY <1>3, <2>2, <2>3, <2>4, <2>5, <2>6, <2>7 DEF Next
<1>. QED BY <1>1, <1>2, <1>3

LEMMA InvAnnounced == ASSUME KeysInv PROVE KeysAnnounced
<1>1. CASE lost
  BY <1>1 DEF KeysAnnounced
<1>2. CASE ~lost
  <2>1. KeysAnnounced \/ host.answer = <<>>
    BY <1>2 DEF KeysInv, Resetting, Busy
  <2>. QED BY <2>1 DEF KeysAnnounced
<1>. QED BY <1>1, <1>2

\* The Command Complete event of READ_STORED_LINK_KEY, raised by the number of
\* fake Wiimotes, agrees with the keys that the host was given, whichever command
\* was sent last, whatever was reset, and however many keys the dongle has.
THEOREM Announced ==
    ASSUME LinkKeysAssumption, Window = 1
    PROVE  Spec => []KeysAnnounced
<1>1. Init => KeysInv
  BY InvInit
<1>2. KeysInv /\ [Next]_vars => KeysInv'
  BY InvNext
<1>3. KeysInv => KeysAnnounced
  BY InvAnnounced
<1>. QED BY <1>1, <1>2, <1>3, PTL DEF Spec
================================================================================
