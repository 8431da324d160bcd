--------------------------- MODULE WiimoteHid_proofs ---------------------------
(***************************************************************************)
(* For every layout of the registers and all that a host may send: the key *)
(* a fake Wiimote encrypts with is that of its key data, a read is not     *)
(* torn, its replies are those the host waits for, and controller data are *)
(* of the extension that the host knows of.                                *)
(***************************************************************************)
EXTENDS WiimoteHid, SequenceTheorems, TLAPS

\* What every handler keeps: the types, and a key that is up to date or dirty.
Good == {x \in WiimoteType : ~x.keyDirty => x.key = Key(x.regs)}

-----------------------------------------------------------------------------
(* Registers and key                                                        *)

\* The key data are among the registers, behind the controller data.
LEMMA KeyInAddr ==
    ASSUME NEW i \in 1..(KeyEnd - KeyBegin)
    PROVE  /\ KeyBegin + i - 1 \in Addr
           /\ KeyBegin + i - 1 >= DataSize
           /\ KeyBegin <= KeyBegin + i - 1 /\ KeyBegin + i - 1 < KeyEnd
BY HidAssumption DEF Addr

LEMMA KeyTyped ==
    ASSUME NEW regs \in [Addr -> Byte]
    PROVE  Key(regs) \in {<<"key", d>> : d \in KeyDatas}
<1>1. KeyData(regs) \in KeyDatas
  BY KeyInAddr DEF KeyData, KeyDatas
<1>. QED BY <1>1 DEF Key

\* Registers that agree on the key data have the same key.
LEMMA SameKey ==
    ASSUME NEW r \in [Addr -> Byte], NEW s \in [Addr -> Byte],
           \A a \in Addr : KeyBegin <= a /\ a < KeyEnd => r[a] = s[a]
    PROVE  Key(r) = Key(s)
<1>1. \A i \in 1..(KeyEnd - KeyBegin) : r[KeyBegin + i - 1] = s[KeyBegin + i - 1]
  BY KeyInAddr
<1>2. KeyData(r) = KeyData(s)
  BY <1>1 DEF KeyData
<1>. QED BY <1>2 DEF Key

\* Registers that are reset belong to no key yet.
LEMMA ResetGood ==
    ASSUME NEW x \in WiimoteType
    PROVE  ResetExtension(x) \in Good
<1> DEFINE regs == [a \in Addr |-> IF a = IdAddr THEN IdOf(x.cur)
                                   ELSE IF a < DataSize THEN AtRest(x.cur) ELSE 0]
<1>1. x.cur \in Extensions
  BY DEF WiimoteType
<1>2. IdOf(x.cur) \in Byte /\ AtRest(x.cur) \in Byte /\ 0 \in Byte
  BY <1>1 DEF IdOf, AtRest, Byte, Extensions
<1>3. regs \in [Addr -> Byte]
  BY <1>2
<1> HIDE DEF regs
<1>4. ResetExtension(x) = [x EXCEPT !.regs = regs, !.key = NoKey, !.keyDirty = TRUE]
  BY DEF ResetExtension, regs
<1>. QED BY <1>3, <1>4 DEF Good, WiimoteType

\* Making the key up to date does so, whatever the registers hold.
LEMMA FreshGood ==
    ASSUME NEW x \in Good
    PROVE  /\ FreshKey(x) \in Good
           /\ FreshKey(x).regs = x.regs /\ FreshKey(x).cur = x.cur
<1>1. CASE ~x.keyDirty
  BY <1>1 DEF FreshKey, Good
<1>2. CASE x.keyDirty
  <2>1. Key(x.regs) \in {<<"key", d>> : d \in KeyDatas}
    BY KeyTyped DEF Good, WiimoteType
  <2> DEFINE k == Key(x.regs)
  <2>2. FreshKey(x) = [x EXCEPT !.key = k, !.keyDirty = FALSE]
    BY <1>2 DEF FreshKey
  <2>3. k \in {NoKey} \cup {<<"key", d>> : d \in KeyDatas}
    BY <2>1
  <2> HIDE DEF k
  <2>4. /\ FreshKey(x) \in WiimoteType
        /\ FreshKey(x).key = k
        /\ FreshKey(x).regs = x.regs /\ FreshKey(x).cur = x.cur
    BY <2>2, <2>3 DEF Good, WiimoteType
  <2>. QED BY <2>4 DEF Good, k
<1>. QED BY <1>1, <1>2

LEMMA ReadGood ==
    ASSUME NEW x \in Good
    PROVE  /\ ExtensionRead(x) \in Good
           /\ ExtensionRead(x).regs = x.regs /\ ExtensionRead(x).cur = x.cur
BY FreshGood DEF ExtensionRead

\* A write that the test does not take for one of the key area leaves the key
\* data alone.
LEMMA WriteGood ==
    ASSUME NEW x \in Good, NEW addr \in Nat, NEW bytes \in Seq(Byte)
    PROVE  ExtensionWrite(x, addr, bytes) \in Good
<1> DEFINE n == Len(bytes)
           regs == [a \in Addr |-> IF a \in addr..addr + n - 1
                                   THEN bytes[a - addr + 1] ELSE x.regs[a]]
           dirty == x.keyDirty \/ TouchesKey(addr, n)
<1>1. x \in WiimoteType /\ x.regs \in [Addr -> Byte] /\ x.keyDirty \in BOOLEAN /\ n \in Nat
  BY DEF Good, WiimoteType
<1>2. ASSUME NEW a \in Addr, a \in addr..addr + n - 1 PROVE bytes[a - addr + 1] \in Byte
  <2>1. a - addr + 1 \in 1..n
    BY <1>1, <1>2, HidAssumption DEF Addr
  <2>. QED BY <2>1
<1>3. regs \in [Addr -> Byte]
  BY <1>1, <1>2
<1>4. ExtensionWrite(x, addr, bytes) = [x EXCEPT !.regs = regs, !.keyDirty = dirty]
  BY DEF ExtensionWrite
<1>5. dirty \in BOOLEAN
  BY <1>1 DEF TouchesKey
<1>6. ASSUME ~dirty PROVE Key(regs) = Key(x.regs)
  <2>1. addr + n <= KeyBegin \/ addr >= KeyEnd
    BY <1>1, <1>6, HidAssumption DEF TouchesKey
  <2>2. ASSUME NEW a \in Addr, KeyBegin <= a, a < KeyEnd PROVE regs[a] = x.regs[a]
    BY <1>1, <2>1, <2>2, HidAssumption DEF Addr
  <2> HIDE DEF regs
  <2>. QED BY <1>1, <1>3, <2>2, SameKey
<1>7. ~dirty => x.key = Key(x.regs)
  BY DEF Good
<1> HIDE DEF regs, dirty
<1>. QED BY <1>1, <1>3, <1>4, <1>5, <1>6, <1>7 DEF Good, WiimoteType

\* The controller data lie before the key data.
LEMMA InputGood ==
    ASSUME NEW x \in Good, NEW btn \in {0, 1}, NEW data \in Byte
    PROVE  ReportInput(x, btn, data) \in Good
<1> DEFINE regs == [a \in Addr |-> IF a < DataSize THEN data ELSE x.regs[a]]
<1>1. x \in WiimoteType /\ x.regs \in [Addr -> Byte]
  BY DEF Good, WiimoteType
<1>2. regs \in [Addr -> Byte]
  BY <1>1
<1>3. Key(regs) = Key(x.regs)
  <2>1. ASSUME NEW a \in Addr, KeyBegin <= a, a < KeyEnd PROVE regs[a] = x.regs[a]
    BY <2>1, HidAssumption DEF Addr
  <2> HIDE DEF regs
  <2>. QED BY <1>1, <1>2, <2>1, SameKey
<1>4. \/ ReportInput(x, btn, data) = x
      \/ ReportInput(x, btn, data) = [x EXCEPT !.btn = btn, !.dirty = TRUE, !.regs = regs]
  BY DEF ReportInput
<1> HIDE DEF regs
<1>. QED BY <1>1, <1>2, <1>3, <1>4 DEF Good, WiimoteType

-----------------------------------------------------------------------------
(* Handlers                                                                 *)

\* Parts of the state that say nothing about the registers may change.
LEMMA OtherParts ==
    ASSUME NEW x \in Good, NEW y \in WiimoteType,
           y.regs = x.regs, y.key = x.key, y.keyDirty = x.keyDirty
    PROVE  y \in Good
BY DEF Good

\* A piece is not longer than what is left, and an address stays one.
LEMMA AdvancedTyped ==
    ASSUME NEW rd \in [space : Spaces, addr : Nat, left : Nat], NEW error
    PROVE  Advanced(rd, error) \in [space : Spaces, addr : Nat, left : Nat]
<1>1. PieceOf(rd) \in Nat /\ PieceOf(rd) <= rd.left
  BY HidAssumption DEF PieceOf, Least
<1>2. AddrCount \in Nat \ {0}
  BY HidAssumption
<1>3. (rd.addr + PieceOf(rd)) % AddrCount \in Nat
  BY <1>1, <1>2
<1>4. rd.left - PieceOf(rd) \in Nat
  BY <1>1
<1>. QED BY <1>3, <1>4 DEF Advanced

\* A piece of a read changes neither registers nor extension.
LEMMA ReadPieceGood ==
    ASSUME NEW x \in Good
    PROVE  /\ ReadPiece(x).wii \in Good
           /\ ReadPiece(x).wii.regs = x.regs /\ ReadPiece(x).wii.cur = x.cur
<1> DEFINE rd == x.read
           error == Error(rd.space, rd.addr, PieceOf(rd), rd.left)
           ofExt == rd.space = "ext" /\ error = "success"
           y == IF ofExt THEN ExtensionRead(x) ELSE x
           next == Advanced(rd, error)
<1>1. y \in Good /\ y.regs = x.regs /\ y.cur = x.cur
  BY ReadGood
<1>2. next \in [space : Spaces, addr : Nat, left : Nat]
  BY AdvancedTyped DEF Good, WiimoteType
<1>3. ReadPiece(x).wii = [y EXCEPT !.read = next]
  BY DEF ReadPiece, Result
<1> HIDE DEF y, next
<1>4. [y EXCEPT !.read = next] \in WiimoteType
  BY <1>1, <1>2 DEF Good, WiimoteType
<1>. QED BY <1>1, <1>3, <1>4 DEF Good, WiimoteType

\* An output report of the host, as OutputsAssumption has them.
IsOutput(o) ==
    /\ o.type \in {"status", "feature", "mode", "write", "read"}
    /\ o.type = "mode" => o.mode \in Modes /\ o.cont \in BOOLEAN
    /\ o.type = "write" => o.space \in Spaces /\ o.addr \in Nat /\ o.bytes \in Seq(Byte)
    /\ o.type = "read" => o.space \in Spaces /\ o.addr \in Nat /\ o.size \in Nat

LEMMA StartReadGood ==
    ASSUME NEW x \in Good, NEW o, IsOutput(o), o.type = "read"
    PROVE  StartRead(x, o).wii \in Good
<1> DEFINE y == [x EXCEPT !.read = [space |-> o.space, addr |-> o.addr, left |-> o.size]]
<1>1. y \in WiimoteType /\ y.regs = x.regs /\ y.key = x.key /\ y.keyDirty = x.keyDirty
  BY DEF IsOutput, Good, WiimoteType
<1>2. y \in Good
  BY <1>1, OtherParts
<1>3. \/ StartRead(x, o).wii = x
      \/ StartRead(x, o).wii = y
      \/ StartRead(x, o).wii = ReadPiece(y).wii
  BY DEF StartRead, Result
<1> HIDE DEF y
<1>. QED BY <1>2, <1>3, ReadPieceGood

LEMMA OutputGood ==
    ASSUME NEW x \in Good, NEW o, IsOutput(o)
    PROVE  Output(x, o).wii \in Good
<1>1. CASE o.type \in {"status", "feature"}
  BY <1>1 DEF Output, Result
<1>2. CASE o.type = "mode"
  <2> DEFINE y == [x EXCEPT !.mode = o.mode, !.cont = o.cont]
  <2>1. Output(x, o).wii = y
    BY <1>2 DEF Output, Result
  <2>2. y \in WiimoteType /\ y.regs = x.regs /\ y.key = x.key /\ y.keyDirty = x.keyDirty
    BY <1>2 DEF IsOutput, Good, WiimoteType
  <2>. QED BY <2>1, <2>2, OtherParts
<1>3. CASE o.type = "write"
  <2>1. Output(x, o) = Write(x, o)
    BY <1>3 DEF Output
  <2>2. Write(x, o).wii = x \/ Write(x, o).wii = ExtensionWrite(x, o.addr, o.bytes)
    BY DEF Write, Result
  <2>. QED BY <1>3, <2>1, <2>2, WriteGood DEF IsOutput
<1>4. CASE o.type = "read"
  <2>1. Output(x, o) = StartRead(x, o)
    BY <1>4 DEF Output
  <2>. QED BY <1>4, <2>1, StartReadGood
<1>. QED BY <1>1, <1>2, <1>3, <1>4 DEF IsOutput

\* The types of the gamepad's side.
DevType == [ext : Extensions \ {"none"}, held : BOOLEAN]
PadType == [combo : BOOLEAN, pressed : {0, 1}]

LEMMA ExtensionChangeGood ==
    ASSUME NEW x \in Good
    PROVE  ExtensionChange(x).wii \in Good
<1> DEFINE y == [x EXCEPT !.mode = "disabled",
                          !.cur = IF @ = "none" THEN x.new ELSE "none"]
<1>1. y \in WiimoteType
  BY DEF Good, WiimoteType, Modes, Extensions
<1>2. ExtensionChange(x).wii = ResetExtension(y)
  BY DEF ExtensionChange, Result
<1> HIDE DEF y
<1>. QED BY <1>1, <1>2, ResetGood

LEMMA SendDataGood ==
    ASSUME NEW x \in Good
    PROVE  SendData(x).wii \in Good
<1> DEFINE y == IF x.mode = "btn_ext" THEN ExtensionRead(x) ELSE x
           z == [y EXCEPT !.dirty = FALSE]
<1>1. y \in Good
  BY ReadGood
<1>2. SendData(x).wii = x \/ SendData(x).wii = z
  BY DEF SendData, Result
<1> HIDE DEF y
<1>3. z \in WiimoteType /\ z.regs = y.regs /\ z.key = y.key /\ z.keyDirty = y.keyDirty
  BY <1>1 DEF Good, WiimoteType
<1>4. z \in Good
  BY <1>1, <1>3, OtherParts
<1>. QED BY <1>2, <1>4

LEMMA TickGood ==
    ASSUME NEW x \in Good, NEW d \in DevType, NEW p \in PadType
    PROVE  TickStep(x, d, p).wii \in Good
<1>1. CASE x.read.left > 0
  BY <1>1, ReadPieceGood DEF TickStep
<1>2. CASE ~(x.read.left > 0) /\ x.new # x.cur
  BY <1>2, ExtensionChangeGood DEF TickStep
<1>3. CASE ~(x.read.left > 0) /\ x.new = x.cur
  <2>1. TickStep(x, d, p) = Poll(x, d, p)
    BY <1>3 DEF TickStep
  <2>2. CASE Switches(d, p)
    <3> DEFINE y == [x EXCEPT !.new = Other(d.ext)]
    <3>1. Poll(x, d, p).wii = y
      BY <2>2 DEF Poll, Result
    <3>2. y \in WiimoteType /\ y.regs = x.regs /\ y.key = x.key /\ y.keyDirty = x.keyDirty
      BY DEF Good, WiimoteType, Other, Extensions
    <3>. QED BY <2>1, <3>1, <3>2, OtherParts
  <2>3. CASE ~Switches(d, p)
    <3> DEFINE btn == Buttons(d.ext, p.pressed)
               data == ControllerData(d.ext, p.pressed)
    <3>1. Poll(x, d, p) = SendData(ReportInput(x, btn, data))
      BY <2>3 DEF Poll
    <3>2. btn \in {0, 1} /\ data \in Byte
      BY DEF PadType, Buttons, ControllerData, Byte
    <3> HIDE DEF btn, data
    <3>3. ReportInput(x, btn, data) \in Good
      BY <3>2, InputGood
    <3>. QED BY <2>1, <3>1, <3>3, SendDataGood
  <2>. QED BY <2>2, <2>3
<1>. QED BY <1>1, <1>2, <1>3

\* However a connection begins, the key is to be generated.
LEMMA InitGood ==
    ASSUME NEW x \in WiimoteType
    PROVE  InitState(x) \in Good
<1> DEFINE r == ResetExtension(x)
           y == [r EXCEPT !.cur = "none", !.new = "none", !.mode = "btn",
                          !.cont = FALSE, !.btn = 0, !.dirty = FALSE, !.read.left = 0]
<1>1. r \in Good
  BY ResetGood
<1>2. InitState(x) = y
  BY DEF InitState
<1> HIDE DEF r
<1>3. y \in WiimoteType /\ y.regs = r.regs /\ y.key = r.key /\ y.keyDirty = r.keyDirty
  BY <1>1 DEF Good, WiimoteType, Extensions, Modes
<1>. QED BY <1>1, <1>2, <1>3, OtherParts

-----------------------------------------------------------------------------
(* The invariant                                                            *)

HidInv == wii \in Good /\ dev \in DevType /\ pad \in PadType

LEMMA HidInvInit == Init => HidInv
<1>1. ZeroWiimote \in WiimoteType
  BY DEF ZeroWiimote, WiimoteType, NoRead, Extensions, Modes, Byte, Spaces
<1>2. InitState(ZeroWiimote) \in Good
  BY <1>1, InitGood
<1>. QED BY <1>2 DEF Init, HidInv, DevType, PadType, Extensions

\* Every step keeps the invariant.
LEMMA HidInvNext == HidInv /\ [Next]_vars => HidInv'
<1> SUFFICES ASSUME HidInv, [Next]_vars PROVE HidInv'
  OBVIOUS
<1>1. CASE Tick
  <2>1. wii' = TickStep(wii, dev, pad).wii /\ pad' = pad
    BY <1>1 DEF Tick, Becomes
  <2>2. dev' \in DevType
    BY <1>1 DEF Tick, HidInv, Polled, Other, DevType, PadType, Extensions
  <2>. QED BY <2>1, <2>2, TickGood DEF HidInv
<1>2. ASSUME NEW what \in [combo : BOOLEAN, pressed : {0, 1}], Press(what) PROVE HidInv'
  BY <1>2 DEF Press, HidInv, PadType
<1>3. ASSUME NEW scene \in DOMAIN Outputs, NEW o \in Outputs[scene], HostOutput(o)
      PROVE  HidInv'
  <2>1. IsOutput(o)
    BY OutputsAssumption DEF IsOutput
  <2>2. wii' = Output(wii, o).wii /\ dev' = dev /\ pad' = pad
    BY <1>3 DEF HostOutput, Becomes
  <2>. QED BY <2>1, <2>2, OutputGood DEF HidInv
<1>4. CASE HostRead
  BY <1>4 DEF HostRead, HidInv
<1>5. ASSUME NEW d \in {dev, Added(dev)}, Reconnect(d) PROVE HidInv'
  <2>1. wii' = InitState(wii) /\ dev' = d /\ pad' = pad
    BY <1>5 DEF Reconnect
  <2>2. d \in DevType
    BY DEF HidInv, Added, DevType, Extensions
  <2>3. InitState(wii) \in Good
    BY InitGood DEF HidInv, Good
  <2>. QED BY <2>1, <2>2, <2>3 DEF HidInv
<1>6. CASE UNCHANGED vars
  BY <1>6 DEF vars, HidInv
<1>. QED BY <1>1, <1>2, <1>3, <1>4, <1>5, <1>6 DEF Next

\* The fields of a fake Wiimote and of its gamepad have their types, whatever the
\* host sends to handle_hid_intr_data_output: an address stays one, a read never
\* has less than nothing left.
THEOREM HidTyped == Spec => []HidTypeOK
<1>1. HidInv => HidTypeOK
  BY DEF HidInv, HidTypeOK, Good, DevType, PadType
<1>. QED BY <1>1, HidInvInit, HidInvNext, PTL DEF Spec

\* The key the extension registers are read with is that of the key data, or is
\* marked dirty and generated before the next use (extension_read_data,
\* extension_write_data): for every register layout and whatever the host sends.
THEOREM KeyIsFresh == Spec => []KeyFresh
<1>1. HidInv => KeyFresh
  BY DEF HidInv, Good, KeyFresh
<1>. QED BY <1>1, HidInvInit, HidInvNext, PTL DEF Spec

\* While a read is in progress fake_wiimote_tick does nothing but answer its
\* next piece: neither an extension change nor the gamepad's input comes between.
THEOREM ReadIsWhole == Spec => ReadNotTorn
<1>1. HidInv /\ [Next]_vars =>
        [Tick /\ wii.read.left > 0 => wii'.regs = wii.regs /\ wii'.cur = wii.cur]_vars
  <2> SUFFICES ASSUME HidInv, Tick, wii.read.left > 0
               PROVE  wii'.regs = wii.regs /\ wii'.cur = wii.cur
    OBVIOUS
  <2>1. wii' = ReadPiece(wii).wii
    BY DEF Tick, Becomes, TickStep
  <2>. QED BY <2>1, ReadPieceGood DEF HidInv
<1>. QED BY <1>1, HidInvInit, HidInvNext, PTL DEF Spec, ReadNotTorn

-----------------------------------------------------------------------------
(* What is on its way to the host                                           *)

Errors == {"success", "address", "nack", "space"}
Keys == {NoKey} \cup {<<"key", d>> : d \in KeyDatas}

\* The reports of the handlers.
Reports ==
    [type : {"ack"}, btn : {0, 1}, of : {"read", "write", "mode", "feature"},
     error : Errors \cup {"busy"}]
    \cup [type : {"status"}, btn : {0, 1}, ext : BOOLEAN]
    \cup [type : {"reply"}, btn : {0, 1}, addr : Nat, n : Nat, error : Errors,
          id : Extensions, key : Keys]
    \cup [type : {"data"}, btn : {0, 1}, mode : Modes, as : Extensions]

\* A read the host waits for, and a list of them.
ReadRec == [addr : Nat, left : Nat]
Reads == Seq(ReadRec)

HostType == [ext : Extensions \cup {"unknown"}, btn : {0, 1}, reads : Reads]

\* What is left of the reads after report r, by Learns.
After(s, r) ==
    IF r.type = "reply" /\ s # <<>> THEN Advance(s, r)
    ELSE IF r.type = "ack" /\ r.of = "read" /\ Len(s) >= 2
         THEN <<Head(s)>> \o Tail(Tail(s))
    ELSE s

\* Report r, if it is about a read, is about the first of them, or refuses the
\* second.
Fits(s, r) ==
    /\ r.type = "reply" => /\ s # <<>>
                           /\ r.addr = Head(s).addr
                           /\ r.error = "success" => r.n = Least(Piece, Head(s).left)
    /\ r.type = "ack" /\ r.of = "read" => Len(s) >= 2

\* The reports q answer the reads s, one after another, until `last' are left: m
\* says what is left after each of them.
Leads(m, s, q, last) ==
    /\ m[0] = s /\ m[Len(q)] = last
    /\ \A i \in 1..Len(q) : Fits(m[i - 1], q[i]) /\ m[i] = After(m[i - 1], q[i])
Answered(s, q, last) == \E m \in [0..Len(q) -> Reads] : Leads(m, s, q, last)

\* The read in progress, as the host knows it.
Progress(rd) == IF rd.left > 0 THEN <<[addr |-> rd.addr, left |-> rd.left]>> ELSE <<>>

LEMMA ProgressTyped ==
    ASSUME NEW rd \in [space : Spaces, addr : Nat, left : Nat]
    PROVE  Progress(rd) \in Reads
<1> DEFINE e == [addr |-> rd.addr, left |-> rd.left]
<1>1. e \in ReadRec
  BY DEF ReadRec
<1> HIDE DEF e
<1>2. <<e>> \in Reads /\ <<>> \in Reads
  BY <1>1 DEF Reads
<1>. QED BY <1>2 DEF Progress, e

\* Head and tail, element by element.
LEMMA Taken ==
    ASSUME NEW S, NEW s \in Seq(S), s # <<>>
    PROVE  /\ Len(s) \in Nat \ {0}
           /\ Head(s) \in S /\ Head(s) = s[1]
           /\ Tail(s) \in Seq(S) /\ Len(Tail(s)) = Len(s) - 1
           /\ \A i \in 1..(Len(s) - 1) : Tail(s)[i] = s[i + 1]
<1>1. Len(s) \in Nat \ {0} /\ Head(s) = s[1]
  BY EmptySeq
<1>. QED BY <1>1, HeadTailProperties

LEMMA ConcatAppend ==
    ASSUME NEW S, NEW s \in Seq(S), NEW t \in Seq(S), NEW e \in S
    PROVE  s \o Append(t, e) = Append(s \o t, e)
<1>1. <<e>> \in Seq(S) /\ s \o t \in Seq(S)
  BY ConcatProperties
<1>2. Append(t, e) = t \o <<e>> /\ Append(s \o t, e) = (s \o t) \o <<e>>
  BY <1>1, AppendIsConcat
<1>. QED BY <1>1, <1>2, ConcatAssociative

LEMMA AdvanceTyped ==
    ASSUME NEW s \in Reads, s # <<>>, NEW r \in Reports, r.type = "reply"
    PROVE  Advance(s, r) \in Reads
<1>1. Head(s) \in ReadRec /\ Tail(s) \in Reads
  BY Taken DEF Reads
<1>2. r.n \in Nat
  BY DEF Reports
<1> DEFINE rd == [addr |-> (Head(s).addr + r.n) % AddrCount, left |-> Head(s).left - r.n]
<1>3. ASSUME ~(Head(s).left <= r.n) PROVE rd \in ReadRec
  <2>1. AddrCount \in Nat \ {0}
    BY HidAssumption
  <2>2. Head(s).addr \in Nat /\ Head(s).left \in Nat
    BY <1>1 DEF ReadRec
  <2>3. (Head(s).addr + r.n) % AddrCount \in Nat /\ Head(s).left - r.n \in Nat
    BY <1>2, <1>3, <2>1, <2>2
  <2>. QED BY <2>3 DEF ReadRec
<1>4. CASE r.error # "success" \/ Head(s).left <= r.n
  BY <1>1, <1>4 DEF Advance
<1>5. CASE ~(r.error # "success" \/ Head(s).left <= r.n)
  <2>1. Advance(s, r) = <<rd>> \o Tail(s)
    BY <1>5 DEF Advance
  <2>2. rd \in ReadRec
    BY <1>3, <1>5
  <2> HIDE DEF rd
  <2>. QED BY <1>1, <2>1, <2>2 DEF Reads
<1>. QED BY <1>4, <1>5

LEMMA AfterTyped ==
    ASSUME NEW s \in Reads, NEW r \in Reports
    PROVE  After(s, r) \in Reads
<1>1. CASE r.type = "reply" /\ s # <<>>
  BY <1>1, AdvanceTyped DEF After
<1>2. CASE r.type = "ack" /\ r.of = "read" /\ Len(s) >= 2
  <2>1. s # <<>>
    BY <1>2, EmptySeq
  <2>2. /\ Head(s) \in ReadRec /\ Tail(s) \in Reads
        /\ Len(Tail(s)) = Len(s) - 1 /\ Len(s) \in Nat
    BY <2>1, Taken DEF Reads
  <2>4. Len(s) >= 2
    BY <1>2
  <2>5. Len(Tail(s)) # 0
    <3> DEFINE n == Len(s)
               m == Len(Tail(s))
    <3>1. n \in Nat /\ n >= 2 /\ m = n - 1
      BY <2>2, <2>4
    <3> HIDE DEF n, m
    <3>2. m # 0
      BY <3>1
    <3>. QED BY <3>2 DEF m
  <2>3. Tail(Tail(s)) \in Reads
    BY <2>2, <2>5, Taken, EmptySeq DEF Reads
  <2>6. After(s, r) = <<Head(s)>> \o Tail(Tail(s))
    BY <1>2 DEF After
  <2>. QED BY <2>2, <2>3, <2>6 DEF Reads
<1>3. CASE After(s, r) = s
  BY <1>3
<1>. QED BY <1>1, <1>2, <1>3 DEF After

\* One more read at the end changes nothing of how a report is understood.
LEMMA AfterAppend ==
    ASSUME NEW s \in Reads, NEW r \in Reports, NEW e \in ReadRec, Fits(s, r)
    PROVE  Fits(Append(s, e), r) /\ After(Append(s, e), r) = Append(After(s, r), e)
<1> DEFINE t == Append(s, e)
<1>1. t \in Reads /\ t # <<>> /\ Len(t) = Len(s) + 1 /\ Len(s) \in Nat
  BY AppendProperties, LenProperties DEF Reads
<1>2. /\ Head(t) = IF s = <<>> THEN e ELSE Head(s)
      /\ Tail(t) = IF s = <<>> THEN <<>> ELSE Append(Tail(s), e)
  BY HeadTailAppend DEF Reads
<1> HIDE DEF t
<1>3. CASE r.type = "reply"
  <2>1. s # <<>> /\ Head(t) = Head(s) /\ Tail(t) = Append(Tail(s), e)
    BY <1>2, <1>3 DEF Fits
  <2>2. Fits(t, r)
    BY <1>1, <1>3, <2>1 DEF Fits
  <2>3. After(t, r) = Advance(t, r) /\ After(s, r) = Advance(s, r)
    BY <1>1, <1>3, <2>1 DEF After
  <2>4. Head(s) \in ReadRec /\ Tail(s) \in Reads
    BY <2>1, Taken DEF Reads
  <2>5. CASE r.error # "success" \/ Head(s).left <= r.n
    <3>1. Advance(t, r) = Tail(t) /\ Advance(s, r) = Tail(s)
      BY <2>1, <2>5 DEF Advance
    <3>. QED BY <2>1, <2>2, <2>3, <3>1 DEF t
  <2>6. CASE ~(r.error # "success" \/ Head(s).left <= r.n)
    <3> DEFINE rd == [addr |-> (Head(s).addr + r.n) % AddrCount, left |-> Head(s).left - r.n]
    <3>1. Advance(t, r) = <<rd>> \o Tail(t) /\ Advance(s, r) = <<rd>> \o Tail(s)
      BY <2>1, <2>6 DEF Advance
    <3> HIDE DEF rd
    <3>2. <<rd>> \o Append(Tail(s), e) = Append(<<rd>> \o Tail(s), e)
      <4>1. /\ <<rd>> \in Seq(ReadRec \cup {rd}) /\ Tail(s) \in Seq(ReadRec \cup {rd})
            /\ e \in ReadRec \cup {rd}
        BY <2>4 DEF Reads
      <4>. QED BY <4>1, ConcatAppend
    <3>. QED BY <2>1, <2>2, <2>3, <3>1, <3>2 DEF t
  <2>. QED BY <2>5, <2>6
<1>4. CASE r.type = "ack" /\ r.of = "read"
  <2>1. Len(s) >= 2 /\ s # <<>>
    BY <1>4, EmptySeq DEF Fits
  <2>2. Head(t) = Head(s) /\ Tail(t) = Append(Tail(s), e)
    BY <1>2, <2>1
  <2>3. Tail(s) \in Reads /\ Len(Tail(s)) = Len(s) - 1 /\ Head(s) \in ReadRec
    BY <2>1, Taken DEF Reads
  <2>4. Tail(s) # <<>>
    BY <2>1, <2>3, EmptySeq
  <2>5. Tail(Tail(t)) = Append(Tail(Tail(s)), e) /\ Tail(Tail(s)) \in Reads
    BY <2>2, <2>3, <2>4, HeadTailAppend, Taken DEF Reads
  <2>6. Fits(t, r)
    BY <1>1, <1>4, <2>1 DEF Fits
  <2>7. /\ After(t, r) = <<Head(t)>> \o Tail(Tail(t))
        /\ After(s, r) = <<Head(s)>> \o Tail(Tail(s))
    <3>1. r.type # "reply" /\ Len(t) >= 2
      BY <1>1, <1>4, <2>1
    <3>. QED BY <1>4, <2>1, <3>1, Zenon DEF After
  <2>8. <<Head(s)>> \o Append(Tail(Tail(s)), e) = Append(<<Head(s)>> \o Tail(Tail(s)), e)
    <3> DEFINE first == <<Head(s)>>
               rest == Tail(Tail(s))
    <3>1. first \in Seq(ReadRec) /\ rest \in Seq(ReadRec)
      BY <2>3, <2>5 DEF Reads
    <3> HIDE DEF first, rest
    <3>2. first \o Append(rest, e) = Append(first \o rest, e)
      BY <3>1, ConcatAppend
    <3>. QED BY <3>2 DEF first, rest
  <2>. QED BY <2>2, <2>5, <2>6, <2>7, <2>8 DEF t
<1>5. CASE r.type # "reply" /\ ~(r.type = "ack" /\ r.of = "read")
  BY <1>5 DEF Fits, After, t
<1>. QED BY <1>3, <1>4, <1>5

LEMMA NothingAsked == Answered(<<>>, <<>>, <<>>)
<1> DEFINE e == <<>>
           m == [i \in 0..0 |-> e]
<1>1. e \in Reads /\ Len(e) = 0
  BY DEF Reads
<1> HIDE DEF e
<1>2. m \in [0..Len(e) -> Reads] /\ m[0] = e /\ m[Len(e)] = e
  BY <1>1
<1>3. \A i \in 1..Len(e) : FALSE
  BY <1>1
<1> HIDE DEF m
<1>4. Leads(m, e, e, e)
  BY <1>2, <1>3 DEF Leads
<1>5. Answered(e, e, e)
  BY <1>2, <1>4 DEF Answered
<1>. QED BY <1>5 DEF e

\* A fitting report is queued behind the others.
LEMMA Sent ==
    ASSUME NEW s, NEW last \in Reads, NEW q \in Seq(Reports), NEW r \in Reports,
           Answered(s, q, last), Fits(last, r)
    PROVE  Answered(s, Append(q, r), After(last, r))
<1> DEFINE n == Len(q)
           p == Append(q, r)
           next == After(last, r)
<1>1. /\ n \in Nat /\ Len(p) = n + 1
      /\ \A i \in 1..n : p[i] = q[i]
      /\ p[n + 1] = r
  BY AppendProperties, LenProperties
<1>2. next \in Reads
  BY AfterTyped
<1>3. PICK m \in [0..n -> Reads] : Leads(m, s, q, last)
  BY DEF Answered
<1>4. /\ m[0] = s /\ m[n] = last
      /\ \A i \in 1..n : Fits(m[i - 1], q[i]) /\ m[i] = After(m[i - 1], q[i])
  BY <1>3 DEF Leads
<1>5. next = After(last, r)
  OBVIOUS
<1> HIDE DEF n, p, next
<1> DEFINE m2 == [i \in 0..n + 1 |-> IF i = n + 1 THEN next ELSE m[i]]
<1>6. /\ m2 \in [0..n + 1 -> Reads]
      /\ m2[n + 1] = next
      /\ \A i \in 0..n : m2[i] = m[i]
  BY <1>1, <1>2
<1> HIDE DEF m2
<1>7. ASSUME NEW i \in 1..n + 1
      PROVE  Fits(m2[i - 1], p[i]) /\ m2[i] = After(m2[i - 1], p[i])
  <2>1. CASE i = n + 1
    <3>1. i - 1 = n /\ m2[i - 1] = last /\ p[i] = r /\ m2[i] = next
      BY <1>1, <1>4, <1>6, <2>1
    <3>. QED BY <3>1, <1>5
  <2>2. CASE i # n + 1
    <3>1. i \in 1..n /\ i \in 0..n /\ i - 1 \in 0..n
      BY <1>1, <2>2
    <3>2. m2[i - 1] = m[i - 1] /\ m2[i] = m[i] /\ p[i] = q[i]
      BY <1>1, <1>6, <3>1
    <3>. QED BY <1>4, <3>1, <3>2
  <2>. QED BY <2>1, <2>2
<1>8. m2[0] = s
  BY <1>1, <1>4, <1>6
<1>9. Leads(m2, s, p, next) /\ m2 \in [0..Len(p) -> Reads]
  BY <1>1, <1>6, <1>7, <1>8 DEF Leads
<1>10. Answered(s, p, next)
  BY <1>9 DEF Answered
<1>. QED BY <1>10 DEF p, next

\* The host takes the first report, and waits for what is left after it.
LEMMA Received ==
    ASSUME NEW s, NEW last, NEW q \in Seq(Reports), q # <<>>,
           Answered(s, q, last)
    PROVE  /\ Fits(s, Head(q))
           /\ s \in Reads
           /\ Answered(After(s, Head(q)), Tail(q), last)
<1> DEFINE n == Len(q)
           p == Tail(q)
           r == Head(q)
<1>1. /\ n \in Nat \ {0} /\ Len(p) = n - 1
      /\ r = q[1]
      /\ \A i \in 1..n - 1 : p[i] = q[i + 1]
  BY Taken
<1>2. PICK m \in [0..n -> Reads] : Leads(m, s, q, last)
  BY DEF Answered
<1>3. /\ m[0] = s /\ m[n] = last
      /\ \A i \in 1..n : Fits(m[i - 1], q[i]) /\ m[i] = After(m[i - 1], q[i])
  BY <1>2 DEF Leads
<1> HIDE DEF n, p, r
<1>4. Fits(s, r) /\ m[1] = After(s, r) /\ s \in Reads
  <2>1. 1 \in 1..n /\ 1 - 1 = 0 /\ 0 \in 0..n
    BY <1>1
  <2>2. Fits(m[1 - 1], q[1]) /\ m[1] = After(m[1 - 1], q[1])
    BY <1>3, <2>1
  <2>. QED BY <1>1, <1>3, <2>1, <2>2
<1> DEFINE m2 == [i \in 0..n - 1 |-> m[i + 1]]
<1>5. /\ m2 \in [0..n - 1 -> Reads]
      /\ \A i \in 0..n - 1 : m2[i] = m[i + 1]
  BY <1>1
<1> HIDE DEF m2
<1>6. ASSUME NEW i \in 1..n - 1
      PROVE  Fits(m2[i - 1], p[i]) /\ m2[i] = After(m2[i - 1], p[i])
  <2>1. i + 1 \in 1..n /\ i \in 0..n - 1 /\ i - 1 \in 0..n - 1 /\ (i + 1) - 1 = i /\ i - 1 + 1 = i
    BY <1>1
  <2>2. m2[i - 1] = m[i] /\ m2[i] = m[i + 1] /\ p[i] = q[i + 1]
    BY <1>1, <1>5, <2>1
  <2>3. Fits(m[(i + 1) - 1], q[i + 1]) /\ m[i + 1] = After(m[(i + 1) - 1], q[i + 1])
    BY <1>3, <2>1
  <2>. QED BY <2>1, <2>2, <2>3
<1>7. m2[0] = m[1] /\ m2[n - 1] = last
  BY <1>1, <1>3, <1>5
<1>8. Leads(m2, m[1], p, last) /\ m2 \in [0..Len(p) -> Reads]
  BY <1>1, <1>5, <1>6, <1>7 DEF Leads
<1>9. Answered(m[1], p, last)
  BY <1>8 DEF Answered
<1>. QED BY <1>4, <1>9 DEF p, r

\* Reports that answer some reads leave another one alone that comes after them.
LEMMA Asked ==
    ASSUME NEW s, NEW last, NEW q \in Seq(Reports), NEW e \in ReadRec,
           Answered(s, q, last)
    PROVE  Answered(Append(s, e), q, Append(last, e))
<1> DEFINE n == Len(q)
<1>1. n \in Nat /\ \A i \in 1..n : q[i] \in Reports
  BY LenProperties
<1>2. PICK m \in [0..n -> Reads] : Leads(m, s, q, last)
  BY DEF Answered
<1>3. /\ m[0] = s /\ m[n] = last
      /\ \A i \in 1..n : Fits(m[i - 1], q[i]) /\ m[i] = After(m[i - 1], q[i])
  BY <1>2 DEF Leads
<1> HIDE DEF n
<1> DEFINE m2 == [i \in 0..n |-> Append(m[i], e)]
<1>4. \A t \in Reads : Append(t, e) \in Reads
  BY AppendProperties DEF Reads
<1>5. /\ m2 \in [0..n -> Reads]
      /\ \A i \in 0..n : m2[i] = Append(m[i], e)
  BY <1>1, <1>4
<1> HIDE DEF m2
<1>6. ASSUME NEW i \in 1..n
      PROVE  Fits(m2[i - 1], q[i]) /\ m2[i] = After(m2[i - 1], q[i])
  <2>1. i \in 0..n /\ i - 1 \in 0..n /\ q[i] \in Reports
    BY <1>1
  <2>2. m2[i - 1] = Append(m[i - 1], e) /\ m2[i] = Append(m[i], e) /\ m[i - 1] \in Reads
    BY <1>5, <2>1
  <2>3. Fits(m[i - 1], q[i]) /\ m[i] = After(m[i - 1], q[i])
    BY <1>3
  <2>. QED BY <2>1, <2>2, <2>3, AfterAppend
<1>7. m2[0] = Append(s, e) /\ m2[n] = Append(last, e)
  BY <1>1, <1>3, <1>5
<1>8. Leads(m2, Append(s, e), q, Append(last, e)) /\ m2 \in [0..Len(q) -> Reads]
  BY <1>5, <1>6, <1>7 DEF Leads, n
<1>. QED BY <1>8 DEF Answered

-----------------------------------------------------------------------------
(* What a handler sends                                                     *)

\* Report r shows that extension e is attached; report r that none is.
Names(r, e) == \/ r.type = "data" /\ r.as = e
               \/ r.type = "reply" /\ r.id # "none" /\ r.id = e
Detach(r) == r.type = "status" /\ ~r.ext

\* With reads s to be answered: the report, if any, answers the first of them or
\* refuses the second, and what is left is the read in progress.
Answers(s, res) ==
    IF res.report = NoReport THEN Progress(res.wii.read) = s
    ELSE /\ res.report \in Reports
         /\ Fits(s, res.report)
         /\ Progress(res.wii.read) = After(s, res.report)

\* The report is of the extension that is attached, and an extension that was
\* attached changes only with a report of its detachment.
Tells(x, res) ==
    /\ \A e \in Extensions : Names(res.report, e) => e = x.cur
    /\ \/ res.wii.cur = x.cur
       \/ x.cur = "none" /\ res.report.type = "status"
       \/ Detach(res.report)

\* Reports that are about no read.
LEMMA AnswersOther ==
    ASSUME NEW s, NEW res, Progress(res.wii.read) = s,
           \/ res.report = NoReport
           \/ /\ res.report \in Reports
              /\ res.report.type # "reply"
              /\ ~(res.report.type = "ack" /\ res.report.of = "read")
    PROVE  Answers(s, res)
BY DEF Answers, Fits, After, NoReport

LEMMA ErrorTyped ==
    ASSUME NEW space \in Spaces, NEW addr, NEW n, NEW left
    PROVE  Error(space, addr, n, left) \in Errors
BY DEF Error, Errors, Spaces

LEMMA ReadPieceSends ==
    ASSUME NEW x \in Good, x.read.left > 0
    PROVE  Answers(Progress(x.read), ReadPiece(x)) /\ Tells(x, ReadPiece(x))
<1> DEFINE rd == x.read
           n == PieceOf(rd)
           error == Error(rd.space, rd.addr, n, rd.left)
           ofExt == rd.space = "ext" /\ error = "success"
           next == Advanced(rd, error)
           id == IF ofExt /\ IdAddr \in rd.addr..rd.addr + n - 1 THEN x.cur ELSE "none"
           key == IF ofExt THEN ReadKey(x) ELSE Plain
           count == IF error = "success" THEN n ELSE Piece
           r == [type |-> "reply", btn |-> x.btn, addr |-> rd.addr, n |-> count,
                 error |-> error, id |-> id, key |-> key]
<1>1. /\ rd \in [space : Spaces, addr : Nat, left : Nat] /\ rd.left > 0
      /\ x.btn \in {0, 1} /\ x.cur \in Extensions
  BY DEF Good, WiimoteType
<1>2. error \in Errors
  BY <1>1 DEF Error, Errors, Spaces
<1>3. Piece \in Nat \ {0} /\ n \in Nat /\ n = Least(Piece, rd.left) /\ n <= rd.left
  BY <1>1, HidAssumption DEF PieceOf, Least
<1>4. key \in Keys
  <2>1. FreshKey(x).key \in Keys
    BY FreshGood DEF Good, WiimoteType, Keys
  <2>. QED BY <2>1 DEF ReadKey, Plain, NoKey, Keys
<1>5. id \in Extensions /\ (id # "none" => id = x.cur)
  BY <1>1 DEF Extensions
<1>6. count \in Nat
  BY <1>3
<1>7. ReadPiece(x).report = r
  BY DEF ReadPiece, Result
<1>8. ReadPiece(x).wii.read = next /\ ReadPiece(x).wii.cur = x.cur
  <2>1. ReadPiece(x).wii.cur = x.cur
    BY ReadPieceGood
  <2> DEFINE y == IF ofExt THEN ExtensionRead(x) ELSE x
  <2>2. y \in WiimoteType
    BY ReadGood DEF Good
  <2>3. ReadPiece(x).wii = [y EXCEPT !.read = next]
    BY DEF ReadPiece, Result
  <2> HIDE DEF y, next
  <2>4. [y EXCEPT !.read = next].read = next
    BY <2>2 DEF WiimoteType
  <2>. QED BY <2>1, <2>3, <2>4
<1>9. /\ error # "success" => next.left = 0
      /\ error = "success" => /\ next.left = rd.left - n
                              /\ next.addr = (rd.addr + n) % AddrCount
  BY <1>1 DEF Advanced
<1>10. error = "success" => count = n
  OBVIOUS
<1> HIDE DEF n, error, next, id, key, count
<1>11. r \in Reports
  BY <1>1, <1>2, <1>4, <1>5, <1>6 DEF Reports
<1>12. /\ r.type = "reply" /\ r.addr = rd.addr /\ r.n = count /\ r.error = error
       /\ r.id = id
  OBVIOUS
<1> HIDE DEF r
<1> DEFINE e == [addr |-> rd.addr, left |-> rd.left]
           s == <<e>>
<1>13. e.addr = rd.addr /\ e.left = rd.left
  OBVIOUS
<1>14. Progress(rd) = s
  BY <1>1 DEF Progress
<1>15. /\ s # <<>> /\ Head(s) = e /\ Tail(s) = <<>>
       /\ \A d : <<d>> \o <<>> = <<d>>
  OBVIOUS
<1> HIDE DEF s, e, rd
<1>16. Fits(s, r)
  BY <1>3, <1>10, <1>12, <1>13, <1>15 DEF Fits
<1>17. Progress(next) = After(s, r)
  <2>1. After(s, r) = Advance(s, r)
    BY <1>12, <1>15 DEF After
  <2>2. CASE error # "success" \/ rd.left <= count
    <3>1. Advance(s, r) = <<>>
      BY <1>12, <1>13, <1>15, <2>2 DEF Advance
    <3>2. ~(next.left > 0)
      BY <1>1, <1>3, <1>9, <1>10, <2>2
    <3>. QED BY <2>1, <3>1, <3>2 DEF Progress
  <2>3. CASE ~(error # "success" \/ rd.left <= count)
    <3>1. count = n /\ next.left = rd.left - n /\ next.addr = (rd.addr + n) % AddrCount
      BY <1>9, <1>10, <2>3
    <3> DEFINE d == [addr |-> (rd.addr + count) % AddrCount, left |-> rd.left - count]
    <3>2. Advance(s, r) = <<d>> \o <<>>
      BY <1>12, <1>13, <1>15, <2>3 DEF Advance
    <3>3. next.left > 0
      BY <1>1, <1>3, <2>3, <3>1
    <3>4. Progress(next) = <<d>>
      BY <3>1, <3>3 DEF Progress
    <3> HIDE DEF d
    <3>. QED BY <1>15, <2>1, <3>2, <3>4
  <2>. QED BY <2>2, <2>3
<1>18. Answers(Progress(rd), ReadPiece(x))
  <2>1. r # NoReport
    BY <1>12 DEF NoReport
  <2>. QED BY <1>7, <1>8, <1>11, <1>14, <1>16, <1>17, <2>1 DEF Answers
<1>19. Tells(x, ReadPiece(x))
  BY <1>5, <1>7, <1>8, <1>12 DEF Tells, Names
<1>. QED BY <1>18, <1>19 DEF rd

\* The reads to be answered once the host has sent o.
Request(o) == [addr |-> o.addr, left |-> o.size]
Waited(x, o) == o.type = "read" /\ (o.size > 0 \/ x.read.left > 0)
AskedReads(x, o) == IF Waited(x, o) THEN Append(Progress(x.read), Request(o))
                                    ELSE Progress(x.read)

LEMMA StartReadSends ==
    ASSUME NEW x \in Good, NEW o, IsOutput(o), o.type = "read"
    PROVE  Answers(AskedReads(x, o), StartRead(x, o)) /\ Tells(x, StartRead(x, o))
<1> DEFINE rd == [space |-> o.space, addr |-> o.addr, left |-> o.size]
           y == [x EXCEPT !.read = rd]
           res == StartRead(x, o)
<1>1. /\ x.read \in [space : Spaces, addr : Nat, left : Nat]
      /\ x.btn \in {0, 1} /\ o.addr \in Nat /\ o.size \in Nat
  BY DEF Good, WiimoteType, IsOutput
<1>2. y.read = rd /\ rd.left = o.size /\ rd.addr = o.addr /\ y.cur = x.cur
  BY DEF Good, WiimoteType
<1>3. y \in Good
  <2>1. y \in WiimoteType /\ y.regs = x.regs /\ y.key = x.key /\ y.keyDirty = x.keyDirty
    BY DEF IsOutput, Good, WiimoteType
  <2>. QED BY <2>1, OtherParts
<1>4. CASE x.read.left > 0
  <2> DEFINE r == Ack(x, "read", "busy")
             d == [addr |-> x.read.addr, left |-> x.read.left]
             e == Request(o)
             s == Append(<<d>>, e)
  <2>1. res.wii = x /\ res.report = r
    BY <1>4 DEF StartRead, Result
  <2>2. r \in Reports /\ r.type = "ack" /\ r.of = "read" /\ r # NoReport
    BY <1>1 DEF Ack, Reports, NoReport
  <2>3. AskedReads(x, o) = s /\ Progress(x.read) = <<d>>
    BY <1>4 DEF AskedReads, Waited, Progress
  <2> HIDE DEF r, d, e
  <2>4. Len(s) = 2 /\ Head(s) = d /\ Tail(Tail(s)) = <<>> /\ <<d>> \o <<>> = <<d>>
    OBVIOUS
  <2> HIDE DEF s
  <2>5. Fits(s, r)
    BY <2>2, <2>4 DEF Fits
  <2>6. After(s, r) = <<d>>
    <3>1. r.type # "reply" /\ Len(s) >= 2
      BY <2>2, <2>4
    <3>2. After(s, r) = <<Head(s)>> \o Tail(Tail(s))
      BY <2>2, <3>1, Zenon DEF After
    <3>. QED BY <2>4, <3>2, Zenon
  <2>7. Tells(x, res)
    BY <2>1, <2>2 DEF Tells, Names
  <2>. QED BY <2>1, <2>2, <2>3, <2>5, <2>6, <2>7 DEF Answers
<1>5. CASE ~(x.read.left > 0) /\ o.size = 0
  <2>1. res.wii = y /\ res.report = NoReport
    BY <1>5 DEF StartRead, Result
  <2>2. AskedReads(x, o) = Progress(x.read) /\ Progress(x.read) = <<>>
    BY <1>5 DEF AskedReads, Waited, Progress
  <2>3. Progress(rd) = <<>>
    BY <1>2, <1>5 DEF Progress
  <2> HIDE DEF rd, y
  <2>4. Answers(AskedReads(x, o), res)
    BY <1>2, <2>1, <2>2, <2>3 DEF Answers
  <2>5. Tells(x, res)
    BY <1>2, <2>1 DEF Tells, Names, NoReport
  <2>. QED BY <2>4, <2>5
<1>6. CASE ~(x.read.left > 0) /\ o.size # 0
  <2>1. res = ReadPiece(y) /\ rd.left > 0
    BY <1>1, <1>2, <1>6 DEF StartRead
  <2>2. AskedReads(x, o) = Append(<<>>, Request(o))
    <3>1. Waited(x, o)
      BY <1>1, <1>6 DEF Waited
    <3>2. Progress(x.read) = <<>>
      BY <1>6 DEF Progress
    <3>. QED BY <3>1, <3>2 DEF AskedReads
  <2>3. Progress(rd) = <<Request(o)>>
    BY <1>2, <2>1 DEF Progress, Request
  <2>4. \A d : Append(<<>>, d) = <<d>>
    OBVIOUS
  <2> HIDE DEF rd, y
  <2>5. Answers(Progress(y.read), ReadPiece(y)) /\ Tells(y, ReadPiece(y))
    BY <1>2, <1>3, <2>1, ReadPieceSends
  <2>6. Tells(x, res)
    BY <1>2, <2>1, <2>5 DEF Tells
  <2>. QED BY <1>2, <2>1, <2>2, <2>3, <2>4, <2>5, <2>6
<1>. QED BY <1>4, <1>5, <1>6

LEMMA OutputSends ==
    ASSUME NEW x \in Good, NEW o, IsOutput(o)
    PROVE  Answers(AskedReads(x, o), Output(x, o)) /\ Tells(x, Output(x, o))
<1> DEFINE res == Output(x, o)
<1>1. x.btn \in {0, 1} /\ x \in WiimoteType
  BY DEF Good, WiimoteType
<1>2. CASE o.type = "read"
  <2>1. res = StartRead(x, o)
    BY <1>2 DEF Output
  <2>. QED BY <1>2, <2>1, StartReadSends
<1>3. CASE o.type # "read"
  <2>1. AskedReads(x, o) = Progress(x.read)
    BY <1>3 DEF AskedReads, Waited
  <2>2. /\ res.wii.read = x.read /\ res.wii.cur = x.cur
        /\ \/ res.report = NoReport
           \/ res.report = Status(x)
           \/ \E of \in {"feature", "mode", "write"}, error \in Errors :
                 res.report = Ack(x, of, error)
    <3>1. CASE o.type = "status"
      BY <3>1, Zenon DEF Output, Result
    <3>2. CASE o.type = "feature"
      <4>1. res = Result(x, IF o.ack THEN Ack(x, "feature", "success") ELSE NoReport)
        BY <3>2 DEF Output
      <4>. QED BY <4>1 DEF Result, Errors
    <3>3. CASE o.type = "mode"
      <4> DEFINE y == [x EXCEPT !.mode = o.mode, !.cont = o.cont]
      <4>1. res = Result(y, IF o.ack THEN Ack(x, "mode", "success") ELSE NoReport)
        BY <3>3 DEF Output
      <4>2. y.read = x.read /\ y.cur = x.cur
        BY <1>1 DEF WiimoteType
      <4> HIDE DEF y
      <4>. QED BY <4>1, <4>2 DEF Result, Errors
    <3>4. CASE o.type = "write"
      <4> DEFINE n == Len(o.bytes)
                 error == Error(o.space, o.addr, n, n)
                 y == IF o.space = "ext" /\ error = "success"
                      THEN ExtensionWrite(x, o.addr, o.bytes) ELSE x
      <4>1. res = Write(x, o)
        BY <3>4 DEF Output
      <4>2. CASE n = 0 \/ n > Piece
        <5>1. res = Result(x, NoReport)
          BY <4>1, <4>2 DEF Write
        <5>. QED BY <5>1 DEF Result
      <4>3. CASE ~(n = 0 \/ n > Piece)
        <5>1. res = Result(y, Ack(x, "write", error))
          BY <4>1, <4>3 DEF Write
        <5>2. y.read = x.read /\ y.cur = x.cur
          BY <1>1 DEF ExtensionWrite, WiimoteType
        <5>3. error \in Errors
          BY <3>4, ErrorTyped DEF IsOutput
        <5> HIDE DEF y, error
        <5>. QED BY <5>1, <5>2, <5>3 DEF Result
      <4>. QED BY <4>2, <4>3
    <3>. QED BY <1>3, <3>1, <3>2, <3>3, <3>4 DEF IsOutput
  <2>3. \/ res.report = NoReport
        \/ /\ res.report \in Reports
           /\ res.report.type \in {"status", "ack"}
           /\ ~(res.report.type = "ack" /\ res.report.of = "read")
    <3>1. Status(x) \in Reports /\ Status(x).type = "status"
      BY <1>1 DEF Status, Reports
    <3>2. ASSUME NEW of \in {"feature", "mode", "write"}, NEW error \in Errors
          PROVE  /\ Ack(x, of, error) \in Reports
                 /\ Ack(x, of, error).type = "ack" /\ Ack(x, of, error).of # "read"
      BY <1>1 DEF Ack, Reports
    <3>. QED BY <2>2, <3>1, <3>2
  <2> HIDE DEF res
  <2>4. Answers(AskedReads(x, o), res)
    BY <2>1, <2>2, <2>3, AnswersOther
  <2>5. Tells(x, res)
    BY <2>2, <2>3 DEF Tells, Names, NoReport
  <2>. QED BY <2>4, <2>5 DEF res
<1>. QED BY <1>2, <1>3

LEMMA ExtensionChangeSends ==
    ASSUME NEW x \in Good
    PROVE  /\ Answers(Progress(x.read), ExtensionChange(x))
           /\ Tells(x, ExtensionChange(x))
<1> DEFINE y == [x EXCEPT !.mode = "disabled",
                          !.cur = IF @ = "none" THEN x.new ELSE "none"]
           z == ResetExtension(y)
           res == ExtensionChange(x)
<1>1. /\ y \in WiimoteType /\ y.read = x.read
      /\ y.cur = IF x.cur = "none" THEN x.new ELSE "none"
  BY DEF Good, WiimoteType, Modes, Extensions
<1> HIDE DEF y
<1>2. z \in Good
  BY <1>1, ResetGood
<1>3. z.read = y.read /\ z.cur = y.cur
  BY <1>1 DEF ResetExtension, WiimoteType
<1>4. res.wii = z /\ res.report = Status(z)
  BY DEF ExtensionChange, Result, y
<1> HIDE DEF z, res
<1>5. /\ Status(z) \in Reports /\ Status(z).type = "status"
      /\ Status(z).ext = (z.cur # "none")
  BY <1>2 DEF Status, Reports, Good, WiimoteType
<1>6. Answers(Progress(x.read), res)
  BY <1>1, <1>3, <1>4, <1>5, AnswersOther
<1>7. Tells(x, res)
  BY <1>1, <1>3, <1>4, <1>5 DEF Tells, Names, Detach
<1>. QED BY <1>6, <1>7 DEF res

LEMMA SendDataSends ==
    ASSUME NEW x \in Good
    PROVE  Answers(Progress(x.read), SendData(x)) /\ Tells(x, SendData(x))
<1> DEFINE y == IF x.mode = "btn_ext" THEN ExtensionRead(x) ELSE x
           z == [y EXCEPT !.dirty = FALSE]
           r == [type |-> "data", btn |-> x.btn, mode |-> x.mode, as |-> x.cur]
           res == SendData(x)
<1>1. x \in WiimoteType
  BY DEF Good
<1>2. y.read = x.read /\ y.cur = x.cur /\ y \in WiimoteType
  <2>1. FreshKey(x).read = x.read
    BY <1>1 DEF FreshKey, WiimoteType
  <2>2. y = x \/ y = FreshKey(x)
    BY DEF ExtensionRead
  <2>. QED BY <1>1, <2>1, <2>2, FreshGood DEF Good
<1>3. \/ res.wii = x /\ res.report = NoReport
      \/ res.wii = z /\ res.report = r
  BY DEF SendData, Result
<1> HIDE DEF y, res
<1>4. z.read = x.read /\ z.cur = x.cur
  BY <1>2 DEF WiimoteType
<1>5. r \in Reports /\ r.type = "data" /\ r.as = x.cur
  BY <1>1 DEF Reports, WiimoteType
<1> HIDE DEF z, r
<1>6. Answers(Progress(x.read), res)
  BY <1>3, <1>4, <1>5, AnswersOther
<1>7. Tells(x, res)
  BY <1>3, <1>4, <1>5 DEF Tells, Names, NoReport
<1>. QED BY <1>6, <1>7 DEF res

LEMMA TickSends ==
    ASSUME NEW x \in Good, NEW d \in DevType, NEW p \in PadType
    PROVE  /\ Answers(Progress(x.read), TickStep(x, d, p))
           /\ Tells(x, TickStep(x, d, p))
<1>1. CASE x.read.left > 0
  BY <1>1, ReadPieceSends DEF TickStep
<1>2. CASE ~(x.read.left > 0) /\ x.new # x.cur
  BY <1>2, ExtensionChangeSends DEF TickStep
<1>3. CASE ~(x.read.left > 0) /\ x.new = x.cur
  <2>1. TickStep(x, d, p) = Poll(x, d, p)
    BY <1>3 DEF TickStep
  <2>2. CASE Switches(d, p)
    <3> DEFINE y == [x EXCEPT !.new = Other(d.ext)]
    <3>1. Poll(x, d, p) = Result(y, NoReport)
      BY <2>2 DEF Poll
    <3>2. y.read = x.read /\ y.cur = x.cur
      BY DEF Good, WiimoteType
    <3> HIDE DEF y
    <3>3. Answers(Progress(x.read), Result(y, NoReport))
      BY <3>2 DEF Answers, Result
    <3>4. Tells(x, Result(y, NoReport))
      BY <3>2 DEF Tells, Names, NoReport, Result
    <3>. QED BY <2>1, <3>1, <3>3, <3>4
  <2>3. CASE ~Switches(d, p)
    <3> DEFINE btn == Buttons(d.ext, p.pressed)
               data == ControllerData(d.ext, p.pressed)
               y == ReportInput(x, btn, data)
    <3>1. Poll(x, d, p) = SendData(y)
      BY <2>3 DEF Poll
    <3>2. btn \in {0, 1} /\ data \in Byte
      BY DEF PadType, Buttons, ControllerData, Byte
    <3> HIDE DEF btn, data
    <3>3. y \in Good
      BY <3>2, InputGood
    <3>4. y.read = x.read /\ y.cur = x.cur
      BY DEF ReportInput, Good, WiimoteType
    <3> HIDE DEF y
    <3>5. Answers(Progress(y.read), SendData(y)) /\ Tells(y, SendData(y))
      BY <3>3, SendDataSends
    <3>6. Tells(x, SendData(y))
      BY <3>4, <3>5 DEF Tells
    <3>. QED BY <2>1, <3>1, <3>4, <3>5, <3>6
  <2>. QED BY <2>2, <2>3
<1>. QED BY <1>1, <1>2, <1>3

-----------------------------------------------------------------------------
(* Which extension the host takes it for                                    *)

Known == {"nunchuk", "classic"}

\* Extension e at place i of what is between the host, which takes the extension
\* for ext, and the Wiimote, which has cur: the host is before the first report
\* of q, the Wiimote behind the last.
Shows(ext, q, cur, i, e) ==
    \/ i = 0 /\ ext = e
    \/ i \in 1..Len(q) /\ Names(q[i], e)
    \/ i = Len(q) + 1 /\ cur = e

\* Between two places that show different extensions, the first is detached.
Announced(ext, q, cur) ==
    \A i, j \in 0..Len(q) + 1 : \A e \in Known, f \in Extensions :
        i < j /\ e # f /\ Shows(ext, q, cur, i, e) /\ Shows(ext, q, cur, j, f)
        => \E k \in 1..Len(q) : i < k /\ k < j /\ Detach(q[k])

LEMMA NewsSent ==
    ASSUME NEW ext, NEW q \in Seq(Reports), NEW r \in Reports, NEW cur \in Extensions,
           NEW cur2,
           Announced(ext, q, cur),
           \A e \in Extensions : Names(r, e) => e = cur,
           cur2 = cur \/ (cur = "none" /\ r.type = "status") \/ Detach(r)
    PROVE  Announced(ext, Append(q, r), cur2)
<1> DEFINE n == Len(q)
           p == Append(q, r)
<1>1. /\ n \in Nat /\ Len(p) = n + 1
      /\ \A i \in 1..n : p[i] = q[i]
      /\ p[n + 1] = r
  BY AppendProperties, LenProperties
<1> HIDE DEF n, p
<1> SUFFICES ASSUME NEW i \in 0..n + 2, NEW j \in 0..n + 2,
                    NEW e \in Known, NEW f \in Extensions,
                    i < j, e # f, Shows(ext, p, cur2, i, e), Shows(ext, p, cur2, j, f)
             PROVE  \E k \in 1..n + 1 : i < k /\ k < j /\ Detach(p[k])
  <2>1. 0..Len(p) + 1 = 0..n + 2 /\ 1..Len(p) = 1..n + 1
    BY <1>1
  <2>. QED BY <2>1, Zenon DEF Announced, p
<1>2. e \in Extensions /\ e # "none"
  BY DEF Known, Extensions
\* A place before the new report shows what it showed.
<1>3. ASSUME NEW l \in 0..n, NEW g, Shows(ext, p, cur2, l, g)
      PROVE  Shows(ext, q, cur, l, g)
  BY <1>1, <1>3 DEF Shows, n
<1>4. ASSUME NEW g \in Extensions, Shows(ext, p, cur2, n + 1, g)
      PROVE  Names(r, g) /\ g = cur
  BY <1>1, <1>4 DEF Shows
<1>5. ASSUME NEW g, Shows(ext, p, cur2, n + 2, g)
      PROVE  g = cur2
  BY <1>1, <1>5 DEF Shows
\* What was shown before is not shown now, unless it was detached.
<1>6. ASSUME i \in 0..n, cur # e
      PROVE  \E k \in 1..n + 1 : i < k /\ k < n + 1 /\ Detach(p[k])
  <2>1. Shows(ext, q, cur, i, e) /\ Shows(ext, q, cur, n + 1, cur)
    BY <1>3, <1>6 DEF Shows, n
  <2>2. i \in 0..Len(q) + 1 /\ n + 1 \in 0..Len(q) + 1 /\ i < n + 1
    BY <1>1, <1>6 DEF n
  <2>3. \E k \in 1..Len(q) : i < k /\ k < n + 1 /\ Detach(q[k])
    BY <1>6, <2>1, <2>2 DEF Announced
  <2>4. PICK k \in 1..n : i < k /\ k < n + 1 /\ Detach(q[k])
    BY <2>3 DEF n
  <2>5. k \in 1..n + 1 /\ p[k] = q[k]
    BY <1>1, <2>4
  <2>. QED BY <2>4, <2>5
<1>7. CASE j = n + 2 /\ i = n + 1
  <2>1. Names(r, e) /\ e = cur /\ f = cur2
    BY <1>2, <1>4, <1>5, <1>7
  <2>. QED BY <1>2, <2>1 DEF Names, Detach
<1>8. CASE j = n + 2 /\ i \in 0..n
  <2>1. CASE cur # e
    BY <1>1, <1>6, <1>8, <2>1
  <2>2. CASE cur = e
    <3>1. Detach(r)
      BY <1>2, <1>5, <1>8, <2>2
    <3>2. n + 1 \in 1..n + 1 /\ i < n + 1 /\ n + 1 < j /\ p[n + 1] = r
      BY <1>1, <1>8
    <3>. QED BY <3>1, <3>2
  <2>. QED BY <2>1, <2>2
<1>9. CASE j = n + 1 /\ i \in 0..n
  BY <1>1, <1>4, <1>6, <1>9
<1>10. CASE j \in 0..n
  <2>1. i \in 0..n
    BY <1>1, <1>10
  <2>2. Shows(ext, q, cur, i, e) /\ Shows(ext, q, cur, j, f)
    BY <1>3, <1>10, <2>1
  <2>3. i \in 0..Len(q) + 1 /\ j \in 0..Len(q) + 1
    BY <1>1, <1>10, <2>1 DEF n
  <2>4. PICK k \in 1..Len(q) : i < k /\ k < j /\ Detach(q[k])
    BY <2>2, <2>3 DEF Announced
  <2>5. k \in 1..n + 1 /\ p[k] = q[k]
    BY <1>1, <2>4 DEF n
  <2>. QED BY <2>4, <2>5
<1>11. i \in 0..n + 1 /\ (j = n + 2 \/ j = n + 1 \/ j \in 0..n)
  BY <1>1
<1>12. (i = n + 1 \/ i \in 0..n) /\ (j = n + 1 => i \in 0..n)
  BY <1>1, <1>11
<1>. QED BY <1>7, <1>8, <1>9, <1>10, <1>11, <1>12

LEMMA NewsReceived ==
    ASSUME NEW h \in HostType, NEW q \in Seq(Reports), q # <<>>, NEW cur,
           Announced(h.ext, q, cur)
    PROVE  Announced(Learns(h, Head(q)).ext, Tail(q), cur)
<1> DEFINE n == Len(q)
           p == Tail(q)
           r == Head(q)
           ext == Learns(h, r).ext
<1>1. /\ n \in Nat \ {0} /\ Len(p) = n - 1
      /\ r = q[1]
      /\ \A i \in 1..n - 1 : p[i] = q[i + 1]
  BY Taken
\* What the host takes the extension for, it did before or has it from r.
<1>2. ASSUME NEW e \in Known, ext = e
      PROVE  (h.ext = e /\ ~Detach(r)) \/ Names(r, e)
  BY <1>2 DEF Learns, Known, HostType, Names, Detach
<1> HIDE DEF n, p, r, ext
<1> SUFFICES ASSUME NEW i \in 0..n, NEW j \in 0..n,
                    NEW e \in Known, NEW f \in Extensions,
                    i < j, e # f, Shows(ext, p, cur, i, e), Shows(ext, p, cur, j, f)
             PROVE  \E k \in 1..n - 1 : i < k /\ k < j /\ Detach(p[k])
  BY <1>1 DEF Announced, p, r, ext
\* A place that is not the host's is now one nearer to it.
<1>3. ASSUME NEW l \in 1..n, NEW g, Shows(ext, p, cur, l, g)
      PROVE  Shows(h.ext, q, cur, l + 1, g)
  BY <1>1, <1>3 DEF Shows, n
<1>4. Shows(h.ext, q, cur, j + 1, f) /\ i + 1 \in 0..Len(q) + 1 /\ j + 1 \in 0..Len(q) + 1
  BY <1>1, <1>3 DEF n
<1>5. \E l \in {i, i + 1} : /\ l \in 0..Len(q) + 1
                            /\ Shows(h.ext, q, cur, l, e)
                            /\ l = i => i = 0 /\ ~Detach(r)
  <2>1. CASE i = 0 /\ h.ext = e /\ ~Detach(r)
    BY <1>1, <2>1 DEF Shows, n
  <2>2. CASE i = 0 /\ Names(r, e)
    BY <1>1, <1>4, <2>2 DEF Shows, n
  <2>3. CASE i # 0
    <3>1. i \in 1..n
      BY <1>1, <2>3
    <3>2. Shows(h.ext, q, cur, i + 1, e)
      BY <1>3, <3>1
    <3>. QED BY <1>4, <3>1, <3>2
  <2>4. i = 0 => ext = e
    BY <1>1 DEF Shows
  <2>. QED BY <1>2, <2>1, <2>2, <2>3, <2>4
<1>6. PICK l \in {i, i + 1} : /\ l \in 0..Len(q) + 1
                              /\ Shows(h.ext, q, cur, l, e)
                              /\ l = i => i = 0 /\ ~Detach(r)
  BY <1>5
<1>7. l < j + 1
  BY <1>1, <1>6
<1>8. PICK k \in 1..Len(q) : l < k /\ k < j + 1 /\ Detach(q[k])
  BY <1>4, <1>6, <1>7 DEF Announced
<1>9. k # 1
  BY <1>1, <1>6, <1>8
<1>10. k - 1 \in 1..n - 1 /\ i < k - 1 /\ k - 1 < j /\ p[k - 1] = q[k]
  <2>1. k \in 2..n
    BY <1>1, <1>8, <1>9 DEF n
  <2>2. k - 1 \in 1..n - 1 /\ (k - 1) + 1 = k /\ k - 1 < j
    BY <1>1, <1>8, <2>1
  <2>3. i < k - 1
    BY <1>1, <1>6, <1>8, <2>1
  <2>. QED BY <1>1, <2>2, <2>3
<1>. QED BY <1>8, <1>10

-----------------------------------------------------------------------------
(* The invariant of the channel                                             *)

\* Unless a report was lost, the reports on their way answer what the host waits
\* for down to the read in progress, and announce every change of the extension.
Channel ==
    /\ out \in Seq(Reports) /\ host \in HostType
    /\ ~lost => /\ Answered(host.reads, out, Progress(wii.read))
                /\ Announced(host.ext, out, wii.cur)

\* What the host is sent by a handler, if it waits for the reads hr, which leave s
\* after all that is on its way.
LEMMA BecomesKeeps ==
    ASSUME HidInv, out \in Seq(Reports), NEW res, Becomes(res),
           NEW hr, NEW s \in Reads, NEW ext,
           Answers(s, res), Tells(wii, res),
           ~lost => Answered(hr, out, s) /\ Announced(ext, out, wii.cur)
    PROVE  /\ out' \in Seq(Reports)
           /\ ~lost' => /\ Answered(hr, out', Progress(wii'.read))
                        /\ Announced(ext, out', wii'.cur)
<1>1. /\ wii' = res.wii
      /\ out' = IF res.report = NoReport \/ Len(out) >= OutCap THEN out
                ELSE Append(out, res.report)
      /\ lost' = (lost \/ (res.report # NoReport /\ Len(out) >= OutCap))
  BY DEF Becomes
<1>2. wii.cur \in Extensions
  BY DEF HidInv, Good, WiimoteType
<1>3. CASE res.report = NoReport
  <2>1. out' = out /\ (~lost' => ~lost) /\ Progress(wii'.read) = s
    BY <1>1, <1>3 DEF Answers
  <2>2. wii'.cur = wii.cur
    BY <1>1, <1>3 DEF Tells, Detach, NoReport
  <2>. QED BY <2>1, <2>2
<1>4. CASE res.report # NoReport /\ Len(out) >= OutCap
  BY <1>1, <1>4
<1>5. CASE res.report # NoReport /\ ~(Len(out) >= OutCap)
  <2> DEFINE r == res.report
             q == Append(out, r)
  <2>1. out' = q /\ (~lost' => ~lost)
    BY <1>1, <1>5
  <2>2. r \in Reports /\ Fits(s, r) /\ Progress(wii'.read) = After(s, r)
    BY <1>1, <1>5 DEF Answers
  <2>3. /\ \A e \in Extensions : Names(r, e) => e = wii.cur
        /\ wii'.cur = wii.cur \/ (wii.cur = "none" /\ r.type = "status") \/ Detach(r)
    BY <1>1 DEF Tells
  <2>4. q \in Seq(Reports)
    BY <2>2, AppendProperties
  <2> HIDE DEF r
  <2>5. ASSUME ~lost PROVE Answered(hr, q, After(s, r))
    BY <2>2, <2>5, Sent
  <2>6. ASSUME ~lost PROVE Announced(ext, q, wii'.cur)
    BY <1>2, <2>2, <2>3, <2>6, NewsSent
  <2> HIDE DEF q
  <2>. QED BY <2>1, <2>2, <2>4, <2>5, <2>6
<1>. QED BY <1>3, <1>4, <1>5

\* The host knows nothing of a new connection, and nothing is on its way.
LEMMA NewChannel ==
    ASSUME NEW rd, NEW cur, ~(rd.left > 0)
    PROVE  /\ NewHost \in HostType /\ <<>> \in Seq(Reports)
           /\ Answered(NewHost.reads, <<>>, Progress(rd))
           /\ Announced(NewHost.ext, <<>>, cur)
<1> DEFINE e == <<>>
<1>1. e \in Reads /\ e \in Seq(Reports) /\ Len(e) = 0
  BY DEF Reads
<1>2. Progress(rd) = e
  BY DEF Progress
<1>3. Answered(e, e, e)
  BY NothingAsked
<1>4. NewHost = [ext |-> "none", btn |-> 0, reads |-> e]
  BY DEF NewHost
<1> HIDE DEF e
<1>5. NewHost.reads = e /\ NewHost.ext = "none" /\ NewHost \in HostType
  BY <1>1, <1>4 DEF HostType, Extensions
<1>6. Announced("none", e, cur)
  <2> SUFFICES ASSUME NEW i \in 0..1, NEW j \in 0..1, i < j,
                      NEW f \in Known, Shows("none", e, cur, i, f)
               PROVE  FALSE
    BY <1>1 DEF Announced
  <2>. QED BY <1>1 DEF Shows, Known
<1>. QED BY <1>1, <1>2, <1>3, <1>5, <1>6 DEF e

LEMMA LearnsTyped ==
    ASSUME NEW h \in HostType, NEW r \in Reports
    PROVE  Learns(h, r) \in HostType /\ Learns(h, r).reads = After(h.reads, r)
<1>1. h.reads \in Reads /\ r.btn \in {0, 1}
  BY DEF HostType, Reports
<1> DEFINE reads == After(h.reads, r)
           seen == [h EXCEPT !.btn = r.btn]
<1>2. reads \in Reads
  BY <1>1, AfterTyped
<1>3. CASE r.type = "status"
  <2> DEFINE ext == IF ~r.ext THEN "none" ELSE IF h.ext = "none" THEN "unknown" ELSE h.ext
  <2>1. Learns(h, r) = [seen EXCEPT !.ext = ext]
    BY <1>3 DEF Learns, HostType
  <2>2. reads = h.reads
    BY <1>3 DEF After
  <2>3. ext \in Extensions \cup {"unknown"}
    BY DEF HostType, Extensions
  <2> HIDE DEF ext, reads
  <2>. QED BY <1>1, <2>1, <2>2, <2>3 DEF HostType, reads
<1>4. CASE r.type = "reply" /\ h.reads # <<>>
  <2> DEFINE ext == IF h.ext = "unknown" /\ r.id # "none" THEN r.id ELSE h.ext
  <2>1. Learns(h, r) = [seen EXCEPT !.ext = ext, !.reads = reads]
    BY <1>4 DEF Learns, HostType, After
  <2>2. ext \in Extensions \cup {"unknown"}
    BY <1>4 DEF HostType, Extensions, Reports
  <2> HIDE DEF ext, reads
  <2>. QED BY <1>1, <1>2, <2>1, <2>2 DEF HostType, reads
<1>5. CASE r.type = "ack" /\ r.of = "read" /\ Len(h.reads) >= 2
  <2>1. Learns(h, r) = [seen EXCEPT !.reads = reads]
    BY <1>5 DEF Learns, HostType, After
  <2> HIDE DEF reads
  <2>. QED BY <1>1, <1>2, <2>1 DEF HostType, reads
<1>6. CASE /\ r.type # "status"
           /\ ~(r.type = "reply" /\ h.reads # <<>>)
           /\ ~(r.type = "ack" /\ r.of = "read" /\ Len(h.reads) >= 2)
  <2>1. Learns(h, r) = seen
    BY <1>6 DEF Learns
  <2>2. reads = h.reads
    BY <1>6 DEF After
  <2> HIDE DEF reads
  <2>. QED BY <1>1, <2>1, <2>2 DEF HostType, reads
<1>. QED BY <1>3, <1>4, <1>5, <1>6

LinkInv == HidInv /\ Channel

LEMMA LinkInvInit == Init => LinkInv
<1> SUFFICES ASSUME Init PROVE LinkInv
  OBVIOUS
<1>1. HidInv
  BY HidInvInit
<1>2. ~(wii.read.left > 0)
  <2>1. wii.read.left = 0
    BY DEF Init, InitState, ResetExtension, ZeroWiimote, NoRead
  <2>. QED BY <2>1
<1>3. host = NewHost /\ out = <<>>
  BY DEF Init
<1>. QED BY <1>1, <1>2, <1>3, NewChannel DEF LinkInv, Channel

\* Every step keeps the channel's invariant.
LEMMA LinkInvNext == LinkInv /\ [Next]_vars => LinkInv'
<1> SUFFICES ASSUME LinkInv, [Next]_vars PROVE LinkInv'
  OBVIOUS
<1>1. HidInv /\ Channel /\ HidInv'
  BY HidInvNext DEF LinkInv
<1>2. wii \in Good /\ wii.read \in [space : Spaces, addr : Nat, left : Nat]
  BY <1>1 DEF HidInv, Good, WiimoteType
<1>3. Progress(wii.read) \in Reads
  BY <1>2, ProgressTyped
<1>4. CASE Tick
  <2> DEFINE res == TickStep(wii, dev, pad)
  <2>1. Answers(Progress(wii.read), res) /\ Tells(wii, res)
    BY <1>1, TickSends DEF HidInv
  <2>2. Becomes(res) /\ host' = host
    BY <1>4 DEF Tick
  <2> HIDE DEF res
  <2>3. /\ out' \in Seq(Reports)
        /\ ~lost' => /\ Answered(host.reads, out', Progress(wii'.read))
                     /\ Announced(host.ext, out', wii'.cur)
    BY <1>1, <1>3, <2>1, <2>2, BecomesKeeps DEF Channel
  <2>. QED BY <1>1, <2>2, <2>3 DEF LinkInv, Channel
<1>5. ASSUME NEW what \in [combo : BOOLEAN, pressed : {0, 1}], Press(what) PROVE LinkInv'
  BY <1>1, <1>5 DEF Press, LinkInv, Channel
<1>6. ASSUME NEW scene \in DOMAIN Outputs, NEW o \in Outputs[scene], HostOutput(o)
      PROVE  LinkInv'
  <2> DEFINE res == Output(wii, o)
             s == AskedReads(wii, o)
             rd == Request(o)
  <2>1. IsOutput(o)
    BY OutputsAssumption DEF IsOutput
  <2>2. Answers(s, res) /\ Tells(wii, res)
    BY <1>2, <2>1, OutputSends
  <2>3. Becomes(res)
    BY <1>6 DEF HostOutput
  <2>4. CASE Waited(wii, o)
    <3>1. s = Append(Progress(wii.read), rd) /\ rd \in ReadRec
      BY <2>1, <2>4 DEF AskedReads, Waited, Request, IsOutput, ReadRec
    <3>2. host' = [host EXCEPT !.reads = Append(@, rd)]
      BY <1>6, <2>4 DEF HostOutput, Waited, Request
    <3> HIDE DEF rd, res, s
    <3>3. host.reads \in Reads
      BY <1>1 DEF Channel, HostType
    <3> DEFINE hr == Append(host.reads, rd)
    <3>4. s \in Reads /\ hr \in Reads
      BY <1>3, <3>1, <3>3, AppendProperties DEF Reads
    <3>5. ~lost => Answered(hr, out, s) /\ Announced(host.ext, out, wii.cur)
      BY <1>1, <3>1, Asked DEF Channel
    <3> HIDE DEF hr
    <3>6. host' = [host EXCEPT !.reads = hr]
      BY <3>2 DEF hr
    <3>7. host' \in HostType /\ host'.reads = hr /\ host'.ext = host.ext
      BY <1>1, <3>4, <3>6 DEF Channel, HostType
    <3>8. /\ out' \in Seq(Reports)
          /\ ~lost' => /\ Answered(hr, out', Progress(wii'.read))
                       /\ Announced(host.ext, out', wii'.cur)
      BY <1>1, <2>2, <2>3, <3>4, <3>5, BecomesKeeps DEF Channel
    <3>. QED BY <1>1, <3>7, <3>8 DEF LinkInv, Channel
  <2>5. CASE ~Waited(wii, o)
    <3>1. s = Progress(wii.read)
      BY <2>5 DEF AskedReads
    <3>2. host' = host
      BY <1>6, <2>5 DEF HostOutput, Waited
    <3> HIDE DEF res, s
    <3>3. /\ out' \in Seq(Reports)
          /\ ~lost' => /\ Answered(host.reads, out', Progress(wii'.read))
                       /\ Announced(host.ext, out', wii'.cur)
      BY <1>1, <1>3, <2>2, <2>3, <3>1, BecomesKeeps DEF Channel
    <3>. QED BY <1>1, <3>2, <3>3 DEF LinkInv, Channel
  <2>. QED BY <2>4, <2>5
<1>7. CASE HostRead
  <2> DEFINE r == Head(out)
             p == Tail(out)
             h == Learns(host, r)
  <2>1. out # <<>> /\ out' = p /\ host' = h /\ wii' = wii /\ lost' = lost
    BY <1>7 DEF HostRead
  <2>2. r \in Reports /\ p \in Seq(Reports)
    BY <1>1, <2>1, Taken DEF Channel
  <2>3. h \in HostType /\ h.reads = After(host.reads, r)
    BY <1>1, <2>2, LearnsTyped DEF Channel
  <2>4. ASSUME ~lost
        PROVE  /\ Answered(After(host.reads, r), p, Progress(wii.read))
               /\ Announced(h.ext, p, wii.cur)
    BY <1>1, <2>1, <2>4, Received, NewsReceived DEF Channel
  <2> HIDE DEF r, p, h
  <2>. QED BY <1>1, <2>1, <2>2, <2>3, <2>4 DEF LinkInv, Channel
<1>8. ASSUME NEW d \in {dev, Added(dev)}, Reconnect(d) PROVE LinkInv'
  <2>1. wii' = InitState(wii) /\ out' = <<>> /\ host' = NewHost
    BY <1>8 DEF Reconnect
  <2>2. ~(wii'.read.left > 0)
    <3> DEFINE x == ResetExtension(wii)
    <3>1. x \in WiimoteType
      BY <1>2, ResetGood DEF Good
    <3>2. InitState(wii) = [x EXCEPT !.cur = "none", !.new = "none", !.mode = "btn",
                                     !.cont = FALSE, !.btn = 0, !.dirty = FALSE,
                                     !.read = [@ EXCEPT !.left = 0]]
      BY DEF InitState
    <3> HIDE DEF x
    <3>3. InitState(wii).read = [x.read EXCEPT !.left = 0]
      BY <3>1, <3>2 DEF WiimoteType
    <3>4. InitState(wii).read.left = 0
      BY <3>1, <3>3 DEF WiimoteType
    <3>. QED BY <2>1, <3>4
  <2>. QED BY <1>1, <2>1, <2>2, NewChannel DEF LinkInv, Channel
<1>9. CASE UNCHANGED vars
  BY <1>1, <1>9 DEF vars, LinkInv, Channel
<1>. QED BY <1>4, <1>5, <1>6, <1>7, <1>8, <1>9 DEF Next

\* The replies of fake_wiimote_process_read_request are those the host waits for,
\* in its order and without a gap, whatever it reads or is refused meanwhile, for
\* every layout of the registers and any number of reports on their way, as long
\* as none was lost.
THEOREM RepliesFit == Spec => []RepliesMatchReads
<1>1. LinkInv => RepliesMatchReads
  BY Received DEF LinkInv, Channel, RepliesMatchReads, Fits
<1>. QED BY <1>1, LinkInvInit, LinkInvNext, PTL DEF Spec

\* Data reports of fake_wiimote_send_data_report are of the extension that the
\* host takes the Wiimote to have: the detachment that
\* fake_wiimote_process_extension_change reports always goes before.
THEOREM DataAnnounced == Spec => []DataOfKnownExtension
<1>1. LinkInv => DataOfKnownExtension
  <2> SUFFICES ASSUME LinkInv, out # <<>>, Head(out).type = "data", ~lost, host.ext \in Known
               PROVE  Head(out).as = host.ext
    BY DEF DataOfKnownExtension, Known
  <2> DEFINE f == Head(out).as
  <2>1. out \in Seq(Reports) /\ Announced(host.ext, out, wii.cur)
    BY DEF LinkInv, Channel
  <2>2. Len(out) \in Nat \ {0} /\ Head(out) = out[1] /\ Head(out) \in Reports
    BY <2>1, Taken
  <2>3. f \in Extensions
    BY <2>2 DEF Reports
  <2>4. /\ Shows(host.ext, out, wii.cur, 0, host.ext)
        /\ Shows(host.ext, out, wii.cur, 1, f)
        /\ 0 \in 0..Len(out) + 1 /\ 1 \in 0..Len(out) + 1
    BY <2>2 DEF Shows, Names
  <2>5. ASSUME f # host.ext
        PROVE  \E k \in 1..Len(out) : 0 < k /\ k < 1 /\ Detach(out[k])
    BY <2>1, <2>3, <2>4, <2>5 DEF Announced
  <2>. QED BY <2>5
<1>. QED BY <1>1, LinkInvInit, LinkInvNext, PTL DEF Spec
================================================================================
