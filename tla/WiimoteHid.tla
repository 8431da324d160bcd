------------------------------- MODULE WiimoteHid -------------------------------
(***************************************************************************)
(* What a linked fake Wiimote does above its interrupt channel             *)
(* (fake_wiimote.c, input_device_report_input of input_device.c): it polls *)
(* its gamepad and sends data reports, lets the host read and write its    *)
(* EEPROM, camera and extension registers, encrypts what is read of the    *)
(* extension, and changes extension when the player asks for it.           *)
(*                                                                         *)
(* Output reports of the host are handled at once; the reports for the     *)
(* host wait in a FIFO of bounded capacity.  Registers are cells of small  *)
(* values, laid out like the code's, with the sizes as constants.          *)
(***************************************************************************)
EXTENDS Naturals, Sequences

CONSTANTS
    RegSize,            \* registers of the extension, 256 in the code
    DataSize,           \* those with the controller data, 21 in the code
    KeyBegin, KeyEnd,   \* those with the key data, 0x40 and 0x50 in the code
    EncAddr,            \* the one that turns the encryption on, 0xF0
    IdAddr,             \* the one with the identifier, 0xFA to 0xFF
    EepromSize,         \* EEPROM_FREE_SIZE
    Piece,              \* registers in a reply or a write request, 16
    AddrCount,          \* 16-bit addresses, 2^16
    OutCap,             \* reports that can wait for the host
    Outputs,            \* the output reports the host may send, by scene
    Budgets             \* the scenes: how often each disturbance may happen

ASSUME HidAssumption ==
    /\ RegSize \in Nat /\ EepromSize \in Nat /\ OutCap \in Nat
    /\ DataSize \in Nat /\ KeyBegin \in Nat /\ KeyEnd \in Nat
    /\ EncAddr \in Nat /\ IdAddr \in Nat
    /\ 0 < DataSize /\ DataSize <= KeyBegin /\ KeyBegin < KeyEnd
    /\ KeyEnd <= EncAddr /\ EncAddr < IdAddr /\ IdAddr < RegSize
    /\ Piece \in Nat \ {0} /\ AddrCount \in Nat /\ RegSize <= AddrCount

Spaces == {"eeprom", "ext", "camera", "eeprom_i2c", "nobody", "bad"}
Addr == 0..RegSize - 1
Byte == 0..2
EncOn == 1                  \* ENCRYPTION_ENABLED

Extensions == {"none", "nunchuk", "classic"}
Modes == {"disabled", "btn", "btn_ext"}

ASSUME OutputsAssumption ==
    \A scene \in DOMAIN Outputs : \A o \in Outputs[scene] :
        /\ o.type \in {"status", "feature", "mode", "write", "read"}
        /\ o.type = "mode" => o.mode \in Modes /\ o.cont \in BOOLEAN
        /\ o.type = "write" => o.space \in Spaces /\ o.addr \in Nat /\ o.bytes \in Seq(Byte)
        /\ o.type = "read" => o.space \in Spaces /\ o.addr \in Nat /\ o.size \in Nat

VARIABLES
    wii,        \* the fake Wiimote
    dev,        \* its input device: the extension it emulates, and whether
                \* the combination that switches it was seen pressed
    pad,        \* what the player does: buttons and the combination
    out,        \* reports on their way to the host
    lost,       \* a report found no room
    host,       \* what the host knows: the extension, the buttons, and what
                \* it has asked to read
    budget      \* disturbances that may still happen

vars == <<wii, dev, pad, out, lost, host, budget>>

-----------------------------------------------------------------------------
(* The definitions named ..._Without... and ..._With... are faulty variants  *)
(* that the runs must tell from the code.                                    *)
(*                                                                          *)
(* A handler maps the Wiimote to the next one, and sends at most one        *)
(* report; no handler looks at whether the report could be queued.          *)

NoReport == [type |-> "nothing"]

Result(x, r) == [wii |-> x, report |-> r]

Plain == <<>>                       \* the key of what is not encrypted
NoKey == <<>>                       \* a key that was never generated

Ack(x, what, error) == [type |-> "ack", btn |-> x.btn, of |-> what, error |-> error]
Status(x) == [type |-> "status", btn |-> x.btn, ext |-> x.cur # "none"]

-----------------------------------------------------------------------------
(* Registers of the extension                                               *)

\* wiimote_crypto_generate_key_from_extension_key_data: some function of the
\* key data.
KeyData(regs) == [i \in 1..(KeyEnd - KeyBegin) |-> regs[KeyBegin + i - 1]]
Key(regs) == <<"key", KeyData(regs)>>

IdOf(ext) == CASE ext = "none" -> 0 [] ext = "nunchuk" -> 1 [] ext = "classic" -> 2

\* Controller data at rest; 0 if there is no extension.
AtRest(ext) == IF ext = "none" THEN 0 ELSE 1

\* fake_wiimote_reset_extension_state
ResetExtension(x) ==
    [x EXCEPT !.regs = [a \in Addr |-> IF a = IdAddr THEN IdOf(x.cur)
                                       ELSE IF a < DataSize THEN AtRest(x.cur) ELSE 0],
              !.key = NoKey, !.keyDirty = TRUE]

FreshKey(x) == IF x.keyDirty THEN [x EXCEPT !.key = Key(x.regs), !.keyDirty = FALSE] ELSE x

\* extension_read_data, for an access that stays within the registers: the key
\* is brought up to date when it is needed.
Encrypted(x) == x.regs[EncAddr] = EncOn
ExtensionRead(x) == IF Encrypted(x) THEN FreshKey(x) ELSE x
ReadKey(x) == IF Encrypted(x) THEN FreshKey(x).key ELSE Plain

TouchesKey_WithoutLast(addr, n) == addr + n > KeyBegin /\ addr < KeyEnd - 1

\* The test for the key area in extension_write_data.
TouchesKey(addr, n) == addr + n > KeyBegin /\ addr < KeyEnd

\* extension_write_data
ExtensionWrite(x, addr, bytes) ==
    LET n == Len(bytes) IN
    [x EXCEPT !.regs = [a \in Addr |-> IF a \in addr..addr + n - 1
                                       THEN bytes[a - addr + 1] ELSE @[a]],
              !.keyDirty = @ \/ TouchesKey(addr, n)]

-----------------------------------------------------------------------------
(* Read and write requests                                                  *)

NoRead == [space |-> "ext", addr |-> 0, left |-> 0]

Least(a, b) == IF a < b THEN a ELSE b

\* What a piece of n registers at addr, of a request with `left' to go, is
\* answered with.  Spaces are the EEPROM, the extension and the camera on the
\* I2C bus, the EEPROM through that bus, a slave that does not exist, which
\* reads as zero, and a space that does not exist.
Error(space, addr, n, left) ==
    CASE space = "eeprom" -> IF addr + left > EepromSize THEN "address" ELSE "success"
      [] space \in {"ext", "camera"} -> IF addr + n > RegSize THEN "nack" ELSE "success"
      [] space = "eeprom_i2c" -> "address"
      [] space = "nobody" -> "success"
      [] space = "bad" -> "space"

\* The registers the next piece of a request has.
PieceOf(rd) == Least(Piece, rd.left)

\* What is left of a request after a piece; nothing if there was an error.
Advanced(rd, error) ==
    IF error # "success" THEN [rd EXCEPT !.left = 0]
    ELSE [rd EXCEPT !.addr = (@ + PieceOf(rd)) % AddrCount, !.left = @ - PieceOf(rd)]

\* fake_wiimote_process_read_request with a request in progress.  `id' tells
\* whether the identifier of the extension is in the reply, and of which.
ReadPiece(x) ==
    LET rd == x.read
        n == PieceOf(rd)
        error == Error(rd.space, rd.addr, n, rd.left)
        ofExt == rd.space = "ext" /\ error = "success"
        y == IF ofExt THEN ExtensionRead(x) ELSE x
    IN  Result([y EXCEPT !.read = Advanced(rd, error)],
               [type |-> "reply", btn |-> x.btn, addr |-> rd.addr,
                n |-> IF error = "success" THEN n ELSE Piece, error |-> error,
                id |-> IF ofExt /\ IdAddr \in rd.addr..rd.addr + n - 1
                       THEN x.cur ELSE "none",
                key |-> IF ofExt THEN ReadKey(x) ELSE Plain])

\* fake_wiimote_process_write_request; contents other than the extension's are
\* not modelled.
Write(x, o) ==
    LET n == Len(o.bytes)
        error == Error(o.space, o.addr, n, n)
    IN  IF n = 0 \/ n > Piece THEN Result(x, NoReport)
        ELSE Result(IF o.space = "ext" /\ error = "success"
                    THEN ExtensionWrite(x, o.addr, o.bytes) ELSE x,
                    Ack(x, "write", error))

StartRead_WithoutBusy(x, o) ==
    LET y == [x EXCEPT !.read = [space |-> o.space, addr |-> o.addr, left |-> o.size]]
    IN  IF o.size = 0 THEN Result(y, NoReport) ELSE ReadPiece(y)

\* A read request starts at once, and goes on at the next ticks.
StartRead(x, o) ==
    LET y == [x EXCEPT !.read = [space |-> o.space, addr |-> o.addr, left |-> o.size]]
    IN  IF x.read.left > 0 THEN Result(x, Ack(x, "read", "busy"))
        ELSE IF o.size = 0 THEN Result(y, NoReport)
        ELSE ReadPiece(y)

\* handle_hid_intr_data_output.  "feature" stands for LEDs, the camera, the
\* speaker: an acknowledgement if the host wants one.
Output(x, o) ==
    CASE o.type = "status" -> Result(x, Status(x))
      [] o.type = "feature" -> Result(x, IF o.ack THEN Ack(x, "feature", "success")
                                                  ELSE NoReport)
      [] o.type = "mode" -> Result([x EXCEPT !.mode = o.mode, !.cont = o.cont],
                                   IF o.ack THEN Ack(x, "mode", "success") ELSE NoReport)
      [] o.type = "write" -> Write(x, o)
      [] o.type = "read" -> StartRead(x, o)

-----------------------------------------------------------------------------
(* The periodic timer                                                       *)

ExtensionChange_WithoutDetach(x) ==
    LET y == ResetExtension([x EXCEPT !.mode = "disabled", !.cur = x.new])
    IN  Result(y, Status(y))

\* fake_wiimote_process_extension_change with a change to make: an extension is
\* detached before another one is attached.
ExtensionChange(x) ==
    LET y == ResetExtension([x EXCEPT !.mode = "disabled",
                                      !.cur = IF @ = "none" THEN x.new ELSE "none"])
    IN  Result(y, Status(y))

SendData_WithEarlyClean(x) ==
    LET due == x.mode # "disabled" /\ (x.cont \/ x.dirty)
        y == IF due /\ x.mode = "btn_ext" THEN ExtensionRead(x) ELSE x
    IN  Result([y EXCEPT !.dirty = FALSE],
               IF due THEN [type |-> "data", btn |-> x.btn, mode |-> x.mode, as |-> x.cur]
                      ELSE NoReport)

\* fake_wiimote_send_data_report
SendData(x) ==
    LET y == IF x.mode = "btn_ext" THEN ExtensionRead(x) ELSE x
    IN  IF x.mode # "disabled" /\ (x.cont \/ x.dirty)
        THEN Result([y EXCEPT !.dirty = FALSE],
                    [type |-> "data", btn |-> x.btn, mode |-> x.mode, as |-> x.cur])
        ELSE Result(x, NoReport)

\* The buttons and the controller data that a gamepad's buttons are mapped to;
\* with the Classic Controller all of them are the controller's.
Buttons(ext, pressed) == IF ext = "nunchuk" THEN pressed ELSE 0
ControllerData(ext, pressed) == IF ext = "nunchuk" THEN 1 ELSE 1 + pressed

\* fake_wiimote_report_input_ext
ReportInput(x, btn, data) ==
    LET old == [a \in 0..DataSize - 1 |-> x.regs[a]]
        new == [a \in 0..DataSize - 1 |-> data]
    IN  IF x.btn = btn /\ old = new THEN x
        ELSE [x EXCEPT !.btn = btn, !.dirty = TRUE,
                       !.regs = [a \in Addr |-> IF a < DataSize THEN data ELSE @[a]]]

Other(ext) == IF ext = "nunchuk" THEN "classic" ELSE "nunchuk"

Switches_WithoutEdge(d, p) == p.combo

\* bm_check_switch_mapping: pressed, and not at the last poll.
Switches(d, p) == p.combo /\ ~d.held

\* input_device_report_input and what follows it.
Poll(x, d, p) ==
    IF Switches(d, p) THEN Result([x EXCEPT !.new = Other(d.ext)], NoReport)
    ELSE SendData(ReportInput(x, Buttons(d.ext, p.pressed),
                              ControllerData(d.ext, p.pressed)))

Polled(d, p) == [ext |-> IF Switches(d, p) THEN Other(d.ext) ELSE d.ext,
                 held |-> p.combo]

Busy(x) == x.read.left > 0 \/ x.new # x.cur

TickStep_WithEarlyChange(x, d, p) ==
    IF x.new # x.cur THEN ExtensionChange(x)
    ELSE IF x.read.left > 0 THEN ReadPiece(x)
    ELSE Poll(x, d, p)

\* fake_wiimote_tick of a linked Wiimote.
TickStep(x, d, p) ==
    IF x.read.left > 0 THEN ReadPiece(x)
    ELSE IF x.new # x.cur THEN ExtensionChange(x)
    ELSE Poll(x, d, p)

-----------------------------------------------------------------------------
(* The beginning of a connection                                            *)

\* fake_wiimote_init_state: the extension registers are reset while cur is
\* still the extension of the former connection.
InitState(x) ==
    [ResetExtension(x) EXCEPT !.cur = "none", !.new = "none", !.mode = "btn",
                              !.cont = FALSE, !.btn = 0, !.dirty = FALSE,
                              !.read.left = 0]

\* Static data.
ZeroWiimote == [cur |-> "none", new |-> "none", mode |-> "disabled", cont |-> FALSE,
                btn |-> 0, dirty |-> FALSE, regs |-> [a \in Addr |-> 0],
                key |-> NoKey, keyDirty |-> FALSE, read |-> NoRead]

\* input_device_handle_added; whether the combination was held is not reset.
Added(d) == [d EXCEPT !.ext = "nunchuk"]

NewHost == [ext |-> "none", btn |-> 0, reads |-> <<>>]

Init ==
    /\ wii = InitState(ZeroWiimote)
    /\ dev = [ext |-> "nunchuk", held |-> FALSE]
    /\ pad = [combo |-> FALSE, pressed |-> 0]
    /\ out = <<>>
    /\ lost = FALSE
    /\ host = NewHost
    /\ budget \in Budgets

Spend(what) == budget[what] > 0 /\ budget' = [budget EXCEPT ![what] = @ - 1]

\* (The result is taken from a set so that TLC computes it once.)
Becomes(result) ==
    \E res \in {result} :
        /\ wii' = res.wii
        /\ out' = IF res.report = NoReport \/ Len(out) >= OutCap THEN out
                  ELSE Append(out, res.report)
        /\ lost' = (lost \/ (res.report # NoReport /\ Len(out) >= OutCap))

Tick ==
    /\ Becomes(TickStep(wii, dev, pad))
    /\ dev' = IF Busy(wii) THEN dev ELSE Polled(dev, pad)
    /\ UNCHANGED <<pad, host, budget>>

\* The player does something with the gamepad.
Press(what) ==
    /\ pad' = what /\ pad # what
    /\ Spend("press")
    /\ UNCHANGED <<wii, dev, out, lost, host>>

\* The host sends an output report; of reads it remembers which ones are to be
\* answered: a read of nothing is only if it is refused.
HostOutput(o) ==
    /\ Spend(o.type)
    /\ Becomes(Output(wii, o))
    /\ host' = IF o.type = "read" /\ (o.size > 0 \/ wii.read.left > 0)
               THEN [host EXCEPT !.reads = Append(@, [addr |-> o.addr, left |-> o.size])]
               ELSE host
    /\ UNCHANGED <<dev, pad>>

\* The oldest read that is not answered goes on with reply r.
Advance(reads, r) ==
    LET rd == Head(reads) IN
    IF r.error # "success" \/ rd.left <= r.n THEN Tail(reads)
    ELSE <<[addr |-> (rd.addr + r.n) % AddrCount, left |-> rd.left - r.n]>> \o Tail(reads)

\* What the host learns from report r.  An extension that was attached is
\* unknown until its identifier is read.  A read that was refused is the one
\* after the read in progress.
Learns(h, r) ==
    LET seen == [h EXCEPT !.btn = r.btn] IN
    CASE r.type = "status" ->
           [seen EXCEPT !.ext = IF ~r.ext THEN "none"
                                ELSE IF @ = "none" THEN "unknown" ELSE @]
      [] r.type = "reply" /\ h.reads # <<>> ->
           [seen EXCEPT !.ext = IF @ = "unknown" /\ r.id # "none" THEN r.id ELSE @,
                        !.reads = Advance(@, r)]
      [] r.type = "ack" /\ r.of = "read" /\ Len(h.reads) >= 2 ->
           [seen EXCEPT !.reads = <<Head(@)>> \o Tail(Tail(@))]
      [] OTHER -> seen

HostRead ==
    /\ out # <<>>
    /\ out' = Tail(out)
    /\ host' = Learns(host, Head(out))
    /\ UNCHANGED <<wii, dev, pad, lost, budget>>

\* The connection ends and the Wiimote is connected again, for the same gamepad
\* or for one that was plugged in.
Reconnect(d) ==
    /\ Spend("reconnect")
    /\ wii' = InitState(wii)
    /\ dev' = d
    /\ out' = <<>> /\ lost' = FALSE /\ host' = NewHost
    /\ UNCHANGED pad

Next ==
    \/ Tick
    \/ \E what \in [combo : BOOLEAN, pressed : {0, 1}] : Press(what)
    \/ \E scene \in DOMAIN Outputs :
          scene = budget.scene /\ \E o \in Outputs[scene] : HostOutput(o)
    \/ HostRead
    \/ \E d \in {dev, Added(dev)} : Reconnect(d)

Spec == Init /\ [][Next]_vars

\* The timer is periodic, and the host reads its reports.
Fairness == WF_vars(Tick) /\ WF_vars(HostRead)

LiveSpec == Spec /\ Fairness

-----------------------------------------------------------------------------
(* Properties                                                               *)

KeyDatas == [1..(KeyEnd - KeyBegin) -> Byte]
WiimoteType ==
    [cur : Extensions, new : Extensions, mode : Modes, cont : BOOLEAN, btn : {0, 1},
     dirty : BOOLEAN, regs : [Addr -> Byte], key : {NoKey} \cup {<<"key", d>> : d \in KeyDatas},
     keyDirty : BOOLEAN, read : [space : Spaces, addr : Nat, left : Nat]]

\* The Wiimote, its gamepad and what the player does have their types.
HidTypeOK ==
    /\ wii \in WiimoteType
    /\ dev \in [ext : Extensions \ {"none"}, held : BOOLEAN]
    /\ pad \in [combo : BOOLEAN, pressed : {0, 1}]

\* The key the extension is read with is the one of its key data, however the
\* host wrote them, in which pieces and order, and whichever extension was
\* attached meanwhile: a key that is not marked dirty is up to date.
KeyFresh == ~wii.keyDirty => wii.key = Key(wii.regs)

\* Every reply the host reads belongs to the oldest of its reads that is not
\* answered, and goes on where the last one ended, also if reads were refused
\* or failed on the way, as long as no report was lost.
RepliesMatchReads ==
    out # <<>> /\ Head(out).type = "reply" /\ ~lost =>
        LET r == Head(out) IN
        /\ host.reads # <<>>
        /\ r.addr = Head(host.reads).addr
        /\ r.error = "success" => r.n = Least(Piece, Head(host.reads).left)

\* Controller data never reaches the host while it takes the extension for
\* another one: a change is announced before, whenever the player made it.
DataOfKnownExtension ==
    out # <<>> /\ Head(out).type = "data" /\ ~lost =>
        (host.ext \in {"nunchuk", "classic"} => Head(out).as = host.ext)

\* Between the pieces of a read nothing but the host itself changes what it
\* reads: no extension change and no input of the player.
ReadNotTorn ==
    [][Tick /\ wii.read.left > 0
         => wii'.regs = wii.regs /\ wii'.cur = wii.cur]_vars

\* A button that is pressed for long enough reaches the host, in either
\* reporting mode, as long as reports are enabled and none is lost, also if it
\* was pressed while they were disabled, or during a read.
InputReachesHost ==
    <>[](wii.mode # "disabled" /\ ~lost)
        => <>[](host.btn = Buttons(dev.ext, pad.pressed))

\* The extension settles, also if the combination is held down: one press makes
\* one switch, and a switch is carried out, by detaching and attaching.
ExtensionSettles == <>[](wii.cur = wii.new)
================================================================================
