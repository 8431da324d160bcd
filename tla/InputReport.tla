------------------------------- MODULE InputReport -------------------------------
(***************************************************************************)
(* What a data report of a fake Wiimote says (fake_wiimote.c, button_map.c,*)
(* the tables of input_device.c, the layouts of wiimote.h): the buttons,   *)
(* accelerometer, camera and extension of an emulated Wiimote are packed   *)
(* into at most 21 bytes, in a layout that the host chooses, and sent when *)
(* something has changed, or always.                                       *)
(*                                                                         *)
(* The host unpacks a report by the layout of the protocol, written down   *)
(* here for itself.  The extension stays the same and is not encrypted:    *)
(* modules WiimoteHid and ExtCrypto are about that; the player holds no    *)
(* combination that switches something.                                    *)
(***************************************************************************)
EXTENDS Integers, Sequences, SequencesExt, FiniteSetsExt, TLC

CONSTANTS
    Ext,            \* the extension, "nunchuk" or "classic"
    HasMotion,      \* the gamepad has an accelerometer
    ReportModes,    \* report modes the host uses
    Continuous,     \* whether it may ask for continuous reports, or not
    CameraModes,    \* modes of the camera the host uses
    Inputs          \* what the player may do with the gamepad

ReportAssumption ==
    /\ Ext \in {"nunchuk", "classic"} /\ HasMotion \in BOOLEAN
    /\ ReportModes \subseteq 1..255 /\ CameraModes \subseteq 0..255
    /\ Continuous \subseteq BOOLEAN

VARIABLES
    conf,       \* what the host has configured: report mode, camera mode
    wii,        \* what is to be reported: buttons, motion, extension, camera
    pad,        \* what the player did at the last poll
    host,       \* the last report, with the configuration it was made for
    fresh       \* it was made at the last poll

vars == <<conf, wii, pad, host, fresh>>

Bits(n, low, count) == (n \div 2^low) % 2^count
Byte == 0..255

-----------------------------------------------------------------------------
(* The definitions named ..._Without... and ..._With... are faulty variants  *)
(* that the runs must tell from the code.                                    *)
(*                                                                          *)
(* Buttons: those of the gamepad stand for some of a Wiimote, a Nunchuk and  *)
(* a Classic Controller, which are bits.                                     *)

WiimoteBit ==
    [two |-> 0, one |-> 1, b |-> 2, a |-> 3, minus |-> 4, home |-> 7, left |-> 8,
     right |-> 9, down |-> 10, up |-> 11, plus |-> 12]
NunchukBit == [z |-> 0, c |-> 1]
ClassicBit ==
    [up |-> 0, left |-> 1, zr |-> 2, x |-> 3, a |-> 4, y |-> 5, b |-> 6, zl |-> 7,
     full_r |-> 9, plus |-> 10, home |-> 11, minus |-> 12, full_l |-> 13, down |-> 14,
     right |-> 15]

WiimoteMap ==
    [north |-> "one", east |-> "b", south |-> "a", west |-> "two", dpad_up |-> "up",
     dpad_down |-> "down", dpad_left |-> "left", dpad_right |-> "right",
     start |-> "plus", back |-> "minus", left_stick |-> "home"]
NunchukMap == [left_shoulder |-> "c", right_shoulder |-> "z"]
ClassicMap ==
    [north |-> "x", east |-> "a", south |-> "b", west |-> "y", dpad_up |-> "up",
     dpad_down |-> "down", dpad_left |-> "left", dpad_right |-> "right",
     start |-> "plus", back |-> "minus", right_paddle |-> "zr", left_paddle |-> "zl",
     right_shoulder |-> "full_r", left_shoulder |-> "full_l", left_stick |-> "home"]

\* bm_map_...: what the pressed buttons of the gamepad stand for.
MapButtons(map, pressed) == {map[p] : p \in pressed \cap DOMAIN map}
Pack(bit, names) == MapThenSumSet(LAMBDA n : 2^bit[n], names)
Unpack(bit, n) == {name \in DOMAIN bit : Bits(n, bit[name], 1) = 1}

WiimoteButtons(in) ==
    IF Ext = "nunchuk" THEN MapButtons(WiimoteMap, in.pressed) ELSE {}

-----------------------------------------------------------------------------
(* Controller data of the extension                                         *)

\* s16_to_u8
S16ToU8(v) == (128 + v \div 256) % 256

\* bm_nunchuk_format; the Nunchuk is not moved, and pressed buttons are 0.
NunchukData(in) ==
    <<S16ToU8(in.lx), S16ToU8(in.ly), 0, 0, 0,
      3 - Pack(NunchukBit, MapButtons(NunchukMap, in.pressed))>>

ClassicAll == 65535 - 256   \* CLASSIC_CTRL_BUTTON_ALL

ClassicData(in) ==
    LET lx == S16ToU8(in.lx) \div 4  ly == S16ToU8(in.ly) \div 4
        rx == S16ToU8(in.rx) \div 8  ry == S16ToU8(in.ry) \div 8
        names == MapButtons(ClassicMap, in.pressed)
        lt == IF "full_l" \in names THEN 31 ELSE 0
        rt == IF "full_r" \in names THEN 31 ELSE 0
        hex == ClassicAll - Pack(ClassicBit, names)
    IN  <<Bits(rx, 3, 2) * 64 + lx, Bits(rx, 1, 2) * 64 + ly,
          Bits(rx, 0, 1) * 128 + Bits(lt, 3, 2) * 32 + ry, Bits(lt, 0, 3) * 32 + rt,
          hex \div 256, hex % 256>>

ExtData(in) == IF Ext = "nunchuk" THEN NunchukData(in) ELSE ClassicData(in)

\* fake_wiimote_reset_extension_state: sticks at rest, nothing pressed.
AtRest == ExtData([pressed |-> {}, lx |-> 0, ly |-> 0, rx |-> 0, ry |-> 0])

-----------------------------------------------------------------------------
(* Camera data (fake_wiimote_report_ir_dots)                                *)

DotSize == 4
Repeat(byte, n) == [i \in 1..n |-> byte]

TwoDots(d1, d2) ==
    <<Bits(d1.x, 0, 8), Bits(d1.y, 0, 8),
      Bits(d1.y, 8, 2) * 64 + Bits(d1.x, 8, 2) * 16 + Bits(d2.y, 8, 2) * 4 + Bits(d2.x, 8, 2),
      Bits(d2.x, 0, 8), Bits(d2.y, 0, 8)>>
SizedDot(d) ==
    <<Bits(d.x, 0, 8), Bits(d.y, 0, 8), Bits(d.y, 8, 2) * 64 + Bits(d.x, 8, 2) * 16 + DotSize>>
FullDot(d) == SizedDot(d) \o <<0, 127, 0, 127, 0, 255>>

CameraBytes == 36

\* What is written, from the first byte on; a mode that is unknown is reported
\* as seeing nothing.
CameraData(mode, d) ==
    CASE mode = 1 -> TwoDots(d[1], d[2]) \o Repeat(255, 5)
      [] mode = 3 -> SizedDot(d[1]) \o SizedDot(d[2]) \o <<255, 255, 240, 255, 255, 240>>
      [] mode = 5 -> FullDot(d[1]) \o FullDot(d[2]) \o Repeat(255, 18)
      [] OTHER -> Repeat(255, CameraBytes)

Overwrite(old, new) == [i \in DOMAIN old |-> IF i <= Len(new) THEN new[i] ELSE old[i]]

-----------------------------------------------------------------------------
(* Layout of a report (input_report_... of wiimote.h)                       *)

HasBtn(mode) == mode # 61

AccSize(mode) == IF mode \in {49, 51, 53, 55} THEN 3 ELSE 0
AccOffset(mode) == IF mode \in {49, 51, 53, 55} THEN 2 ELSE 0

ExtSize(mode) ==
    CASE mode = 50 -> 8 [] mode = 52 -> 19 [] mode = 53 -> 16 [] mode = 54 -> 9
      [] mode = 55 -> 6 [] mode = 61 -> 21 [] OTHER -> 0

ExtOffset_WithOldIr(mode) ==
    CASE mode \in {50, 52} -> 2 [] mode = 53 -> 5 [] mode = 54 -> 12 [] mode = 55 -> 17
      [] OTHER -> 0
ExtOffset(mode) ==
    CASE mode \in {50, 52} -> 2 [] mode = 53 -> 5 [] mode = 54 -> 12 [] mode = 55 -> 15
      [] OTHER -> 0

IrSize(mode) == CASE mode = 51 -> 12 [] mode \in {54, 55} -> 10 [] OTHER -> 0
IrOffset_WithoutAcc(mode) == IF IrSize(mode) = 0 THEN 0 ELSE 2
IrOffset(mode) == CASE mode \in {51, 55} -> 5 [] mode = 54 -> 2 [] OTHER -> 0

ReportSize(mode) ==
    (IF HasBtn(mode) THEN 2 ELSE 0) + AccSize(mode) + ExtSize(mode) + IrSize(mode)

Unwritten == -1   \* a byte of the stack that was not written

AccBits_WithAllBits(acc) ==
    Bits(acc.x, 0, 2) * 2^13 + Bits(acc.y, 0, 2) * 2^5 + Bits(acc.z, 0, 2) * 2^6

\* The low bits of the accelerometer travel in unused bits of the buttons.
AccBits(acc) == Bits(acc.x, 0, 2) * 2^13 + Bits(acc.y, 1, 1) * 2^5 + Bits(acc.z, 1, 1) * 2^6

\* The registers with controller data: 21, of which an extension uses six.
ExtRegs(data) == data \o Repeat(0, 15)

\* fake_wiimote_send_data_report: the parts are written one after the other.
ReportBytes(mode, x) ==
    LET acc == <<x.acc.x \div 4, x.acc.y \div 4, x.acc.z \div 4>>
        btn == Pack(WiimoteBit, x.buttons)
                 + (IF AccSize(mode) > 0 THEN AccBits(x.acc) ELSE 0)
        Within(i, offset, size) == i >= offset /\ i < offset + size
        ByteAt(i) ==
            IF HasBtn(mode) /\ i < 2 THEN (IF i = 0 THEN btn \div 256 ELSE btn % 256)
            ELSE IF Within(i, ExtOffset(mode), ExtSize(mode))
                 THEN ExtRegs(x.data)[i - ExtOffset(mode) + 1]
            ELSE IF Within(i, IrOffset(mode), IrSize(mode))
                 THEN x.camera[i - IrOffset(mode) + 1]
            ELSE IF Within(i, AccOffset(mode), AccSize(mode)) THEN acc[i - AccOffset(mode) + 1]
            ELSE Unwritten
    IN  [i \in 1..ReportSize(mode) |-> ByteAt(i - 1)]

-----------------------------------------------------------------------------
(* The calibration of the camera in the EEPROM (eeprom_init)                *)

Corners == <<[x |-> 127, y |-> 93], [x |-> 896, y |-> 93],
             [x |-> 896, y |-> 674], [x |-> 127, y |-> 674]>>
Calibration == TwoDots(Corners[1], Corners[2]) \o TwoDots(Corners[3], Corners[4])

-----------------------------------------------------------------------------
Motion0 == [x |-> 512, y |-> 512, z |-> 616]    \* ACCEL_ZERO_G, ACCEL_ONE_G
Disabled == 0   \* INPUT_REPORT_ID_REPORT_DISABLED
Conf0 == [mode |-> Disabled, cont |-> FALSE, camera |-> 0]
NoReport == [conf |-> Conf0, bytes |-> <<>>]

\* fake_wiimote_init_state, and an extension that was then attached, which
\* disables the reports until the host sets a mode.
Init ==
    /\ conf = Conf0
    /\ wii = [buttons |-> {}, acc |-> Motion0, data |-> AtRest,
              camera |-> Repeat(0, CameraBytes), dirty |-> FALSE]
    /\ pad = [pressed |-> {}, lx |-> 0, ly |-> 0, rx |-> 0, ry |-> 0, acc |-> Motion0,
              dots |-> <<[x |-> 0, y |-> 1023], [x |-> 0, y |-> 1023]>>]
    /\ host = NoReport
    /\ fresh = FALSE

ReportInput_WithoutData(x, in) ==
    LET changed == x.buttons # WiimoteButtons(in)
    IN  [x EXCEPT !.buttons = WiimoteButtons(in), !.data = ExtData(in), !.dirty = @ \/ changed]

\* fake_wiimote_report_input_ext
ReportInput(x, in) ==
    LET changed == x.buttons # WiimoteButtons(in) \/ x.data # ExtData(in)
    IN  [x EXCEPT !.buttons = WiimoteButtons(in), !.data = ExtData(in), !.dirty = @ \/ changed]

\* fake_wiimote_report_accelerometer: 10 bits of each number are taken.
ReportMotion(x, in) ==
    IF HasMotion
    THEN [x EXCEPT !.acc = [x |-> in.acc.x % 1024, y |-> in.acc.y % 1024, z |-> in.acc.z % 1024]]
    ELSE x

\* fake_wiimote_report_ir_dots; neither this nor the motion counts as a change.
ReportDots(x, in) == [x EXCEPT !.camera = Overwrite(@, CameraData(conf.camera, in.dots))]

\* The Wiimote is ticked: it polls its gamepad and reports.
Tick(in) ==
    LET polled == ReportInput(ReportDots(ReportMotion(wii, in), in), in)
        due == conf.mode # Disabled /\ (conf.cont \/ polled.dirty)
    IN  /\ pad' = in
        /\ wii' = IF due THEN [polled EXCEPT !.dirty = FALSE] ELSE polled
        /\ host' = IF due THEN [conf |-> conf, bytes |-> ReportBytes(conf.mode, polled)] ELSE host
        /\ fresh' = due
        /\ UNCHANGED conf

\* The host chooses how it wants its reports (OUTPUT_REPORT_ID_REPORT_MODE), or
\* writes the mode register of the camera.
SetMode(mode, cont) ==
    /\ conf' = [conf EXCEPT !.mode = mode, !.cont = cont] /\ conf' # conf
    /\ fresh' = FALSE
    /\ UNCHANGED <<wii, pad, host>>

SetCamera(mode) ==
    /\ conf' = [conf EXCEPT !.camera = mode] /\ conf' # conf
    /\ fresh' = FALSE
    /\ UNCHANGED <<wii, pad, host>>

Next ==
    \/ \E in \in Inputs : Tick(in)
    \/ \E mode \in ReportModes, cont \in Continuous : SetMode(mode, cont)
    \/ \E mode \in CameraModes : SetCamera(mode)

Spec == Init /\ [][Next]_vars

-----------------------------------------------------------------------------
(* The host: parts of a report, by the protocol                             *)

Part(name, size) == [name |-> name, size |-> size]
Btn == Part("btn", 2)
Acc == Part("acc", 3)
Layout ==
    (48 :> <<Btn>>) @@ (49 :> <<Btn, Acc>>) @@ (50 :> <<Btn, Part("ext", 8)>>)
    @@ (51 :> <<Btn, Acc, Part("ir", 12)>>) @@ (52 :> <<Btn, Part("ext", 19)>>)
    @@ (53 :> <<Btn, Acc, Part("ext", 16)>>) @@ (54 :> <<Btn, Part("ir", 10), Part("ext", 9)>>)
    @@ (55 :> <<Btn, Acc, Part("ir", 10), Part("ext", 6)>>) @@ (61 :> <<Part("ext", 21)>>)

Supported == DOMAIN Layout
PartsOf(r) == Layout[r.conf.mode]
Has(r, name) ==
    r.conf.mode \in Supported /\ \E k \in DOMAIN PartsOf(r) : PartsOf(r)[k].name = name

\* The bytes of a part that the report has.
Take(r, name) ==
    LET k == CHOOSE k \in DOMAIN PartsOf(r) : PartsOf(r)[k].name = name
        before == FoldLeft(LAMBDA n, part : n + part.size, 0, SubSeq(PartsOf(r), 1, k - 1))
    IN  SubSeq(r.bytes, before + 1, before + PartsOf(r)[k].size)

HostButtons(r) == LET b == Take(r, "btn") IN Unpack(WiimoteBit, b[1] * 256 + b[2])

\* The horizontal axis has ten bits, the others nine.
HostMotion(r) ==
    LET a == Take(r, "acc")  b == Take(r, "btn") IN
    [x |-> a[1] * 4 + Bits(b[1], 5, 2), y |-> a[2] * 4 + Bits(b[2], 5, 1) * 2,
     z |-> a[3] * 4 + Bits(b[2], 6, 1) * 2]

Point(x, y, high) == [x |-> x + Bits(high, 0, 2) * 256, y |-> y + Bits(high, 2, 2) * 256]
PointPair(b) == <<Point(b[1], b[2], Bits(b[3], 4, 4)), Point(b[4], b[5], Bits(b[3], 0, 4))>>

\* The camera mode must be the one for the size of this part.
SeesDots(r) ==
    /\ Has(r, "ir")
    /\ r.conf.camera = (IF Len(Take(r, "ir")) = 12 THEN 3 ELSE 1)
HostDots(r) ==
    LET b == Take(r, "ir") IN
    IF Len(b) = 10 THEN PointPair(b)
    ELSE <<Point(b[1], b[2], Bits(b[3], 4, 4)), Point(b[4], b[5], Bits(b[6], 4, 4))>>

HostNunchuk(e) ==
    [lx |-> e[1], ly |-> e[2], names |-> {"c", "z"} \ Unpack(NunchukBit, e[6])]
HostClassic(e) ==
    [lx |-> Bits(e[1], 0, 6), ly |-> Bits(e[2], 0, 6),
     rx |-> Bits(e[1], 6, 2) * 8 + Bits(e[2], 6, 2) * 2 + Bits(e[3], 7, 1),
     ry |-> Bits(e[3], 0, 5),
     lt |-> Bits(e[3], 5, 2) * 8 + Bits(e[4], 5, 3), rt |-> Bits(e[4], 0, 5),
     names |-> DOMAIN ClassicBit \ Unpack(ClassicBit, e[5] * 256 + e[6])]

-----------------------------------------------------------------------------
(* Properties                                                               *)

\* A report has at most the 21 bytes that are reserved for it, all of them
\* written before it is sent, whatever mode the host asks for.
ReportTypeOK ==
    /\ Len(host.bytes) <= 21
    /\ \A i \in DOMAIN host.bytes : host.bytes[i] \in Byte

\* Buttons and motion share two bytes and do not disturb each other: the host
\* sees the buttons that are pressed, and the motion as exactly as there are bits.
SeesButtons ==
    fresh =>
      /\ Has(host, "btn") => HostButtons(host) = WiimoteButtons(pad)
      /\ Has(host, "acc") =>
           HostMotion(host) =
             IF HasMotion
             THEN [x |-> pad.acc.x % 1024, y |-> ((pad.acc.y % 1024) \div 2) * 2,
                   z |-> ((pad.acc.z % 1024) \div 2) * 2]
             ELSE Motion0

\* The host sees the sticks and the buttons of the extension, the sticks as
\* exactly as the controller reports them: a stick moves by one unit at a time,
\* from 0 at one end to the maximum at the other.
SeesExtension ==
    fresh /\ Has(host, "ext") =>
      LET e == Take(host, "ext")
          Scaled(v, steps) == ((v + 32768) * steps) \div 65536
      IN  IF Ext = "nunchuk"
          THEN HostNunchuk(e) = [lx |-> Scaled(pad.lx, 256), ly |-> Scaled(pad.ly, 256),
                                 names |-> MapButtons(NunchukMap, pad.pressed)]
          ELSE LET names == MapButtons(ClassicMap, pad.pressed) IN
               HostClassic(e) = [lx |-> Scaled(pad.lx, 64), ly |-> Scaled(pad.ly, 64),
                                 rx |-> Scaled(pad.rx, 32), ry |-> Scaled(pad.ry, 32),
                                 lt |-> IF "full_l" \in names THEN 31 ELSE 0,
                                 rt |-> IF "full_r" \in names THEN 31 ELSE 0,
                                 names |-> names]

\* The host sees what the player does: buttons, motion and extension, in every
\* mode that has them.
HostSeesInput == SeesButtons /\ SeesExtension

\* Ten bits of each number are reported; the column of a dot that is out of
\* sight (y = 1023) is whatever the stack held, and means nothing.
Seen(dots) == [i \in DOMAIN dots |-> [x |-> dots[i].x % 1024, y |-> dots[i].y]]

\* The host sees the two dots where they are, in the camera mode that goes with
\* the report, also if it has just changed one of them; and they lie between the
\* corners by which it calibrates the camera, as it reads them from the EEPROM.
HostSeesDots ==
    fresh /\ SeesDots(host) =>
      LET low == PointPair(SubSeq(Calibration, 1, 5))[1]
          high == PointPair(SubSeq(Calibration, 6, 10))[1]
      IN  /\ HostDots(host) = Seen(pad.dots)
          /\ \A i \in 1..2 : LET d == HostDots(host)[i] IN
                d.y = 1023 \/ (d.x \in low.x..high.x /\ d.y \in low.y..high.y)

\* A poll that sends no report misses nothing: the buttons and the extension
\* are still what the last report in the same mode said.
NothingMissed ==
    host.conf = conf /\ host.bytes # <<>> =>
      /\ Has(host, "btn") => HostButtons(host) = WiimoteButtons(pad)
      /\ Has(host, "ext") => SubSeq(Take(host, "ext"), 1, 6) = ExtData(pad)
================================================================================
