-------------------------------- MODULE Pointer --------------------------------
(***************************************************************************)
(* How a gamepad moves the pointer of a Wiimote (input_device.c,           *)
(* button_map.c): the touchpad or the right stick give the two dots that a *)
(* real Wiimote's camera would see of the sensor bar, in one of three      *)
(* modes; a combination of buttons switches the mode.                      *)
(*                                                                         *)
(* Positions have 16 bits without sign, as in the code.  A slot is used by *)
(* one gamepad after the other and keeps some of its fields.               *)
(***************************************************************************)
EXTENDS Integers

CONSTANTS
    TouchRes,       \* EGC_GAMEPAD_TOUCH_RES, resolution of a touchpad
    Sticks,         \* where the right stick may be, 16 bits with sign
    Touches,        \* where the touchpad may be touched, negative if it is not
    Garbage,        \* what an uninitialized variable may hold
    SensorBarTop    \* BT.BAR of SYSCONF: the sensor bar is on top

U16Range == 0..65535
S16Range == -32768..32767
TouchRange == -1..TouchRes

ASSUME TouchAssumption ==
    TouchRes \in Nat \ {0} /\ Touches \subseteq [x : TouchRange, y : 0..TouchRes]

ASSUME StickAssumption == Sticks \subseteq [x : S16Range, y : S16Range]

ASSUME StackAssumption == Garbage \subseteq U16Range

ASSUME SensorBarAssumption == SensorBarTop \in BOOLEAN

\* IR configuration of wiimote.h: what a dot may be, and the distance of the
\* dots from the point between them.
LowX == 127
HighX == 896
LowY == 93
HighY == 674
HorizontalOffset == 64
VerticalOffset == 110
MinX == LowX + HorizontalOffset
MaxX == HighX - HorizontalOffset
MinY == LowY + VerticalOffset
MaxY == HighY - VerticalOffset
CenterX == (HighX + LowX) \div 2
CenterY == (HighY + LowY) \div 2
Absent == 1023  \* vertical position of a dot out of screen

U16(n) == n % 65536

Direct == 1     \* bm_ir_emulation_mode_e
Relative == 2
Absolute == 3
ModeAt == [i \in 0..2 |-> i + 1]    \* ir_emu_modes
NumModes == 3

VARIABLES
    dev,        \* the slot: index of the mode, whether the combination was
                \* seen pressed, position, and what the gamepad has
    input,      \* what the player did at the last poll
    dots        \* the two dots

vars == <<dev, input, dots>>

-----------------------------------------------------------------------------
(* The definitions named ..._Without... and ..._With... are faulty variants  *)
(* that the runs must tell from the code.                                    *)

\* Integer division of C, towards zero.
Quotient(a, b) == IF a >= 0 THEN a \div b ELSE -((-a) \div b)

Clamp_WithoutMax(n, lo, hi) == IF n < lo THEN lo ELSE n

Clamp(n, lo, hi) == IF n < lo THEN lo ELSE IF n > hi THEN hi ELSE n

\* map_ir_dot: the dots the camera sees when the Wiimote points at (x, y).
Mirror(x) == MinX + (MaxX - x)
BarOffset == IF SensorBarTop THEN VerticalOffset ELSE -VerticalOffset
DotsAt(x, y) ==
    <<[x |-> U16(Mirror(x) - HorizontalOffset), y |-> U16(y + BarOffset)],
      [x |-> U16(Mirror(x) + HorizontalOffset), y |-> U16(y + BarOffset)]>>

\* bm_map_ir_direct with the touchpad touched.
DirectDots(x, y) ==
    DotsAt(MinX + (x * (MaxX - MinX)) \div TouchRes,
           MinY + (y * (MaxY - MinY)) \div TouchRes)

\* bm_ir_dots_set_out_of_screen: the horizontal position is not set.
OutOfScreen == {<<[x |-> x1, y |-> Absent], [x |-> x2, y |-> Absent]>> : x1, x2 \in Garbage}

Pushed_WithoutCenter(mode, pos, center, val) ==
    IF mode = Relative THEN U16(pos + Quotient(val, 16)) ELSE U16(pos + val)

\* Where the stick puts a coordinate.
Pushed(mode, pos, center, val) ==
    IF mode = Relative THEN U16(pos + Quotient(val, 16)) ELSE U16(center + val)

\* bm_map_ir_analog_axis: the next position.
Moved(mode, pos, stick) ==
    [x |-> Clamp(Pushed(mode, pos.x, CenterX, stick.x), MinX, MaxX),
     y |-> Clamp(Pushed(mode, pos.y, CenterY, stick.y), MinY, MaxY)]

\* bm_ir_emulation_state_reset
Centered == [x |-> CenterX, y |-> CenterY]

-----------------------------------------------------------------------------
(* Polling the gamepad (input_device_report_input)                          *)

\* A gamepad without the buttons has the combination 0, which is always held.
Pressed(d, in) == in.combo \/ ~d.combo

Switches_WithoutEdge(d, in) == Pressed(d, in)

\* bm_check_switch_mapping
Switches(d, in) == Pressed(d, in) /\ ~d.held

Following(idx) == (idx + 1) % NumModes

\* The next mode; the index is compared with a mode, as in the code.
NextIdx(d) ==
    IF Following(d.idx) = Direct /\ ~d.touch THEN Following(Following(d.idx))
    ELSE Following(d.idx)

\* The mode is switched, if it is, before the input is mapped.
Switched(d, in) ==
    [(IF Switches(d, in) THEN [d EXCEPT !.idx = NextIdx(d), !.pos = Centered] ELSE d)
        EXCEPT !.held = Pressed(d, in)]

Mode(d) == ModeAt[d.idx]

\* The slot after the input is mapped; in direct mode its position stays.
Mapped(d, in) ==
    IF Mode(d) = Direct THEN d ELSE [d EXCEPT !.pos = Moved(Mode(d), @, in.stick)]

\* The dots that come with it.
PossibleDots(d, in) ==
    IF Mode(d) # Direct THEN {DotsAt(d.pos.x, MinY + (MaxY - d.pos.y))}
    ELSE IF in.touch.x < 0 THEN OutOfScreen
    ELSE {DirectDots(in.touch.x, in.touch.y)}

Inputs == [stick : Sticks, touch : Touches, combo : BOOLEAN]
NoInput == [stick |-> [x |-> 0, y |-> 0], touch |-> [x |-> -1, y |-> 0], combo |-> FALSE]

Poll(in) ==
    /\ input' = in
    /\ dev' = Mapped(Switched(dev, in), in)
    /\ dots' \in PossibleDots(dev', in)

\* input_device_handle_added, for the slot of a gamepad that was unplugged:
\* the mode is reset to an index, the position and the rest are not.
Plug(touch, combo) ==
    /\ dev' = [dev EXCEPT !.idx = Direct, !.touch = touch, !.combo = combo]
    /\ UNCHANGED <<input, dots>>

\* A first gamepad in a slot of zeroes; no dots have been reported.
Init ==
    /\ \E touch, combo \in BOOLEAN :
         dev = [idx |-> Direct, held |-> FALSE, pos |-> [x |-> 0, y |-> 0],
                touch |-> touch, combo |-> combo]
    /\ input = NoInput
    /\ dots = <<[x |-> 0, y |-> Absent], [x |-> 0, y |-> Absent]>>

Next ==
    \/ \E in \in Inputs : Poll(in)
    \/ \E touch, combo \in BOOLEAN : Plug(touch, combo)

Spec == Init /\ [][Next]_vars

-----------------------------------------------------------------------------
(* Properties                                                               *)

Dot == [x : U16Range, y : U16Range]

\* The slot and the dots have their types; the position, 0 at first, is where
\* the dots of the sensor bar can be seen.
XRange == MinX..MaxX
YRange == MinY..MaxY
Position == [x : {0} \cup XRange, y : {0} \cup YRange]
Slot == [idx : 0..2, held : BOOLEAN, pos : Position, touch : BOOLEAN, combo : BOOLEAN]
PointerTypeOK ==
    /\ dev \in Slot
    /\ dots[1] \in Dot /\ dots[2] \in Dot

\* The dots reported are what a camera can see, or out of screen, whatever the
\* stick does to the position, in 16 bits, and whatever a former gamepad left.
OnScreen(d) == d.x \in LowX..HighX /\ d.y \in LowY..HighY
DotsOnScreen == \A i \in 1..2 : dots[i].y = Absent \/ OnScreen(dots[i])

\* The mode is an analog one before and after the step, the same, and the
\* position is one of this mode.
StickMoves ==
    /\ Mode(dev) # Direct /\ dev'.idx = dev.idx
    /\ dev.pos.x \in XRange /\ dev.pos.y \in YRange

\* The pointer goes where the stick says: in relative mode from where it was, in
\* absolute mode from the center.
Follows(old, new, center, val) ==
    LET from == IF Mode(dev) = Relative THEN old ELSE center
    IN  /\ val >= 0 => new >= from
        /\ val <= 0 => new <= from

\* A push that stays within the 16 bits.
Gentle(old, center, val) ==
    (IF Mode(dev) = Relative THEN old + Quotient(val, 16) ELSE center + val) >= 0

\* As long as a push does not wrap, the pointer follows the stick on each axis,
\* wherever it is and whatever the other axis does.
GentlePushFollowed ==
    [][\A in \in Inputs : Poll(in) /\ StickMoves =>
         /\ Gentle(dev.pos.x, CenterX, in.stick.x)
              => Follows(dev.pos.x, dev'.pos.x, CenterX, in.stick.x)
         /\ Gentle(dev.pos.y, CenterY, in.stick.y)
              => Follows(dev.pos.y, dev'.pos.y, CenterY, in.stick.y)]_vars

\* Holding the combination down switches the mode once, also if the gamepad is
\* exchanged meanwhile.
OneSwitchPerPress ==
    [][Poll(input') /\ input.combo /\ input'.combo => dev'.idx = dev.idx]_vars

\* README: the pointer moves with the right stick, in absolute mode in
\* proportion to it from the center.
PushFollowed ==
    [][Poll(input') /\ StickMoves
         => Follows(dev.pos.x, dev'.pos.x, CenterX, input'.stick.x)]_vars
================================================================================
