---------------------------- MODULE Pointer_proofs -----------------------------
(***************************************************************************)
(* Pointer keeps to the screen, for every stick, finger and sensor bar.    *)
(***************************************************************************)
EXTENDS Pointer, TLAPS

\* 16 bits are 16 bits.
LEMMA U16InRange == ASSUME NEW n \in Int PROVE U16(n) \in U16Range
BY DEF U16, U16Range

\* What has 16 bits is not changed.
LEMMA U16Same ==
    ASSUME NEW n \in Int, 0 <= n, n < 65536
    PROVE  n \in U16Range /\ U16(n) = n
<1>1. U16(n) = n
  BY DEF U16
<1>. QED BY <1>1, U16InRange

\* Bounds of the numbers with 16 bits.
LEMMA U16Bounds == ASSUME NEW n \in U16Range PROVE n \in Int /\ 0 <= n /\ n < 65536
BY DEF U16Range
LEMMA S16Bounds ==
    ASSUME NEW n \in S16Range
    PROVE  n \in Int /\ -32768 <= n /\ n < 32768
<1> DEFINE lo == -32768
           hi == 32767
<1>1. n \in lo..hi /\ lo \in Int /\ hi \in Int
  BY DEF S16Range
<1> HIDE DEF lo, hi
<1>2. n \in Int /\ lo <= n /\ n <= hi
  BY <1>1
<1>. QED BY <1>2 DEF lo, hi

\* The numbers of wiimote.h.
LEMMA Screen ==
    /\ MinX = 191 /\ MaxX = 832 /\ MinY = 203 /\ MaxY = 564
    /\ CenterX = 511 /\ CenterY = 383
BY DEF MinX, MaxX, MinY, MaxY, CenterX, CenterY, LowX, HighX, LowY, HighY,
       HorizontalOffset, VerticalOffset

LEMMA ScreenBounds ==
    /\ \A n \in XRange : n \in Int /\ MinX <= n /\ n <= MaxX
    /\ \A n \in YRange : n \in Int /\ MinY <= n /\ n <= MaxY
BY Screen DEF XRange, YRange

\* The division of C stays between 0 and its dividend.
LEMMA QuotientRange ==
    ASSUME NEW a \in Int
    PROVE  /\ Quotient(a, 16) \in Int
           /\ a >= 0 => Quotient(a, 16) \in 0..a
           /\ a <= 0 => Quotient(a, 16) \in a..0
BY DEF Quotient

\* A clamped number is between the limits, and where it was if it was there.
LEMMA ClampRange ==
    ASSUME NEW n \in Int, NEW lo \in Int, NEW hi \in Int, lo <= hi
    PROVE  /\ Clamp(n, lo, hi) \in lo..hi
           /\ n >= lo => Clamp(n, lo, hi) <= n
           /\ n <= hi => Clamp(n, lo, hi) >= n
BY DEF Clamp

\* The sensor bar is above or below the screen.
LEMMA BarOffsets == BarOffset \in {110, -110}
<1>1. BarOffset = VerticalOffset \/ BarOffset = -VerticalOffset
  BY Zenon DEF BarOffset
<1>. QED BY <1>1 DEF VerticalOffset

\* A point that the sensor bar can have gives dots that can be seen: the
\* horizontal mirror and either offset keep to the screen.
LEMMA DotsVisible ==
    ASSUME NEW x \in XRange, NEW y \in YRange
    PROVE  \A i \in 1..2 : DotsAt(x, y)[i] \in Dot /\ OnScreen(DotsAt(x, y)[i])
<1>1. /\ Mirror(x) - HorizontalOffset \in LowX..HighX
      /\ Mirror(x) + HorizontalOffset \in LowX..HighX
  BY Screen DEF Mirror, XRange, LowX, HighX, HorizontalOffset
<1>2. y + BarOffset \in LowY..HighY
  BY Screen, BarOffsets DEF YRange, LowY, HighY
<1>3. \A n \in LowX..HighX : n \in U16Range /\ U16(n) = n
  BY U16Same DEF LowX, HighX
<1>4. \A n \in LowY..HighY : n \in U16Range /\ U16(n) = n
  BY U16Same DEF LowY, HighY
<1>5. /\ U16(Mirror(x) - HorizontalOffset) \in LowX..HighX \cap U16Range
      /\ U16(Mirror(x) + HorizontalOffset) \in LowX..HighX \cap U16Range
      /\ U16(y + BarOffset) \in LowY..HighY \cap U16Range
  <2>. HIDE DEF Mirror
  <2>. QED BY <1>1, <1>2, <1>3, <1>4
<1>. QED BY <1>5 DEF DotsAt, Dot, OnScreen

\* A finger's place on the touchpad, scaled, is within the range it is scaled to.
LEMMA Scaled ==
    ASSUME NEW t \in 0..TouchRes, NEW w \in Nat
    PROVE  (t * w) \div TouchRes \in 0..w
<1>1. TouchRes \in Nat /\ TouchRes > 0
  BY TouchAssumption
<1>2. t * w \in Nat /\ t * w <= TouchRes * w
  BY <1>1
<1>3. (t * w) \div TouchRes \in Nat /\ TouchRes * ((t * w) \div TouchRes) <= t * w
  BY <1>1, <1>2
<1>4. ASSUME (t * w) \div TouchRes > w PROVE FALSE
  <2>1. TouchRes * ((t * w) \div TouchRes) > TouchRes * w
    BY <1>1, <1>3, <1>4
  <2>. QED BY <1>1, <1>2, <1>3, <2>1
<1>. QED BY <1>3, <1>4

\* The stick leaves the position on the screen, whatever wraps on the way.
LEMMA MovedRange ==
    ASSUME NEW mode, NEW pos \in Position, NEW stick \in Sticks
    PROVE  Moved(mode, pos, stick) \in [x : XRange, y : YRange]
<1>1. stick.x \in Int /\ stick.y \in Int
  <2>1. stick.x \in S16Range /\ stick.y \in S16Range
    BY StickAssumption
  <2>. QED BY <2>1, S16Bounds
<1>2. pos.x \in Int /\ pos.y \in Int
  <2>1. pos.x \in {0} \cup XRange /\ pos.y \in {0} \cup YRange
    BY DEF Position
  <2>. QED BY <2>1, Screen DEF XRange, YRange
<1>3. ASSUME NEW old \in Int, NEW center \in Int, NEW val \in Int
      PROVE  Pushed(mode, old, center, val) \in Int
  <2>1. U16(old + Quotient(val, 16)) \in U16Range /\ U16(center + val) \in U16Range
    BY QuotientRange, U16InRange
  <2>. QED BY <2>1, U16Bounds DEF Pushed
<1>4. /\ Pushed(mode, pos.x, CenterX, stick.x) \in Int
      /\ Pushed(mode, pos.y, CenterY, stick.y) \in Int
  <2>1. CenterX \in Int /\ CenterY \in Int
    BY Screen
  <2>. QED BY <1>1, <1>2, <1>3, <2>1
<1>5. /\ MinX \in Int /\ MaxX \in Int /\ MinX <= MaxX
      /\ MinY \in Int /\ MaxY \in Int /\ MinY <= MaxY
  BY Screen
<1>6. /\ Clamp(Pushed(mode, pos.x, CenterX, stick.x), MinX, MaxX) \in XRange
      /\ Clamp(Pushed(mode, pos.y, CenterY, stick.y), MinY, MaxY) \in YRange
  BY <1>4, <1>5, ClampRange DEF XRange, YRange
<1>. QED BY <1>6 DEF Moved

-----------------------------------------------------------------------------
\* Types and screen together; the rest of the invariant is PointerTypeOK itself,
\* which bounds the position by 0, where it starts, and the clamps.
PointerInv == PointerTypeOK /\ DotsOnScreen

LEMMA PointerInit == Init => PointerInv
<1>. SUFFICES ASSUME Init PROVE PointerInv
  OBVIOUS
<1>1. dev \in Slot
  <2>1. [x |-> 0, y |-> 0] \in Position
    BY DEF Position
  <2>. QED BY <2>1 DEF Init, Slot, Direct
<1>2. 0 \in U16Range /\ Absent \in U16Range
  BY U16Same DEF Absent
<1>3. dots[1] \in Dot /\ dots[2] \in Dot /\ dots[1].y = Absent /\ dots[2].y = Absent
  BY <1>2 DEF Init, Dot
<1>. QED BY <1>1, <1>3 DEF PointerInv, PointerTypeOK, DotsOnScreen

LEMMA SwitchedTyped ==
    ASSUME NEW d \in Slot, NEW in \in Inputs
    PROVE  Switched(d, in) \in Slot
<1>1. NextIdx(d) \in 0..2
  BY DEF NextIdx, Following, NumModes, Slot
<1>2. Centered \in Position
  BY Screen DEF Centered, Position, XRange, YRange
<1>3. Pressed(d, in) \in BOOLEAN
  BY DEF Pressed
<1> DEFINE e == IF Switches(d, in) THEN [d EXCEPT !.idx = NextIdx(d), !.pos = Centered]
                                   ELSE d
<1>4. e \in Slot
  <2>1. [d EXCEPT !.idx = NextIdx(d), !.pos = Centered] \in Slot
    BY <1>1, <1>2 DEF Slot
  <2>. QED BY <2>1
<1>5. [e EXCEPT !.held = Pressed(d, in)] \in Slot
  <2>. HIDE DEF e
  <2>. QED BY <1>3, <1>4 DEF Slot
<1>. QED BY <1>5 DEF Switched

\* The dots of a touched touchpad can be seen.
LEMMA TouchVisible ==
    ASSUME NEW x \in 0..TouchRes, NEW y \in 0..TouchRes
    PROVE  \A i \in 1..2 : DirectDots(x, y)[i] \in Dot /\ OnScreen(DirectDots(x, y)[i])
<1>1. MaxX - MinX \in Nat /\ MaxY - MinY \in Nat
  BY Screen
<1>2. /\ (x * (MaxX - MinX)) \div TouchRes \in 0..MaxX - MinX
      /\ (y * (MaxY - MinY)) \div TouchRes \in 0..MaxY - MinY
  BY <1>1, Scaled
<1>3. ASSUME NEW n \in Int, NEW lo \in Int, NEW hi \in Int, n \in 0..hi - lo
      PROVE  lo + n \in lo..hi
  BY <1>3
<1>4. MinX \in Int /\ MaxX \in Int /\ MinY \in Int /\ MaxY \in Int
  BY Screen
<1>5. \A lo, hi, n : n \in 0..hi - lo /\ lo \in Int /\ hi \in Int => lo + n \in lo..hi
  BY <1>3
<1>6. /\ MinX + (x * (MaxX - MinX)) \div TouchRes \in XRange
      /\ MinY + (y * (MaxY - MinY)) \div TouchRes \in YRange
  BY <1>2, <1>4, <1>5 DEF XRange, YRange
<1>. QED BY <1>6, DotsVisible DEF DirectDots

LEMMA PollKeeps ==
    ASSUME PointerInv, NEW in \in Inputs, Poll(in)
    PROVE  PointerInv'
<1> DEFINE d == Switched(dev, in)
<1>1. d \in Slot
  BY SwitchedTyped DEF PointerInv, PointerTypeOK
<1>2. dev' = Mapped(d, in) /\ dots' \in PossibleDots(dev', in)
  BY DEF Poll
<1>3. in.stick \in Sticks /\ in.touch \in Touches
  BY DEF Inputs
<1> HIDE DEF d
<1>4. CASE Mode(d) = Direct
  <2>1. dev' = d
    BY <1>2, <1>4 DEF Mapped
  <2>2. CASE in.touch.x < 0
    <3>1. dots' \in OutOfScreen
      BY <1>2, <1>4, <2>1, <2>2 DEF PossibleDots
    <3>2. PICK x1 \in Garbage, x2 \in Garbage :
            dots' = <<[x |-> x1, y |-> Absent], [x |-> x2, y |-> Absent]>>
      BY <3>1 DEF OutOfScreen
    <3>3. x1 \in U16Range /\ x2 \in U16Range /\ Absent \in U16Range
      BY StackAssumption, U16Same DEF Absent
    <3>4. \A i \in 1..2 : dots'[i] \in Dot /\ dots'[i].y = Absent
      BY <3>2, <3>3 DEF Dot
    <3>. QED BY <1>1, <2>1, <3>4 DEF PointerInv, PointerTypeOK, DotsOnScreen
  <2>3. CASE ~(in.touch.x < 0)
    <3>1. dots' = DirectDots(in.touch.x, in.touch.y)
      BY <1>2, <1>4, <2>1, <2>3 DEF PossibleDots
    <3>2. in.touch.x \in 0..TouchRes /\ in.touch.y \in 0..TouchRes
      <4>1. in.touch.x \in TouchRange /\ in.touch.y \in 0..TouchRes
        BY <1>3, TouchAssumption
      <4>. QED BY <2>3, <4>1, TouchAssumption DEF TouchRange
    <3>3. \A i \in 1..2 : dots'[i] \in Dot /\ OnScreen(dots'[i])
      BY <3>1, <3>2, TouchVisible
    <3>. QED BY <1>1, <2>1, <3>3 DEF PointerInv, PointerTypeOK, DotsOnScreen
  <2>. QED BY <2>2, <2>3
<1>5. CASE Mode(d) # Direct
  <2> DEFINE p == Moved(Mode(d), d.pos, in.stick)
  <2>1. dev' = [d EXCEPT !.pos = p]
    BY <1>2, <1>5 DEF Mapped
  <2>2. d.pos \in Position
    BY <1>1 DEF Slot
  <2>3. p \in [x : XRange, y : YRange]
    BY <1>3, <2>2, MovedRange
  <2> HIDE DEF p
  <2>4. p \in Position
    BY <2>3 DEF Position
  <2>5. dev' \in Slot /\ dev'.pos = p /\ dev'.idx = d.idx
    BY <1>1, <2>1, <2>4 DEF Slot
  <2>6. dots' = DotsAt(p.x, MinY + (MaxY - p.y))
    BY <1>2, <1>5, <2>5 DEF PossibleDots, Mode
  <2>7. p.x \in XRange /\ MinY + (MaxY - p.y) \in YRange
    <3>1. p.x \in XRange /\ p.y \in YRange
      BY <2>3
    <3>2. \A y \in YRange : MinY + (MaxY - y) \in YRange
      BY Screen DEF YRange
    <3>. QED BY <3>1, <3>2
  <2>8. \A i \in 1..2 : dots'[i] \in Dot /\ OnScreen(dots'[i])
    BY <2>6, <2>7, DotsVisible
  <2>. QED BY <2>5, <2>8 DEF PointerInv, PointerTypeOK, DotsOnScreen
<1>. QED BY <1>4, <1>5

LEMMA PointerNext == PointerInv /\ [Next]_vars => PointerInv'
<1>. SUFFICES ASSUME PointerInv, [Next]_vars PROVE PointerInv'
  OBVIOUS
<1>1. ASSUME NEW in \in Inputs, Poll(in) PROVE PointerInv'
  BY <1>1, PollKeeps
<1>2. ASSUME NEW touch \in BOOLEAN, NEW combo \in BOOLEAN, Plug(touch, combo)
      PROVE  PointerInv'
  <2>1. dev' \in Slot
    <3>1. dev' = [dev EXCEPT !.idx = Direct, !.touch = touch, !.combo = combo]
      BY <1>2 DEF Plug
    <3>2. dev \in Slot /\ Direct \in 0..2
      BY DEF PointerInv, PointerTypeOK, Direct
    <3>. QED BY <3>1, <3>2 DEF Slot
  <2>. QED BY <1>2, <2>1 DEF Plug, PointerInv, PointerTypeOK, DotsOnScreen
<1>3. CASE UNCHANGED vars
  BY <1>3 DEF vars, PointerInv, PointerTypeOK, DotsOnScreen
<1>. QED BY <1>1, <1>2, <1>3 DEF Next

\* The fields of a slot keep their ranges: the position never leaves the screen
\* once the stick was read, although it wraps modulo 2^16 before it is clamped
\* (bm_map_ir_analog_axis).
THEOREM PointerTyped == Spec => []PointerTypeOK
<1>1. PointerInv => PointerTypeOK
  BY DEF PointerInv
<1>. QED BY <1>1, PointerInit, PointerNext, PTL DEF Spec

\* Every dot reported can be seen by a camera or is out of screen, in all modes
\* and also with the position and the mode a former gamepad left (map_ir_dot).
THEOREM PointerOnScreen == Spec => []DotsOnScreen
<1>1. PointerInv => DotsOnScreen
  BY DEF PointerInv
<1>. QED BY <1>1, PointerInit, PointerNext, PTL DEF Spec

-----------------------------------------------------------------------------
\* A coordinate on the screen that is pushed gently follows the stick.
LEMMA CoordinateFollows ==
    ASSUME NEW old \in Int, NEW val \in S16Range, NEW center \in Int,
           NEW lo \in Int, NEW hi \in Int, 0 <= lo, hi <= 1023,
           lo <= old, old <= hi, lo <= center, center <= hi,
           Mode(dev) \in {Relative, Absolute}, Gentle(old, center, val)
    PROVE  Follows(old, Clamp(Pushed(Mode(dev), old, center, val), lo, hi), center, val)
<1>1. val \in Int /\ val < 32768
  BY S16Bounds
<1>2. ASSUME NEW from \in Int, lo <= from, from <= hi, NEW n \in Int,
             val >= 0 => n >= from, val <= 0 => n <= from
      PROVE  /\ val >= 0 => Clamp(n, lo, hi) >= from
             /\ val <= 0 => Clamp(n, lo, hi) <= from
  BY <1>2 DEF Clamp
<1>3. CASE Mode(dev) = Relative
  <2> DEFINE n == old + Quotient(val, 16)
  <2>1. Quotient(val, 16) \in Int /\ n \in Int /\ Quotient(val, 16) < 32768
    BY <1>1, QuotientRange
  <2>2. (val >= 0 => n >= old) /\ (val <= 0 => n <= old)
    BY <1>1, QuotientRange
  <2>3. Gentle(old, center, val) <=> n >= 0
    BY <1>3 DEF Gentle
  <2>4. Pushed(Mode(dev), old, center, val) = U16(n)
    BY <1>3 DEF Pushed
  <2> HIDE DEF n
  <2>5. n < 65536 
    BY <2>1 DEF n
  <2>6. U16(n) = n
    BY <2>1, <2>3, <2>5, U16Same
  <2>. QED BY <1>2, <1>3, <2>1, <2>2, <2>4, <2>6 DEF Follows
<1>4. CASE Mode(dev) = Absolute
  <2> DEFINE n == center + val
  <2>1. Mode(dev) # Relative
    BY <1>4 DEF Relative, Absolute
  <2>2. n \in Int /\ n >= 0 /\ n < 65536
    BY <1>1, <2>1 DEF Gentle
  <2>3. (val >= 0 => n >= center) /\ (val <= 0 => n <= center)
    BY <1>1
  <2>4. Pushed(Mode(dev), old, center, val) = U16(n)
    BY <2>1 DEF Pushed
  <2> HIDE DEF n
  <2>5. U16(n) = n
    BY <2>2, U16Same
  <2>. QED BY <1>2, <2>1, <2>2, <2>3, <2>4, <2>5 DEF Follows
<1>. QED BY <1>3, <1>4

\* What a poll does to the position when the mode is an analog one and stays.
LEMMA PollMoves ==
    ASSUME NEW in \in Inputs, Poll(in), StickMoves, dev \in Slot
    PROVE  dev'.pos = Moved(Mode(dev), dev.pos, in.stick)
<1>1. CASE Switches(dev, in)
  \* The mode would change.
  <2>1. Switched(dev, in).idx = NextIdx(dev)
    BY <1>1 DEF Switched, Slot
  <2>2. NextIdx(dev) # dev.idx
    BY DEF NextIdx, Following, NumModes, Slot, Direct
  <2>3. dev'.idx = Switched(dev, in).idx
    <3>1. Switched(dev, in) \in Slot
      BY SwitchedTyped
    <3>. QED BY <3>1 DEF Poll, Mapped, Slot
  <2>. QED BY <2>1, <2>2, <2>3 DEF StickMoves
<1>2. CASE ~Switches(dev, in)
  <2>1. Switched(dev, in) = [dev EXCEPT !.held = Pressed(dev, in)]
    BY <1>2 DEF Switched
  <2>2. /\ Switched(dev, in).pos = dev.pos /\ Switched(dev, in).idx = dev.idx
        /\ Switched(dev, in) \in Slot
    BY <2>1, SwitchedTyped DEF Slot
  <2>3. Mode(Switched(dev, in)) = Mode(dev) /\ Mode(dev) # Direct
    BY <2>2 DEF Mode, StickMoves
  <2>4. dev' = [Switched(dev, in) EXCEPT !.pos = Moved(Mode(dev), dev.pos, in.stick)]
    BY <2>2, <2>3 DEF Poll, Mapped
  <2>. QED BY <2>2, <2>4 DEF Slot
<1>. QED BY <1>1, <1>2

\* A stick that does not push a coordinate below zero moves the pointer its way,
\* for every stick and every place of the pointer: what goes wrong in
\* bm_map_ir_analog_axis is the wrap alone.
THEOREM PointerFollows == Spec => GentlePushFollowed
<1> DEFINE Followed ==
      \A in \in Inputs : Poll(in) /\ StickMoves =>
         /\ Gentle(dev.pos.x, CenterX, in.stick.x)
              => Follows(dev.pos.x, dev'.pos.x, CenterX, in.stick.x)
         /\ Gentle(dev.pos.y, CenterY, in.stick.y)
              => Follows(dev.pos.y, dev'.pos.y, CenterY, in.stick.y)
<1>1. ASSUME PointerInv, NEW in \in Inputs, Poll(in), StickMoves
      PROVE  /\ Gentle(dev.pos.x, CenterX, in.stick.x)
                  => Follows(dev.pos.x, dev'.pos.x, CenterX, in.stick.x)
             /\ Gentle(dev.pos.y, CenterY, in.stick.y)
                  => Follows(dev.pos.y, dev'.pos.y, CenterY, in.stick.y)
  <2>1. dev \in Slot /\ dev'.pos = Moved(Mode(dev), dev.pos, in.stick)
    BY <1>1, PollMoves DEF PointerInv, PointerTypeOK
  <2>2. in.stick.x \in S16Range /\ in.stick.y \in S16Range
    BY StickAssumption DEF Inputs
  <2>3. Mode(dev) \in {Relative, Absolute}
    BY <1>1, <2>1 DEF Slot, StickMoves, Mode, ModeAt, Direct, Relative, Absolute
  <2>4. /\ dev'.pos.x = Clamp(Pushed(Mode(dev), dev.pos.x, CenterX, in.stick.x), MinX, MaxX)
        /\ dev'.pos.y = Clamp(Pushed(Mode(dev), dev.pos.y, CenterY, in.stick.y), MinY, MaxY)
    BY <2>1 DEF Moved
  <2>5. dev.pos.x \in XRange /\ dev.pos.y \in YRange
    BY <1>1 DEF StickMoves
  <2>6. /\ dev.pos.x \in Int /\ MinX <= dev.pos.x /\ dev.pos.x <= MaxX
        /\ dev.pos.y \in Int /\ MinY <= dev.pos.y /\ dev.pos.y <= MaxY
    BY <2>5, ScreenBounds
  <2>7. /\ CenterX \in Int /\ MinX \in Int /\ MaxX \in Int /\ 0 <= MinX /\ MaxX <= 1023
        /\ MinX <= CenterX /\ CenterX <= MaxX
        /\ CenterY \in Int /\ MinY \in Int /\ MaxY \in Int /\ 0 <= MinY /\ MaxY <= 1023
        /\ MinY <= CenterY /\ CenterY <= MaxY
    BY Screen
  <2>. QED BY <2>2, <2>3, <2>4, <2>6, <2>7, CoordinateFollows
<1>2. ASSUME PointerInv PROVE Followed
  BY <1>1, <1>2
<1>. QED BY <1>2, PointerInit, PointerNext, PTL DEF Spec, GentlePushFollowed

\* What the last poll remembers of the combination: it was seen pressed if the
\* player held it, also across an exchange of the gamepad.
HeldSeen == input.combo => dev.held

LEMMA HeldSeenInit == Init => HeldSeen
BY DEF Init, HeldSeen, NoInput

LEMMA HeldSeenNext == PointerInv /\ HeldSeen /\ [Next]_vars => HeldSeen'
<1> SUFFICES ASSUME PointerInv, HeldSeen, [Next]_vars PROVE HeldSeen'
  OBVIOUS
<1>s. dev \in Slot
  BY DEF PointerInv, PointerTypeOK
<1>1. ASSUME NEW in \in Inputs, Poll(in) PROVE HeldSeen'
  <2>1. input' = in /\ dev' = Mapped(Switched(dev, in), in)
    BY <1>1 DEF Poll
  <2>2. Switched(dev, in) \in Slot /\ Switched(dev, in).held = Pressed(dev, in)
    BY <1>s, SwitchedTyped DEF Switched, Slot
  <2>3. dev'.held = Pressed(dev, in)
    BY <2>1, <2>2 DEF Mapped, Slot
  <2>. QED BY <2>1, <2>3 DEF Pressed, HeldSeen
<1>2. ASSUME NEW touch \in BOOLEAN, NEW combo \in BOOLEAN, Plug(touch, combo)
      PROVE  HeldSeen'
  BY <1>s, <1>2 DEF Plug, Slot, HeldSeen
<1>3. CASE UNCHANGED vars
  BY <1>3 DEF vars, HeldSeen
<1>. QED BY <1>1, <1>2, <1>3 DEF Next

\* bm_check_switch_mapping switches on the edge: a combination that is held down
\* from one poll to the next changes the mode once, for every gamepad and also if
\* it is exchanged between the polls.
THEOREM OneSwitch == Spec => OneSwitchPerPress
<1>1. ASSUME PointerInv, HeldSeen, Poll(input'), input.combo, input'.combo
      PROVE  dev'.idx = dev.idx
  <2>1. dev \in Slot /\ dev.held
    BY <1>1 DEF PointerInv, PointerTypeOK, HeldSeen
  <2>2. Switched(dev, input') = [dev EXCEPT !.held = Pressed(dev, input')]
    BY <2>1 DEF Switched, Switches
  <2>3. dev' = Mapped(Switched(dev, input'), input')
    BY <1>1 DEF Poll
  <2> DEFINE d == Switched(dev, input')
  <2>4. d \in [idx : 0..2, held : {Pressed(dev, input')}, pos : Position,
               touch : BOOLEAN, combo : BOOLEAN] /\ d.idx = dev.idx
    BY <2>1, <2>2 DEF Slot
  <2> HIDE DEF d
  <2>5. Mapped(d, input').idx = d.idx
    BY <2>4 DEF Mapped
  <2>. QED BY <2>3, <2>4, <2>5 DEF d
<1>2. PointerInv /\ HeldSeen =>
        [Poll(input') /\ input.combo /\ input'.combo => dev'.idx = dev.idx]_vars
  BY <1>1
<1>. QED BY <1>2, PointerInit, PointerNext, HeldSeenInit, HeldSeenNext, PTL
         DEF Spec, OneSwitchPerPress
================================================================================
