----------------------------- MODULE InputDevices -----------------------------
(***************************************************************************)
(* The table of input devices (input_device.c), as a value and the         *)
(* functions on it: a slot holds a gamepad, the fake Wiimote it drives, and *)
(* the delay before a released gamepad may ask for a Wiimote again.        *)
(***************************************************************************)
EXTENDS Integers, FiniteSets, FiniteSetsExt

CONSTANTS
    NumSlots,       \* MAX_INPUT_DEVS, 2 in the code
    Pads,           \* gamepads that may be plugged in
    NoPad,          \* NULL device
    ReconnectDelay  \* RECONNECT_DELAY, 200 ticks in the code

ASSUME SlotAssumption == NumSlots \in Nat \ {0} /\ NoPad \notin Pads

Slots == 1..NumSlots
NoSlot == 0
NoWiimote == 0

EmptySlots == [sl \in Slots |-> [device |-> NoPad, assigned |-> NoWiimote,
                                 delay |-> 0]]

SlotsOf(slots, d) == {sl \in Slots : slots[sl].device = d}

\* A gamepad was plugged in: it takes the first free slot, or none.
DeviceAdded(slots, d) ==
    LET free == SlotsOf(slots, NoPad)
    IN  IF free = {} THEN slots
        ELSE [slots EXCEPT ![Min(free)] =
                 [device |-> d, assigned |-> NoWiimote, delay |-> 0]]

\* Last step of a removal: the rest of the slot keeps its values.
ClearDevice(slots, sl) == [slots EXCEPT ![sl].device = NoPad]

DevicesTick(slots) ==
    [sl \in Slots |->
        IF slots[sl].device # NoPad /\ slots[sl].assigned = NoWiimote
                                    /\ slots[sl].delay > 0
        THEN [slots[sl] EXCEPT !.delay = @ - 1]
        ELSE slots[sl]]

Unassigned(slots) ==
    {sl \in Slots : /\ slots[sl].device # NoPad
                    /\ slots[sl].assigned = NoWiimote
                    /\ slots[sl].delay = 0}

\* The slot gives up its Wiimote (and the gamepad is suspended).
ReleaseWiimote(slots, sl) ==
    [slots EXCEPT ![sl].assigned = NoWiimote, ![sl].delay = ReconnectDelay]
===============================================================================
