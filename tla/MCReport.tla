-------------------------------- MODULE MCReport --------------------------------
(***************************************************************************)
(* Instances for TLC of the modules about what a report says: Pointer, for *)
(* gamepads of every kind; InputReport, with a Nunchuk and a gamepad that  *)
(* has an accelerometer, and with a Classic Controller; ExtCrypto.  They   *)
(* have no state in common, and one of them runs in each behaviour: `part' *)
(* says which, the others stay in their initial state.                     *)
(***************************************************************************)
EXTENDS Pointer, Sequences

\* Some places of the stick, of which some leave the 16 bits, and of the finger.
StickPlaces ==
    {[x |-> 0, y |-> 0], [x |-> 3200, y |-> 0], [x |-> -3200, y |-> 15],
     [x |-> 0, y |-> 3200], [x |-> 0, y |-> -3200],
     [x |-> -32768, y |-> 32767], [x |-> 32767, y |-> -32768]}
Fingers == {[x |-> -1, y |-> 0], [x |-> 0, y |-> TouchRes], [x |-> TouchRes, y |-> 7]}
Stack == {0, 65535}

-----------------------------------------------------------------------------
VARIABLES
    part,                               \* the module that runs
    conf, wii, pad, host, fresh,        \* those of InputReport
    area, dirty, key, peer, reply       \* those of ExtCrypto, whose host is peer

reportVars == <<conf, wii, pad, host, fresh>>
cryptoVars == <<area, dirty, key, peer, reply>>
mcVars == <<part, vars, reportVars, cryptoVars>>

\* Every button by itself and some together, the ends of the sticks and of the
\* accelerometer, the corners of the screen.
PadButtons ==
    {"north", "east", "south", "west", "dpad_up", "dpad_down", "dpad_left", "dpad_right",
     "start", "back", "right_paddle", "left_paddle", "right_shoulder", "left_shoulder",
     "left_stick"}
Corner(x, y) == [x |-> x, y |-> y]
Still == [pressed |-> {}, lx |-> 0, ly |-> 0, rx |-> 0, ry |-> 0,
          acc |-> [x |-> 512, y |-> 512, z |-> 616],
          dots |-> <<Corner(LowX, LowY), Corner(HighX, HighY)>>]
PressOne == {[Still EXCEPT !.pressed = {p}] : p \in PadButtons}
Others ==
    {[Still EXCEPT !.pressed = PadButtons \ {"left_stick"}, !.lx = 32767, !.ly = -32768,
                   !.rx = -32768, !.ry = 32767,
                   !.acc = [x |-> 1023, y |-> 1023, z |-> 1023],
                   !.dots = <<Corner(65535, Absent), Corner(300, Absent)>>],
     [Still EXCEPT !.lx = -1, !.ly = 255, !.rx = 20000, !.ry = -20000,
                   !.acc = [x |-> 1, y |-> 2, z |-> 65535],
                   !.dots = <<Corner(HighX, LowY), Corner(LowX, HighY)>>],
     [Still EXCEPT !.acc = [x |-> 2, y |-> 1, z |-> 1], !.rx = 3000, !.ry = -3000,
                   !.dots = <<Corner(500, 511), Corner(628, 256)>>]}

Nunchuk == INSTANCE InputReport
    WITH Ext <- "nunchuk", HasMotion <- TRUE, ReportModes <- (48..55) \cup {61, 62},
         Continuous <- BOOLEAN, CameraModes <- {0, 1, 3}, Inputs <- {Still} \cup Others

Classic == INSTANCE InputReport
    WITH Ext <- "classic", HasMotion <- FALSE, ReportModes <- {48, 50, 53, 61},
         Continuous <- BOOLEAN, CameraModes <- {0, 5},
         Inputs <- {Still} \cup PressOne \cup Others

\* Permutations in place of the substitution tables; draws with small, large and
\* equal bytes, so that rotations by 0 and differences below 0 occur; reads of
\* controller data, of its second piece, of the identifier, and one that does
\* not start at a multiple of eight.
Bytes == 0..255
Crypto == INSTANCE ExtCrypto
    WITH KeySbox <- [x \in Bytes |-> (5 * x + 112) % 256],
         Sboxes <- [i \in 0..7 |-> [x \in Bytes |-> ((2 * i + 3) * x + 29 * i + 1) % 256]],
         Regs <- [a \in Bytes |-> (37 * a + 11) % 256],
         Draws <- {[i \in 1..10 |-> 0], [i \in 1..10 |-> 255],
                   [i \in 1..10 |-> (83 * i) % 256]},
         Reads <- {[addr |-> 0, size |-> 6], [addr |-> 0, size |-> 21],
                   [addr |-> 16, size |-> 5], [addr |-> 250, size |-> 6],
                   [addr |-> 3, size |-> 16]},
         host <- peer

ASSUME Nunchuk!ReportAssumption /\ Classic!ReportAssumption
ASSUME Crypto!CryptoAssumption

MCInit ==
    /\ part \in {"pointer", "nunchuk", "classic", "crypto"}
    /\ Init /\ (part # "pointer" => dev.touch /\ dev.combo)
    /\ IF part = "classic" THEN Classic!Init ELSE Nunchuk!Init
    /\ Crypto!Init

MCNext ==
    /\ UNCHANGED part
    /\ \/ part = "pointer" /\ Next /\ UNCHANGED <<reportVars, cryptoVars>>
       \/ part = "nunchuk" /\ Nunchuk!Next /\ UNCHANGED <<vars, cryptoVars>>
       \/ part = "classic" /\ Classic!Next /\ UNCHANGED <<vars, cryptoVars>>
       \/ part = "crypto" /\ Crypto!Next /\ UNCHANGED <<vars, reportVars>>

MCSpec == MCInit /\ [][MCNext]_mcVars

-----------------------------------------------------------------------------
(* The properties of InputReport and ExtCrypto for these instances          *)

ForEach(OfNunchuk, OfClassic) ==
    (part = "nunchuk" => OfNunchuk) /\ (part = "classic" => OfClassic)

\* The bytes of a report fit and are all written.
ReportTypeOK == ForEach(Nunchuk!ReportTypeOK, Classic!ReportTypeOK)

\* The host sees buttons, motion and the sticks of either extension.
HostSeesInput == ForEach(Nunchuk!HostSeesInput, Classic!HostSeesInput)

\* The host sees the dots in the camera mode that goes with the report, between
\* the corners it calibrates the camera by.
HostSeesDots == ForEach(Nunchuk!HostSeesDots, Classic!HostSeesDots)

\* A poll that sends no report misses nothing.
NothingMissed == ForEach(Nunchuk!NothingMissed, Classic!NothingMissed)

\* The host decrypts every reply with the key it has written.
HostDecrypts == part = "crypto" => Crypto!HostDecrypts
================================================================================
