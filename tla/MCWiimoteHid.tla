------------------------------ MODULE MCWiimoteHid ------------------------------
(***************************************************************************)
(* Instances of WiimoteHid for TLC: six registers, pieces of two, and one   *)
(* scene for each of the things a host does.                               *)
(***************************************************************************)
EXTENDS WiimoteHid

ReadOf(space, addr, size) ==
    [type |-> "read", space |-> space, addr |-> addr, size |-> size]
WriteOf(space, addr, bytes) ==
    [type |-> "write", space |-> space, addr |-> addr, bytes |-> bytes]
ModeOf(mode, cont, ack) == [type |-> "mode", mode |-> mode, cont |-> cont, ack |-> ack]

\* Writes in, across and around the key area, and of the byte that turns the
\* encryption on; reads of some registers and of too many.
MemoryOutputs ==
    {WriteOf("ext", a, b) : a \in KeyBegin - 1..KeyEnd, b \in {<<1>>, <<0, 2>>}}
    \cup {WriteOf("ext", EncAddr, <<EncOn>>), WriteOf("ext", RegSize - 1, <<1, 1>>),
          WriteOf("eeprom", EepromSize - 1, <<1, 1>>), WriteOf("ext", 0, <<>>)}
    \cup {ReadOf("ext", 0, 3), ReadOf("ext", RegSize - 2, 4), ReadOf("ext", 0, 0)}

\* Reads of every space, of none to three pieces, some refused.
ReadOutputs ==
    {ReadOf("ext", 0, 5), ReadOf("eeprom", 1, 3), ReadOf("eeprom", 1, 4),
     ReadOf("camera", RegSize - 1, 2), ReadOf("eeprom_i2c", 0, 1),
     ReadOf("nobody", AddrCount - 2, 4), ReadOf("bad", 0, 1), ReadOf("ext", 0, 0)}
    \cup {[type |-> "status"], [type |-> "feature", ack |-> TRUE],
          [type |-> "feature", ack |-> FALSE]}

\* The player switches the extension, the host follows; one read fails.
ExtensionOutputs ==
    {ReadOf("ext", IdAddr, 1), ReadOf("ext", 0, 3), ReadOf("ext", 2, 5),
     [type |-> "status"], ModeOf("btn_ext", TRUE, TRUE), ModeOf("btn_ext", FALSE, FALSE)}

MCOutputs == [memory |-> MemoryOutputs, reads |-> ReadOutputs,
              extension |-> ExtensionOutputs]

Calm == [scene |-> "memory", press |-> 0, reconnect |-> 0, status |-> 0,
         feature |-> 0, mode |-> 0, write |-> 0, read |-> 0]

MCBudgets ==
    {[Calm EXCEPT !.write = 3, !.read = 1],
     [Calm EXCEPT !.write = 2, !.read = 1, !.reconnect = 1],
     [Calm EXCEPT !.scene = "reads", !.read = 3],
     [Calm EXCEPT !.scene = "reads", !.read = 2, !.status = 1, !.feature = 1],
     [Calm EXCEPT !.scene = "extension", !.press = 3, !.read = 1, !.mode = 1],
     [Calm EXCEPT !.scene = "extension", !.press = 2, !.read = 1, !.mode = 1,
                  !.reconnect = 1]}
================================================================================
