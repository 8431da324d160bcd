-------------------------------- MODULE SysConf --------------------------------
(***************************************************************************)
(* How the module pairs its fake Wiimotes with the console when it starts  *)
(* (main, patch_conf_bt_dinf of main.c, conf.c): it looks up the list of   *)
(* paired Wiimotes in the SYSCONF file, adds its own to it unless they are *)
(* there, and writes the file.  Between two starts the console pairs and   *)
(* forgets Wiimotes.                                                       *)
(*                                                                         *)
(* The file is a sequence of named entries; the list is an array of which  *)
(* the first ones are in use, and the others keep what was there.          *)
(***************************************************************************)
EXTENDS Naturals, Sequences

CONSTANTS
    Max,        \* CONF_PAD_MAX_REGISTERED, 10 in the code
    Real,       \* real Wiimotes
    Fake0, Fake1,   \* the addresses of the fake ones
    Nobody,     \* an entry that was never used
    PadsSize,   \* sizeof(struct conf_pads_setting)
    Layouts,    \* entries a SYSCONF file may have: name, type and size
    Budget      \* how often the console may pair and forget

ASSUME MaxAssumption == Max \in Nat /\ Max >= 2
ASSUME PadsSizeAssumption == PadsSize \in Nat
ASSUME DevicesAssumption ==
    Fake0 # Fake1 /\ {Fake0, Fake1, Nobody} \cap Real = {} /\ Nobody \notin {Fake0, Fake1}

Devices == Real \cup {Fake0, Fake1, Nobody}
Array == 1..Max
Pads == [num : 0..Max, reg : [Array -> Devices]]

VARIABLES
    file,       \* the layout of the SYSCONF file
    pads,       \* BT.DINF, if the file has it
    status,     \* of the module: off, running, or refused to start
    budget      \* what the console may still do

vars == <<file, pads, status, budget>>

-----------------------------------------------------------------------------
(* The definitions named ..._Without... and ..._With... are faulty variants  *)
(* that the runs must tell from the code.                                    *)
(*                                                                          *)
(* The file (conf.c)                                                        *)

\* conf_find: the first entry of this name.
Entries(name) == {i \in DOMAIN file : file[i].name = name}
Find(name) == file[CHOOSE i \in Entries(name) : \A j \in Entries(name) : i <= j]

Scalars == {"byte", "bool", "short", "long"}
SizeOf(type) ==
    CASE type \in {"byte", "bool"} -> 1 [] type = "short" -> 2 [] type = "long" -> 4

\* conf_get_length, for an entry of a known type.
LengthOf(e) == IF e.type \in Scalars THEN SizeOf(e.type) ELSE e.size

Readable(name) == Entries(name) # {} /\ Find(name).type # "unknown"

\* conf_get returns `length' when it is asked for so many bytes: the entry is
\* not longer (that is an error), and not shorter.
GetFills(name, length) == Readable(name) /\ LengthOf(Find(name)) = length

\* conf_set stores a buffer of so many bytes.
SetFits(name, length) == Readable(name) /\ LengthOf(Find(name)) >= length

-----------------------------------------------------------------------------
(* The list (patch_conf_bt_dinf)                                            *)

InUse(p) == {i \in Array : i <= p.num}
Registered(p) == {p.reg[i] : i \in InUse(p)}

\* The fake Wiimotes are counted in order: number 1 only behind number 0.
HasFirst(p) == Fake0 \in Registered(p)
HasBoth(p) == \E i, j \in InUse(p) : i < j /\ p.reg[i] = Fake0 /\ p.reg[j] = Fake1

Count(p) == IF HasBoth(p) THEN 0 ELSE IF HasFirst(p) THEN 1 ELSE 2

Start_WithoutNum(p) == Max - 2
Start_WithSmallerLimit(p) == IF p.num < Max - 3 THEN p.num ELSE Max - 3

\* The entries that stay; the fake Wiimotes come behind them.
Start(p) == IF p.num < Max - 2 THEN p.num ELSE Max - 2

Entry_WithoutNumber(i) == Fake0

Entry(i) == IF i = 1 THEN Fake0 ELSE Fake1

Patched(p) ==
    IF HasBoth(p) THEN p
    ELSE [num |-> Start(p) + Count(p),
          reg |-> [i \in Array |-> IF i > Start(p) /\ i <= Start(p) + Count(p)
                                   THEN Entry(i - Start(p)) ELSE p.reg[i]]]

-----------------------------------------------------------------------------
(* Starting the module (main)                                               *)

\* The configuration has what the module needs, in the size it expects.
CanPatch == GetFills("BT.DINF", PadsSize)

\* reads, writes: the file could be read and written.
Boot(reads, writes) ==
    LET loaded == reads /\ GetFills("BT.BAR", 1) /\ CanPatch
        stores == ~HasBoth(pads)
    IN  /\ status = "off"
        /\ pads' = IF loaded /\ stores /\ writes /\ SetFits("BT.DINF", PadsSize)
                   THEN Patched(pads) ELSE pads
        /\ status' = IF loaded /\ (stores => writes) THEN "running" ELSE "refused"
        /\ UNCHANGED <<file, budget>>

\* The console is switched off.
PowerOff ==
    /\ status # "off"
    /\ status' = "off"
    /\ UNCHANGED <<file, pads, budget>>

-----------------------------------------------------------------------------
(* The console                                                              *)

Spend == budget > 0 /\ budget' = budget - 1

Without(reg, k) == [i \in Array |-> IF i >= k /\ i < Max THEN reg[i + 1] ELSE reg[i]]

\* It forgets the k-th Wiimote; what is behind moves up.
Forget(k) ==
    /\ status # "off" /\ k <= pads.num
    /\ Spend
    /\ pads' = [num |-> pads.num - 1, reg |-> Without(pads.reg, k)]
    /\ UNCHANGED <<file, status>>

\* It pairs a Wiimote it does not know; there must be room.
Pair(d) ==
    /\ status # "off" /\ pads.num < Max /\ d \notin Registered(pads)
    /\ Spend
    /\ pads' = [num |-> pads.num + 1, reg |-> [pads.reg EXCEPT ![pads.num + 1] = d]]
    /\ UNCHANGED <<file, status>>

\* A console with no Wiimote that is paired.
Init ==
    /\ file \in Layouts
    /\ pads = [num |-> 0, reg |-> [i \in Array |-> Nobody]]
    /\ status = "refused"
    /\ budget = Budget

Next ==
    \/ \E reads, writes \in BOOLEAN : Boot(reads, writes)
    \/ PowerOff
    \/ \E k \in Array : Forget(k)
    \/ \E d \in Real \cup (IF status = "running" THEN {Fake0, Fake1} ELSE {}) : Pair(d)

Spec == Init /\ [][Next]_vars

-----------------------------------------------------------------------------
(* Properties                                                               *)

Starts == \E reads, writes \in BOOLEAN : Boot(reads, writes)

\* The list never has more entries than the file has room for.
ConfTypeOK == pads \in Pads /\ status \in {"off", "running", "refused"}

\* A start keeps all entries but the last two of a full list, in their places:
\* the user never loses more than two Wiimotes to the fake ones at a time.
RealsKept ==
    [][Starts => /\ \A i \in InUse(pads) : i <= Max - 2
                      => i <= pads'.num /\ pads'.reg[i] = pads.reg[i]
                 /\ pads.num <= Max - 2 => pads'.num >= pads.num]_vars

\* A Wiimote that the console has forgotten is not paired again by a start,
\* although its entry is still there behind the list.
NothingRevived ==
    [][Starts => Registered(pads') \subseteq Registered(pads) \cup {Fake0, Fake1}]_vars

\* If the console had none of the fake Wiimotes a start pairs both, in the order
\* in which the next start looks for them, however full the list was.
BothPaired ==
    [][Starts /\ status' = "running" /\ Registered(pads) \cap {Fake0, Fake1} = {}
         => HasBoth(pads')]_vars

\* The comment in patch_conf_bt_dinf: the fake Wiimotes are given at least the
\* last two entries of the list; a start pairs both, whatever it held before.
FakesPaired ==
    [][Starts /\ status' = "running" => {Fake0, Fake1} \subseteq Registered(pads')]_vars
================================================================================
