---------------------------- MODULE SysConf_proofs ----------------------------
(***************************************************************************)
(* Proofs about SysConf, for a list of any length and any files: what a    *)
(* start does to the list of paired Wiimotes.  The inductive invariant is  *)
(* the type invariant; the rest is about one start from a list of its      *)
(* type.                                                                   *)
(***************************************************************************)
EXTENDS SysConf, TLAPS

\* The entries a start adds fit behind the ones it keeps.
LEMMA StartFits ==
    ASSUME NEW p \in Pads
    PROVE  /\ Start(p) \in 0..Max /\ Start(p) <= p.num /\ Start(p) <= Max - 2
           /\ p.num <= Max - 2 => Start(p) = p.num
           /\ Count(p) \in 0..2
           /\ Start(p) + Count(p) \in 0..Max
BY MaxAssumption DEF Pads, Start, Count

\* The patched list is a list.
LEMMA PatchedTyped ==
    ASSUME NEW p \in Pads
    PROVE  Patched(p) \in Pads
<1>1. CASE HasBoth(p)
  BY <1>1 DEF Patched
<1>2. CASE ~HasBoth(p)
  <2>1. Start(p) + Count(p) \in 0..Max
    BY StartFits
  <2>2. \A i \in Array : Entry(i - Start(p)) \in Devices /\ p.reg[i] \in Devices
    BY DEF Pads, Entry, Devices
  <2>3. Patched(p) = [num |-> Start(p) + Count(p),
                      reg |-> [i \in Array |-> IF i > Start(p) /\ i <= Start(p) + Count(p)
                                               THEN Entry(i - Start(p)) ELSE p.reg[i]]]
    BY <1>2 DEF Patched
  <2>. QED BY <2>1, <2>2, <2>3 DEF Pads
<1>. QED BY <1>1, <1>2

\* A start patches the list or leaves it.
LEMMA BootPatches ==
    ASSUME NEW reads \in BOOLEAN, NEW writes \in BOOLEAN, Boot(reads, writes)
    PROVE  pads' \in {pads, Patched(pads)} /\ status' \in {"running", "refused"}
BY DEF Boot

LEMMA ConfInit == Init => ConfTypeOK
BY MaxAssumption DEF Init, ConfTypeOK, Pads, Devices

LEMMA ConfNext == ConfTypeOK /\ [Next]_vars => ConfTypeOK'
<1> SUFFICES ASSUME ConfTypeOK, [Next]_vars PROVE ConfTypeOK'
  OBVIOUS
<1> USE DEF ConfTypeOK
<1>1. ASSUME NEW reads \in BOOLEAN, NEW writes \in BOOLEAN, Boot(reads, writes)
      PROVE  ConfTypeOK'
  BY <1>1, BootPatches, PatchedTyped
<1>2. CASE PowerOff
  BY <1>2 DEF PowerOff
<1>3. ASSUME NEW k \in Array, Forget(k) PROVE ConfTypeOK'
  <2>1. Without(pads.reg, k) \in [Array -> Devices]
    BY MaxAssumption DEF Without, Pads, Array
  <2>2. pads.num - 1 \in 0..Max
    BY <1>3, MaxAssumption DEF Forget, Pads, Array
  <2>. QED BY <1>3, <2>1, <2>2 DEF Forget, Pads
<1>4. ASSUME NEW d \in Real \cup {Fake0, Fake1}, Pair(d) PROVE ConfTypeOK'
  <2>1. pads.num + 1 \in 0..Max
    BY <1>4, MaxAssumption DEF Pair, Pads
  <2>2. [pads.reg EXCEPT ![pads.num + 1] = d] \in [Array -> Devices]
    BY DEF Pads, Devices
  <2>. QED BY <1>4, <2>1, <2>2 DEF Pair, Pads
<1>5. CASE UNCHANGED vars
  BY <1>5 DEF vars
<1>. QED BY <1>1, <1>2, <1>3, <1>4, <1>5 DEF Next

\* The list never outgrows its array, however often the console and the module
\* add to it (patch_conf_bt_dinf).
THEOREM ConfTyped == Spec => []ConfTypeOK
BY ConfInit, ConfNext, PTL DEF Spec

-----------------------------------------------------------------------------
\* What could be read in the size expected can be stored in it.
LEMMA SizeFits == CanPatch => SetFits("BT.DINF", PadsSize)
BY PadsSizeAssumption DEF CanPatch, GetFills, SetFits

\* What the patch keeps, in a list of any length.
LEMMA PatchedKeeps ==
    ASSUME NEW p \in Pads
    PROVE  /\ \A i \in InUse(p) : i <= Max - 2
                => i <= Patched(p).num /\ Patched(p).reg[i] = p.reg[i]
           /\ p.num <= Max - 2 => Patched(p).num >= p.num
<1>1. CASE HasBoth(p)
  BY <1>1, MaxAssumption DEF Patched, InUse, Pads, Array
<1>2. CASE ~HasBoth(p)
  <2>1. Patched(p).num = Start(p) + Count(p)
    BY <1>2 DEF Patched
  <2>2. \A i \in Array : i <= Start(p) => Patched(p).reg[i] = p.reg[i]
    BY <1>2, StartFits DEF Patched, Array
  <2>3. \A i \in InUse(p) : i <= Max - 2 => i <= Start(p)
    BY MaxAssumption DEF InUse, Array, Start, Pads
  <2>4. \A i \in InUse(p) : i \in Array /\ i \in Nat
    BY DEF InUse, Array
  <2>. QED BY <2>1, <2>2, <2>3, <2>4, StartFits
<1>. QED BY <1>1, <1>2

\* Only the fake Wiimotes are added to the list.
LEMMA PatchedAdds ==
    ASSUME NEW p \in Pads
    PROVE  Registered(Patched(p)) \subseteq Registered(p) \cup {Fake0, Fake1}
<1>1. CASE HasBoth(p)
  BY <1>1 DEF Patched
<1>2. CASE ~HasBoth(p)
  <2> SUFFICES ASSUME NEW i \in Array, i <= Patched(p).num
               PROVE  Patched(p).reg[i] \in Registered(p) \cup {Fake0, Fake1}
    BY DEF Registered, InUse
  <2>1. Patched(p).num = Start(p) + Count(p)
    BY <1>2 DEF Patched
  <2>2. Patched(p).reg[i] = IF i > Start(p) /\ i <= Start(p) + Count(p)
                            THEN Entry(i - Start(p)) ELSE p.reg[i]
    BY <1>2 DEF Patched
  <2>3. CASE i > Start(p)
    BY <2>1, <2>2, <2>3 DEF Entry
  <2>4. CASE ~(i > Start(p))
    <3>1. i <= p.num
      BY <2>4, StartFits DEF Array, Pads
    <3>. QED BY <2>2, <2>4, <3>1 DEF Registered, InUse
  <2>. QED BY <2>3, <2>4
<1>. QED BY <1>1, <1>2

\* A list without fake Wiimotes gets both, in order.
LEMMA PatchedHasBoth ==
    ASSUME NEW p \in Pads, Registered(p) \cap {Fake0, Fake1} = {}
    PROVE  ~HasBoth(p) /\ HasBoth(Patched(p))
<1>1. ~HasFirst(p)
  BY DEF HasFirst
<1>2. ~HasBoth(p)
  BY <1>1 DEF HasBoth, HasFirst, Registered
<1>3. Count(p) = 2
  BY <1>1, <1>2 DEF Count
<1> DEFINE i == Start(p) + 1
           j == Start(p) + 2
<1>4. /\ i \in Array /\ j \in Array /\ i < j
      /\ i <= Start(p) + 2 /\ j <= Start(p) + 2 /\ i > Start(p) /\ j > Start(p)
      /\ i - Start(p) = 1 /\ j - Start(p) = 2
  BY <1>3, StartFits, MaxAssumption DEF Array
<1>5. Patched(p).num = Start(p) + 2
  BY <1>2, <1>3 DEF Patched
<1> HIDE DEF i, j
<1>6. Patched(p).reg[i] = Fake0 /\ Patched(p).reg[j] = Fake1
  BY <1>2, <1>3, <1>4 DEF Patched, Entry
<1>. QED BY <1>2, <1>4, <1>5, <1>6 DEF HasBoth, InUse

\* A start takes the places of two Wiimotes at most, of a full list, and leaves
\* the others where they are.
THEOREM StartKeeps == Spec => RealsKept
<1> DEFINE Kept ==
      Starts => /\ \A i \in InUse(pads) : i <= Max - 2
                     => i <= pads'.num /\ pads'.reg[i] = pads.reg[i]
                /\ pads.num <= Max - 2 => pads'.num >= pads.num
<1>1. ASSUME ConfTypeOK PROVE Kept
  <2> SUFFICES ASSUME NEW reads \in BOOLEAN, NEW writes \in BOOLEAN, Boot(reads, writes)
               PROVE  /\ \A i \in InUse(pads) : i <= Max - 2
                           => i <= pads'.num /\ pads'.reg[i] = pads.reg[i]
                      /\ pads.num <= Max - 2 => pads'.num >= pads.num
    BY DEF Starts
  <2>1. CASE pads' = Patched(pads)
    BY <1>1, <2>1, PatchedKeeps DEF ConfTypeOK
  <2>2. CASE pads' = pads
    BY <1>1, <2>2, MaxAssumption DEF ConfTypeOK, Pads, InUse, Array
  <2>. QED BY <2>1, <2>2, BootPatches
<1>. QED BY <1>1, ConfTyped, PTL DEF RealsKept

\* A start pairs no Wiimote again that the console has forgotten.
THEOREM StartRevivesNothing == Spec => NothingRevived
<1> DEFINE Revived ==
      Starts => Registered(pads') \subseteq Registered(pads) \cup {Fake0, Fake1}
<1>1. ASSUME ConfTypeOK PROVE Revived
  BY <1>1, BootPatches, PatchedAdds DEF Starts, ConfTypeOK
<1>. QED BY <1>1, ConfTyped, PTL DEF NothingRevived

\* A start of a console without fake Wiimotes pairs both, also if the list was
\* full.
THEOREM StartPairs == Spec => BothPaired
<1> DEFINE Paired ==
      Starts /\ status' = "running" /\ Registered(pads) \cap {Fake0, Fake1} = {}
        => HasBoth(pads')
<1>1. ASSUME ConfTypeOK PROVE Paired
  <2> SUFFICES ASSUME NEW reads \in BOOLEAN, NEW writes \in BOOLEAN, Boot(reads, writes),
                      status' = "running", Registered(pads) \cap {Fake0, Fake1} = {}
               PROVE  HasBoth(pads')
    BY DEF Starts
  <2>1. ~HasBoth(pads) /\ HasBoth(Patched(pads))
    BY <1>1, PatchedHasBoth DEF ConfTypeOK
  <2>2. pads' = Patched(pads)
    BY <2>1, SizeFits DEF Boot, CanPatch
  <2>. QED BY <2>1, <2>2
<1>. QED BY <1>1, ConfTyped, PTL DEF BothPaired
================================================================================
