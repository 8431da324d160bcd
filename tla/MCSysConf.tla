------------------------------- MODULE MCSysConf -------------------------------
(***************************************************************************)
(* Instances of SysConf for TLC: a list of four, files with and without    *)
(* the entries, in several sizes.                                          *)
(***************************************************************************)
EXTENDS SysConf, TLC

Bar == [name |-> "BT.BAR", type |-> "byte", size |-> 0]
Dinf(type, size) == [name |-> "BT.DINF", type |-> type, size |-> size]
Good == <<Bar, Dinf("bigarray", PadsSize)>>

AllLayouts ==
    {Good, <<Bar>>, <<Dinf("bigarray", PadsSize)>>, <<Dinf("unknown", PadsSize), Bar>>}
    \cup {<<Bar, Dinf("bigarray", n)>> : n \in {PadsSize - 1, PadsSize + 1}}
    \cup {<<[Bar EXCEPT !.type = "long"], Dinf("smallarray", PadsSize)>>}

GoodLayouts == {Good}

Perms == Permutations(Real)
================================================================================
