------------------------------- MODULE HciState -------------------------------
(***************************************************************************)
(* The HCI state that fakemote tracks (hci_state.c), as a value and the    *)
(* functions on it: whether the host scans for pages, the counter virtual  *)
(* connection handles are taken from, and the table that maps the handles  *)
(* of the dongle (physical) to those the host knows (virtual).             *)
(***************************************************************************)
EXTENDS Integers, FiniteSets, FiniteSetsExt

CONSTANTS
    NumEntries,     \* entries of the table, 32 in the code
    NumHandles      \* virtual handles before the counter wraps: the mask
                    \* 0x0EFF clears bit 8, so 256 in the code

ASSUME HciAssumption == NumEntries \in Nat \ {0} /\ NumHandles \in Nat \ {0}

Entries == 1..NumEntries
VirtHandles == 0..(NumHandles - 1)

\* An entry that is not valid; its old contents are never read.
Unmapped == [valid |-> FALSE]
Mapped(phys, virt) == [valid |-> TRUE, phys |-> phys, virt |-> virt]

HciReset == [scan |-> FALSE, last |-> 0, table |-> [i \in Entries |-> Unmapped]]

\* If page scan is disabled the controller will not see connection requests.
CanRequestConnection(h) == h.scan

SetScan(h, on) == [h EXCEPT !.scan = on]

\* Definitions named ..._Without... are faulty variants that the runs of
\* Fakemote must tell from the code.
VirtAlloc_WithoutIncrement(h) == h

\* hci_con_handle_virt_alloc returns h.last and leaves VirtAlloc(h).
VirtAlloc(h) == [h EXCEPT !.last = (@ + 1) % NumHandles]

Free(h) == {i \in Entries : ~h.table[i].valid}
WithPhys(h, phys) == {i \in Entries : h.table[i].valid /\ h.table[i].phys = phys}
WithVirt(h, virt) == {i \in Entries : h.table[i].valid /\ h.table[i].virt = virt}

\* The table is searched from its start: the first match counts.  The callers
\* assert that there is one.
GetVirt(h, phys) == h.table[Min(WithPhys(h, phys))].virt
GetPhys(h, virt) == h.table[Min(WithVirt(h, virt))].phys

MapHandle(h, phys, virt) ==
    [h EXCEPT !.table[Min(Free(h))] = Mapped(phys, virt)]

UnmapVirt_WithoutUnmap(h, virt) == h

UnmapVirt(h, virt) == [h EXCEPT !.table[Min(WithVirt(h, virt))] = Unmapped]
===============================================================================
