------------------------------ MODULE MCFakemote ------------------------------
(***************************************************************************)
(* Instances of Fakemote for TLC.                                          *)
(***************************************************************************)
EXTENDS Fakemote, TLC

NoDisturbance == [plug |-> 2, unplug |-> 0, general |-> 0, reject |-> 0,
                  disconnect |-> 0, command |-> 0, refuse |-> 0, reset |-> 0,
                  real |-> 0, traffic |-> 0]

\* Two fake Wiimotes without dongle traffic; a real Wiimote that comes twice
\* beside one fake Wiimote, without a reset or with one; a real one that comes once
\* beside two.
SafetyBudgets ==
    {[NoDisturbance EXCEPT !.plug = 3, !.unplug = 1, !.reject = 1, !.disconnect = 1,
                           !.reset = 1],
     [NoDisturbance EXCEPT !.plug = 1, !.disconnect = 1, !.command = 1, !.real = 2,
                           !.traffic = 1],
     [NoDisturbance EXCEPT !.plug = 1, !.disconnect = 1, !.real = 2, !.reset = 1,
                           !.traffic = 1],
     [NoDisturbance EXCEPT !.plug = 2, !.disconnect = 1, !.real = 1, !.traffic = 1]}

\* Calm enough to ask what must eventually happen.
LiveBudgets ==
    {[NoDisturbance EXCEPT !.reject = 1, !.refuse = 1, !.reset = 1, !.general = 1]}

\* One disturbance is enough for each of the disagreements with the comments.
UnplugOnly == {[NoDisturbance EXCEPT !.unplug = 1]}
RejectTwice == {[NoDisturbance EXCEPT !.plug = 4, !.unplug = 2, !.reject = 2]}

PadSymmetry == Permutations(Pads)
===============================================================================
