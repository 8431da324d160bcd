------------------------------ MODULE MCL2capLink ------------------------------
(***************************************************************************)
(* Instances of L2capLink for TLC.                                         *)
(***************************************************************************)
EXTENDS L2capLink

Calm == [connect |-> <<0, 0>>, drop |-> 0, close |-> 0, refuse |-> 0, output |-> 0]

\* One Wiimote is connected twice, and the host closes a channel or refuses one;
\* it is connected once, and the host closes a channel and then another; two
\* Wiimotes share the pipe and the counter of identifiers.
MCBudgets ==
    {[Calm EXCEPT !.connect[1] = 2, !.drop = 1, !.close = 1, !.refuse = 1, !.output = 1],
     [Calm EXCEPT !.connect[1] = 1, !.close = 2, !.output = 1],
     [Calm EXCEPT !.connect = <<1, 1>>, !.drop = 1]}
================================================================================
