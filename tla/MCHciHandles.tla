------------------------------ MODULE MCHciHandles ------------------------------
(***************************************************************************)
(* Instances for TLC of HciHandles (two handles of the dongle, used again, *)
(* a table with as many entries, and three virtual handles, so that their  *)
(* counter wraps) and of LinkKeys (dongles with no key, one and several).  *)
(* They have no state in common, and one of them runs in each behaviour:   *)
(* `part' says which, the other one stays in its initial state.            *)
(***************************************************************************)
EXTENDS HciHandles

VARIABLES
    part,                                               \* the module that runs
    readAll, keys, dongle, keyUsb, keyEvtQ, lost, reader    \* those of LinkKeys

keyVars == <<readAll, keys, dongle, keyUsb, keyEvtQ, lost, reader>>
mcVars == <<part, vars, keyVars>>

Keys == INSTANCE LinkKeys
    WITH Fakes <- 2, Stored <- {0, 1, 3}, Window <- 1, EvtCap <- 3,
         usb <- keyUsb, evtQ <- keyEvtQ, host <- reader

ASSUME Keys!LinkKeysAssumption

MCInit ==
    /\ part \in {"handles", "keys"}
    /\ Init
    /\ Keys!Init /\ (part # "keys" => keys = 0)

MCNext ==
    /\ UNCHANGED part
    /\ \/ part = "handles" /\ Next /\ UNCHANGED keyVars
       \/ part = "keys" /\ Keys!Next /\ UNCHANGED vars

MCSpec == MCInit /\ [][MCNext]_mcVars

\* The keys announced to the host are those it was given (see LinkKeys).
KeysAnnounced == part = "keys" => Keys!KeysAnnounced
================================================================================
