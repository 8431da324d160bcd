# A TLA+ model of fakemote

fakemote is a cIOS module for the Wii. It sits between the Bluetooth stack of
the running game (the *host*) and OH1, the IOS module that drives the Bluetooth
USB dongle, hooks the messages between the two, and pretends that USB gamepads
are Wii Remotes: it answers HCI commands, injects HCI events and ACL packets,
and translates the connection handles of real Wiimotes so that they do not clash
with those of the fake ones.

This directory holds specifications of the whole of its logic, the configurations
that model-check them, and proofs. Paths in this file are relative to `src/`.

## 1. Inventory

| Component | State | Operations | Correct when |
|---|---|---|---|
| Message bridge (`source/main.c`) | per inbound pipe: PendingQ of host buffers, ReadyQ of messages, one static hand-down message and its flag | `handle_bulk_intr_pending_message` (host posts a buffer), `handle_bulk_intr_ready_message` (OH1 answered, or a message was injected), `copy_and_ack_ipcmessage` | no event is reordered, duplicated or overwritten; a buffer is not forgotten; a pipe never gets stuck |
| Injected messages (`source/injmessage.c`) | 4 KiB heap shared by both pipes | allocate, free, address test, one function per injected event | a message in a queue is allocated, once |
| HCI state tracker (`source/hci_state.c`) | page scan, handle counter, table physical ↔ virtual handle, stored-link-key flags | handle a command, an event, ACL in and out; reset; allocate, map, unmap | the table follows the dongle; no handle has two owners; answers name the right connection; counts of keys are right |
| Fake Wiimote manager (`source/fake_wiimote_mgr.c`) | the array of fake Wiimotes | tick: assign gamepads, tick Wiimotes, send completed packets; dispatch of HCI commands, events, ACL | commands reach the right peer; flow-control credits balance |
| Fake Wiimote: baseband (`source/fake_wiimote.c`) | active flag, link state, device pointer | init, disconnect, tick, accept, role | Wiimote and gamepad agree on who has whom; a plugged-in gamepad gets connected |
| Fake Wiimote: L2CAP (`fake_wiimote.c`) | two channels, a shared counter of identifiers | open, configure, answer and close channels | both ends agree; the host's commands find their channel; linking ends |
| Fake Wiimote: HID (`fake_wiimote.c`) | report mode, buttons, extension present and wanted, read in progress, registers, key | output reports, reads and writes in pieces, extension change, data reports | replies continue the read that is open; data belong to the extension the host knows; the key is up to date; the host decodes what the player did |
| Input devices: slots (`source/input_device.c`) | two slots: gamepad, Wiimote assigned, reconnect delay | added, removed, tick, assign, release, resume, suspend | a slot is assigned to one live Wiimote; a freed gamepad asks again |
| Input devices: mapping modes (`input_device.c`) | per slot: extension, pointer mode, held flags, pointer position | poll: switch by combination, map | one switch per press; the pointer stays on the screen |
| Button and IR mapping (`source/button_map.c`) | the pointer's position | functions from gamepad input to report fields | each bit goes where the protocol says; the pointer follows the stick |
| Extension encryption (`source/wiimote_crypto.c`) | tables of one key | find the index, generate tables, encrypt | the host decrypts what was encrypted |
| SYSCONF patch (`source/conf.c`, `main.c`) | a copy of the SYSCONF file | find an item, read and write it, add the fake Wiimotes to the pairings | real pairings survive, forgotten ones do not come back |
| Start and OH1 patching (`main.c`, `start.s`), libc subset, protocol headers | – | – | not state that evolves |

**Who calls whom.** One timer message every period runs `egc_handle_events`
(gamepads come and go through callbacks into the input devices, which disconnect
Wiimotes), `input_devices_tick` and `fake_wiimote_mgr_tick_devices`. A hooked
host message goes to the manager first and, when no fake Wiimote takes it, to the
tracker and on to the dongle; a hooked answer of OH1 goes through the tracker and
the bridge to the host. The fake Wiimotes answer by injecting messages into the
same bridge. All this happens on OH1's one thread, so every handler runs to its
end; concurrency is in the *environment*: the host reads events late, commands
cross events, the interrupt and the bulk pipe are answered independently, the
dongle performs a command after fakemote has already acted on it, gamepads come
and go at any time.

**Hard behaviours.** Crossing of commands and events; a single static message
that circulates; short queues that drop; one heap for two pipes; handles from one
counter that wraps and that a reset restarts; a device pointer kept after
disconnection; retries and a delay before a gamepad asks again; channels closed
while their set-up is under way; reads that take several ticks; an extension that
changes in two steps; registers encrypted with a key written in pieces; 16-bit
arithmetic in the pointer. The full list, at the lines where each bites, is
`hazards` in `PROJECT.json`.

## 2. Modules

| Module | Models | Form |
|---|---|---|
| `EventFifo` | what an inbound pipe promises to the host: a bounded first-in first-out queue of events | abstract specification |
| `MsgBridge` | `main.c` queues and hooks, `injmessage.c` heap | state machine; implements `EventFifo` on each pipe |
| `HciState` | `hci_state.c`: counter, table, page scan | value of the tracker and functions on it |
| `HciHandles` | `hci_state.c`: every class of command and event with a handle | state machine on `HciState` |
| `LinkKeys` | `hci_state.c`, `fake_wiimote_mgr.c`: the counts of stored link keys | state machine |
| `InputDevices` | slots of `input_device.c` | value of the table and functions on it |
| `Fakemote` | `fake_wiimote_mgr.c`, connections of `fake_wiimote.c`, callers of `HciState` and `InputDevices`, host and dongle | state machine that composes the two |
| `L2capLink` | `fake_wiimote.c`, `injmessage.c`: the channels of all fake Wiimotes, and the host's ends | state machine |
| `WiimoteHid` | `fake_wiimote.c`, `input_device.c`: what a linked Wiimote does, and the host above | state machine |
| `Pointer` | `input_device.c`, `button_map.c`: mode, position and dots | state machine |
| `InputReport` | `fake_wiimote.c`, `button_map.c`, `wiimote.h`: the bytes of a data report | state machine with a decoder of the host |
| `ExtCrypto` | `wiimote_crypto.c` and its callers | state machine with a host that decrypts |
| `SysConf` | `conf.c`, `patch_conf_bt_dinf` of `main.c` | state machine |
| `MC...` | – | instances for TLC |
| `..._proofs` | – | theorems |

### MsgBridge

`readyQ[p]` and `pendQ[p]` are the two IOS queues of pipe `p`, with capacities
`ReadySize` and `PendingSize` (8 for both queues of the interrupt pipe, 16 for those of bulk-in). A message is its address: a block of
the heap (`Cells`) or, for the static hand-down message of a pipe, the pipe's
name. `mem` is the event number each carries, 0 in a free block.
`handDownPending` is the flag of the code; `inOH1` counts how often OH1 *really*
has the message, which the code only assumes. `hostOwned`, `produced` and
`delivered` are ghost or environment state.

| Action | Code |
|---|---|
| `PostFilled`, `PostPending`, `PostLost` | `handle_bulk_intr_pending_message`: message ready; none ready; PendingQ full |
| `Inject` | `injmessage_alloc`, then `handle_bulk_intr_ready_message` |
| `OH1Reply` | `OH1_IOS_ResourceReply_hook` for the hand-down message |
| `ReadyMessage`, `CopyAndAck` | `handle_bulk_intr_ready_message`, `copy_and_ack_ipcmessage` |

### Fakemote

The module's state is `wm`, `slots`, `hci`, `evtQ` and `overflow`; a handler is a
function from that state (the record `Now`) to the next one, composed in the
order of the calls in the code, and each action applies one. `evtQ` stands for the ReadyQ of the event pipe
together with the buffers the host has posted: `EvtCap` events may be between
fakemote and the host. `MsgBridge` justifies treating it as one bounded FIFO.
An `assert` that fails stops the thread (`__assert_func` never returns): `hung`
names it, and nothing happens afterwards.

| Action | Code |
|---|---|
| `Tick` (`TickWith`) | timer case of `OH1_IOS_ReceiveMessage_hook`: gamepad callbacks, `input_devices_tick`, `check_assign_input_devices`, `fake_wiimote_tick`, `send_event_number_of_completed_packets` |
| `HostScan`, `HostAccept`, `HostReject`, `HostDisconnect`, `HostCommand`, `HostRemoteName`, `HostReadLinkKeys`, `HostReset` | `fake_wiimote_mgr_handle_hci_cmd_from_host` and `hci_state_handle_hci_cmd_from_host` by opcode |
| `HostAcl` | ACL data out: a fake Wiimote counts it, otherwise the handle is translated |
| `OH1Event`, `OH1Acl` | answers of OH1: `hci_state_handle_hci_event_from_controller`, `hci_state_handle_acl_data_in_response_from_controller` |
| `HostRead`, `DongleReset`, `RealRequest`, `RealLeaves`, `RealSends` | environment: not code |

The host is modelled by what it knows: the requests and handles it has read about.
It acts on that, however stale, which is where the interesting interleavings come
from. The dongle has open links, events and data still to be read, and performs
a reset some time after fakemote has seen it.

Assumptions on the environment, all on the side of a well-behaved one:

- the host accepts a request only when it has no connection with that peer, and
  forgets a handle when it closes it or reads of its end;
- the dongle does not reuse a physical handle before the Disconnection Complete
  event of its last use has been read;
- a command reaches the dongle when it is sent, except a reset, and the dongle
  does not credit packets (only those to fake Wiimotes are counted);
- at most two gamepad callbacks per tick;
- the heap is not exhausted (in `MsgBridge` it may be);
- the host does not use handles other than those it was given.

### HciHandles and LinkKeys

`HciHandles` adds what `Fakemote` leaves out of the tracker: events of connections
and disconnections that failed (`Maps`, `Unmaps` look at the status), commands
whose handle is translated and the events that answer them, and a counter of
handles that wraps while connections are open. Every event carries the number of
the connection it is about, which the code does not see, so that properties can
say what an answer *means*. `crowded` is the condition under which the wrap may
give a handle to two connections.

`LinkKeys` has the injected event with the keys of the fake Wiimotes, the flag
`readAll` that is remembered until the dongle's event is patched, and a host that
adds up what it is told. `Window` is how many commands it sends before it waits.

### L2capLink

`wm[w].chn` are the two `l2cap_channel_info_t` of Wiimote `w`, `pipe` the bulk-in
pipe (a bounded FIFO, by `MsgBridge`), `host[w]` the ends of the channels as the
host knows them with the commands it has yet to send (`outbox`).

| Action | Code |
|---|---|
| `Connect`, `Drop` | `fake_wiimote_handle_hci_cmd_accept_con`, `fake_wiimote_disconnect` |
| `Tick` (`TickOf`, `Link`, `OpenChannel`, `SendConfig`) | `fake_wiimote_tick` of every connected Wiimote: link states, or a report |
| `HostSend` (`Packet`, `Command`) | `handle_l2cap_signal_channel_request`, one or two commands in a packet |
| `HostRead`, `HostClose`, `HostOutput` | environment: the host answers, refuses, closes, sends an output report |

### WiimoteHid

A handler maps the record `wii` to a `Result`: the next record and the report it
sends. Registers are cells of values 0 to 2, laid out as in the code (controller
data, key data, the cell that turns the encryption on, the identifier), with their
places as constants. A key is a function of the key data: `Key` is injective, so
a stale key is told from the right one; the arithmetic is `ExtCrypto`'s.

| Action | Code |
|---|---|
| `Tick` (`TickStep`) | `fake_wiimote_tick` of a linked Wiimote: a piece of a read, or a step of an extension change, or `input_device_report_input` and a data report |
| `HostOutput` (`Output`) | `handle_hid_intr_data_output` with reads and writes |
| `Reconnect` | `fake_wiimote_init_state`, `input_device_handle_added` |
| `Press`, `HostRead` | environment |

### Pointer, InputReport, ExtCrypto

`Pointer` is in the integers of the code: `u16` positions, `s16` sticks, division
towards zero, out-of-screen dots whose column is not initialized (any of
`Garbage`). `InputReport` builds the bytes of each report from the tables of
offsets and sizes in `wiimote.h` and lets a host of its own (`Layout`, `Host...`,
external: written from the protocol, not from those tables) take them apart.
`ExtCrypto` has the code's recipes and search of the index with any substitution
tables; the host writes its key in pieces, with reads in between that make the
Wiimote generate a key which is none's (`ReadEarly`).

### SysConf

`pads` is the `BT.DINF` entry: the count and *all* places of the array, including
those behind the count. `Boot` is a start of the module: reading the file, the
search of the fake Wiimotes, the patch, and writing, each of which may fail; the
console forgets and pairs Wiimotes in between.

## 3. Runs

| Run | Instance | Shows |
|---|---|---|
| `MsgBridge` | two pipes, two buffers each, three heap blocks, ReadyQs of 2 and 1, PendingQs of 1 and 2, 3 events per pipe | buffers and messages have one owner and none is lost; each pipe implements `EventFifo`; queued events are delivered and OH1 is asked again |
| `Connections` | four scenes: two fake Wiimotes and gamepads with unplugging, rejection, disconnection and reset; one gamepad beside a real Wiimote that comes twice, without a reset and with one; two gamepads beside one that comes once | `AssignedLink`, `NoMisroute`, `CreditsConserved`, `OneOwner`, `TableMirrorsDongle` |
| `PadConnects` | two fake Wiimotes, two gamepads, short event queue, fair environment | every plugged-in gamepad eventually drives a connected Wiimote |
| `Link` | three scenes: one Wiimote connected twice, with a closing and a refusal; one with two closings; two Wiimotes; room for two packets, six identifiers | ends agree, the host's commands find their channel, reports wait for both channels, linking ends |
| `Hid` | six scenes: memory, reads of every space, extension changes; with and without a new connection | key, replies, extension and input, as safety and liveness |
| `Report` | `Pointer` with seven places of the stick at and beyond the 16 bits, three of the finger; `InputReport` with a Nunchuk and motion in every mode, and with a Classic Controller; `ExtCrypto` with all seven indices and reads between the pieces of a key | the dots, the decoder and the decryption |
| `SysConf` | a list of five, four real Wiimotes, seven layouts of the file, seven steps of the console and failing or succeeding starts | entries kept, none revived, both paired |
| `HciHandles` | two physical and three virtual handles, four connections; keys: dongles with 0, 1 and 3, one command at a time | handles, entries and answers; counts of keys |
| `AclOutAssert`, `StaleDevice`, `PointerWraps`, `SysConfLost` | small instances | findings, section 6 |

**Scenes.** A scene is an element of `Budgets`: a record that says how often each
disturbance may happen. The initial state picks one, so that one run explores
several instances whose union would be out of reach. Disturbances are named in the record; what is not
in it is free (ticks, reading, accepting, the first scan, answers).

**Several machines in a run.** `MCReport` and `MCHciHandles` hold machines that
share no state. The variable `part` picks the one that runs; the others stay in
their initial state. The properties of the instances are stated for the part they
belong to.

**Bounds.** Queues are short so that each fills, overflows, drains and fills again:
`MaxEvents` = 3 with ReadyQs of 2 and 1, `EvtCap` = 3 (a command with three answers
just fits), `BulkCap` = 2 (a report and a command compete), `OutCap` = 3 (the
acknowledgement of a refused read waits between the replies of two others).
Capacities differ between the pipes so that each limit is met on one of them, including more
buffers than PendingQ places. `NumHandles` (256 in the code) exceeds the
connections in `Fakemote` and is less than they are in `HciHandles`, where it
wraps. `FirstCid` = 2 of 6 identifiers (0x40 of 65536 in the code): the counter
wraps in the instance. `ReconnectDelay` is 1 or 2 ticks instead of 200: what
matters is that it is not 0. A read has up to three pieces, a key two cells;
registers are six, each boundary (data, key, enabling, identifier, end) between two
of them. `AddrCount` = 8 makes addresses wrap as 16 bits do. `Pointer`,
`InputReport` and `ExtCrypto` have the code's constants. The list of `SysConf`
has 5 places (10 in the code): three more than the fake Wiimotes can take.

**Symmetry** is used where only safety is checked and the members are not named:
gamepads in `Connections`, real Wiimotes in `SysConf`.

**A constraint.** `Connections` is explored as far as `ResetQuiet` holds: a
connection that the dongle completed before it performs a reset, and that is
tracked after the command, stays in the table (section 6). Without the constraint
`TableMirrorsDongle` and `NoMisroute` fail in the scene with a real Wiimote and a
reset, and only there; the theorems have the same condition as a hypothesis.

`CHECK_DEADLOCK FALSE` is used where the systems may stop: the module hangs at a
failed assertion, and the bounds stop the others. `Report`, `SysConf` and the
findings on them never stop and are checked for it.

**Fairness.** `MsgBridge`: weak fairness of `HostPost`, since a Bluetooth stack
keeps a read posted; nothing is assumed of OH1 or of the fake Wiimotes. `Fakemote`:
weak fairness of the tick without gamepad events (the timer is periodic,
`os_create_timer` in `main.c`), of the host reading events, turning page scan on
and accepting a request, and of the dongle performing a reset and reporting
events. Nothing is assumed of gamepads, real Wiimotes, or any other command.
`WiimoteHid`: the tick and the host's reading. `L2capLink`: the tick, the host's
reading and sending, and strong fairness of a tick that finds the pipe empty: a
host that reads faster than the timer fires has at times read everything by then.
`LinkingEnds` assumes besides that the pipe is empty again and again. Without it a
linked Wiimote that reports at every tick fills each place that the host frees before
the other one, which is linking, gets it: the code has no order among Wiimotes but
their number.

The definitions named `..._Without...` and `..._With...` are faulty variants of
the definition of that name (a dropped guard, a missing reset). No specification
uses them; substituting one makes the corresponding property fail, which shows
that the property depends on the code.

## 4. Theorems

For every value of the constants, from the assumptions named in the modules.

| Module | Theorem | States |
|---|---|---|
| `MsgBridge_proofs` | `TypeCorrect` | `Spec => []TypeOK`, including that queues keep to their capacities |
| | `NoIdlePair` | `Spec => []NotBothQueued` |
| | `HandDownSafe` | `Spec => []HandDownNotAliased` |
| | `HeapSafe` | `Spec => []QueuedOnce` |
| | `PipesMove` | `Spec => []NeverStuck` |
| | `NoBufferLost` | `Spec => []BuffersAccounted` |
| | `Refines` | `Spec => PipesAreFifos`: each pipe implements `EventFifo` |
| | `Ordered` | `Spec => [](\A p \in Pipes : Fifo(p)!InOrder)`: each pipe delivers events in order of production, none twice |
| `Fakemote_proofs` | `LinkKept` | `Spec => []AssignedLink` |
| | `NoSharedHandle` | `Spec /\ []HandlesLeft => []OneOwner` |
| | `TableFollows` | `Spec /\ []HandlesLeft /\ []ResetQuiet => []TableMirrorsDongle` |
| | `RoutedRight` | `Spec /\ []HandlesLeft /\ []ResetQuiet => []NoMisroute` |
| | `CreditsKept` | `Spec /\ []HandlesLeft /\ []ResetQuiet => []CreditsConserved` |
| `HciHandles_proofs` | `Distinct` | `Spec => []HandlesDistinct` |
| | `EntriesKnown` | `Spec => []EventHandleKnown` |
| | `AnswersTrue` | `Spec => []AnswerNamesConnection` |
| `LinkKeys_proofs` | `Announced` | `Window = 1`: `Spec => []KeysAnnounced` |
| `L2capLink_proofs` | `Linked` | `Spec /\ []CidsApart => []LinkInv`, the invariant of the link |
| | `Agree` | `Spec /\ []CidsApart => []EndsAgree` |
| | `CommandsFit` | `Spec /\ []CidsApart => []HostCommandsFit` |
| | `ReadyFirst` | `Spec /\ []CidsApart => []HidAfterReady` |
| `WiimoteHid_proofs` | `HidTyped` | `Spec => []HidTypeOK` |
| | `KeyIsFresh` | `Spec => []KeyFresh` |
| | `ReadIsWhole` | `Spec => ReadNotTorn` |
| | `RepliesFit` | `Spec => []RepliesMatchReads` |
| | `DataAnnounced` | `Spec => []DataOfKnownExtension` |
| `Pointer_proofs` | `PointerTyped` | `Spec => []PointerTypeOK` |
| | `PointerOnScreen` | `Spec => []DotsOnScreen` |
| | `PointerFollows` | `Spec => GentlePushFollowed` |
| | `OneSwitch` | `Spec => OneSwitchPerPress` |
| `SysConf_proofs` | `ConfTyped` | `Spec => []ConfTypeOK`: the list keeps to its array |
| | `StartKeeps`, `StartRevivesNothing`, `StartPairs` | `Spec => RealsKept`, `NothingRevived`, `BothPaired` |

**The bridge** (`PointerAssumption`: pointers of the heap are not those of the
static messages; `SizeAssumption`: capacities are positive; `BufferAssumption`,
for `PipesMove` and `NoBufferLost`: the host has a buffer, and finitely many). None of the safety invariants is inductive alone. That the
hand-down message is free when it is handed down needs `FlagTrue` (the flag tells
the truth about OH1) and `Placed` (a hand-down message is only ever in the queue
of its own pipe, everything else queued is a heap block); that it does not wait
in the queue then needs `NotBothQueued`: the message is handed down only when the
ReadyQ is empty. `QueuedOnce` needs `HandDownNotAliased` (OH1's answer is not in the
queue already) and that allocated blocks are not free. `BridgeInv` is their
conjunction. `Inject` and `OH1Reply` both end in `ReadyMessage`, so one lemma
serves both. `NeverStuck` needs a second strengthening, `ProgressInv`: some
buffer is still with the host or pending, and a PendingQ that is full, and hence
drops buffers, is one for which OH1 has the message. `BuffersAccounted` is
inductive given the types: where the host has no more buffers than the PendingQ
has places, one that is with the host is not pending, so that the queue, which
holds no buffer twice, has room for it (a cardinality argument), and `PostLost`
cannot happen.

`Refines` maps the ReadyQ to the event numbers its messages carry. The hard part is
that writing or freeing one message changes no *other* queued one: this is
`QueuedOnce` and `HandDownNotAliased`, so the refinement is proved under
`BridgeInv`. `NextRefines` shows that each step is a `Produce`, a `Take` or a stutter on
every pipe.
`Ordered` follows with `InSequence`, the inductive form of `InOrder`: what waits
continues what was delivered, and nothing is newer than the last event produced.
One lemma for each way an event can go (delivered at once, queued, lost, taken)
shows that the abstract queue keeps it.

**Connections** (`CoreAssumption`, `SlotAssumption`, `HciAssumption`: sizes are
numbers, `Nobody` is no peer, `NoPad` no gamepad, and no real Wiimote has the
address of a fake one). Handlers are functions on the record
`Now`; `Sound` (the fields have their types, and `AssignedLink`) is kept by each of
them, with a lemma apiece, and `TypeInv` adds the host and the dongle. `AssignedLink`
alone is not kept by the assignment of the timer unless pairing by `Rank` gives no
gamepad to two Wiimotes (`RankInjective`). `StepKind` sorts all
actions into eight kinds by their effect on handles (calm, closing, opening,
accepting, a reset asked for or performed, reading, tracking), so that the
invariants below have one lemma per kind rather than per action.
`OneOwner` needs `Handles`: all handles in use are *below the counter*. That is
why it needs `HandlesLeft` (the counter has not come back to its first handle, cf.
the comment at `hci_state.c:41`): behind a wrap nothing is below. `TableMirrorsDongle` and `NoMisroute` follow
from `Full`, the conjunction of `Handles`, `Resets` (a reset is in one place: with
the dongle, in its events, or in the host's), `Cleared` (nothing is
connected while the host waits for the end of a reset), `Claims` (what the host was told
of a handle, or will be, is true of whoever is behind it) and `Mirrors` (entries,
links and unread events of a handle agree). `ResetQuiet` is needed because the
code clears the table at the command (`hci_state.c:178`) and the dongle performs
it later: both properties are false without it.

`CreditsConserved` is about a sum over the events that wait (`CreditsIn`, a
recursive function of the length of the queue). Induction over data is out of reach
as a rule, but this sum needs little of it: well-foundedness of the numbers gives
induction for one *set* (`Induct`), and with it two sums that climb by the same steps
differ by a constant (`Climbs`), hence what an event adds at the end
of the queue (`CreditsGrown`) and takes from its head (`CreditsTail`).
The property is not inductive: a completion in the queue for a handle that the
host does not know yet, or no longer, would break it when the handle is known. `Accounts`
says that there is none. Between resets it is `Settled`: the
handles that a disconnection would name were given out and differ (`GivenOut`), only a
Wiimote that the host knows counts packets (`Counting`), every
waiting event names a handle given out, unknown to the host if a connection is
announced, of no connected Wiimote if its end is (`Fits`), and nothing else in the queue concerns a handle that is
announced (`Alone`). While the host waits for the end of a reset
it is `Quiet`: nobody is active, and after that end nothing waits that concerns a
fake Wiimote. `Billed` joins the two, with `Accounts` for a module that has not
stopped; steps that move no credit share one lemma (`Eases`).

**Handles that come back** (`HandlesAssumption`; `TableAssumption`: the dongle has
no more handles than the table has entries). `HandlesDistinct` needs the place of the counter: `Clock`
says how far it has moved since each of the last `NumHandles` handles was taken,
hence these differ (`Near`), and `Apart`, from `crowded`, says that all
older ones belong to connections that nobody knows any more. For this a connection that
is not open must not become open again (`OpenShrinks`, over all actions).
`EventHandleKnown` and `AnswerNamesConnection` rest on two more conjuncts, proved
together. `Table`: for each handle of the dongle, its unread events, entries and
link are in one of the states a connection goes through (`Flows`); the connections
behind it, and those that answers on it are about, were made with the handle that it is mapped to; and no
connection is behind two. `Told`: what the host knows or will read was made so as well. A
command that closes names the right connection because two open connections with
one handle are the same (`Distinct`); that no entry is unmapped but the right one
is the same argument for entries (`VirtOnce`). A new connection finds a free entry by counting
(`Room`).

**The channels** (`LinkAssumption`: identifiers are numbers, and the host has one for
each channel it may be asked for). `LinkInv` relates a connected Wiimote, its host
and the packets of the connection that are in the pipe (`Mail`), for each Wiimote apart
although all share the pipe and the counter. `Pair` is about identifiers. A
channel is in one of three phases (`Phases`): it waits for its answer, or the answer
is the next command of the host about it, or it has been given. What the host believes of
an open channel is true (`Opened`), what it will say is about channels that the Wiimote
will have *then*: a command that closes a channel is the last one that names it
(`Named`). An identifier that the host has closed is not used again before the
response to it, which is the last packet about it (`HostIds`, `PacketIds`). `Heard` and
`Timely` are about the order: as long as no answer was lost, a channel that the host
has configured is ready when the host has read what is on its way, and what needs a channel
is behind what makes it ready. Each command and each answer has a lemma on the
Wiimote before and after, the host and the packets; another lemma lifts it to
the pipe that others use as well (`Mail` of the others is as it was, or shifted).
`[]CidsApart` says that the two channels of one Wiimote never have the same
identifier. The code draws it from a counter of 16 bits that wraps and does not look
whether it is in use (`fake_wiimote.c:17`), so that 2^16 channels opened while
one stays open would break it, and `get_channel_info` would find the wrong one. It
holds in the instance of `Link`, whose counter wraps.

**The link keys** (`LinkKeysAssumption`). `Window = 1`, a host that waits for the answer
to a command before it sends the next, is the hypothesis because the statement is false
without it (section 6). `KeysInv` says where the host is: in a
reset whose end is the last event on its way, idle with nothing on its way, or
busy with one command, of which the dongle has said nothing, the keys, or all. The
keys counted and those on their way then make up what the last event announces; since
a command causes at most three events, the sum over the two queues needs no induction.

**The key** (`HidAssumption`: the registers' layout; `OutputsAssumption`: what the
host sends has its types). `KeyFresh` alone is not inductive: that a write spares
the key data when the test in `extension_write_data` says so, needs addresses and
lengths to be numbers, and that the input of the player does, needs the controller data
to lie before the key data. The invariant is `HidInv`: `wii \in Good` (typed, and
its key up to date or dirty) and the types of the gamepad. Each handler is a function from `Good` to
`Good`, with a lemma of its own. `ReadIsWhole` follows: a tick during
a read is `ReadPiece`, which keeps registers and extension.

**Replies and data** are about reports on their way, so the invariant `Channel` is
about the queue between Wiimote and host. For the replies: there is a list of what the
host waits for *before each report*, from what it waits for now to the read in progress of the
Wiimote, in which each report answers or refuses the read it should (`Answered`).
For the data: between two reports that are of different extensions, or the
host's and the first, or the last and the Wiimote's, a detachment is on its way (`Announced`). Every handler
sends at most one report and extends both lists at the end (`Answers`, `Tells`);
the host's reading shortens them at the front. Both are claimed as long as no report
was lost, as are the properties.

**The pointer** (assumptions on the sets of inputs: 16-bit sticks, a resolution that fits). The invariant says that
a position is one whose dots a camera can see, or 0 before the first poll, in every
slot, including those that keep the position of a former gamepad. That `Clamp`
yields such a position for *every* 16-bit number is what makes wrapping harmless
for the dots, and `Quotient` (division towards zero) needs bounds of its own.
`OneSwitch` needs `HeldSeen`: what the player held at the last poll was remembered
as held, also when the gamepad was exchanged.

**The list** (`MaxAssumption`: at least two places). `ConfTyped` is inductive; the action properties
follow from it by the arithmetic of `Start`, `Count` and `Entry`.

Only model-checked:

- liveness (`QueuedDelivered`, `PendingHandedDown`, `PadConnects`, `LinkingEnds`,
  `InputReachesHost`, `ExtensionSettles`), which is out of the prover's reach;
- `InputReport`, whose properties compare two layouts byte by byte, for which evaluation is the better
  tool; `ExtCrypto`, which uses bitwise operators that the prover does not know;
- the converse of the hypotheses: that the counter of handles does wrap, and a
  connection does complete inside a reset, in the code.

## 5. Not modelled

- `HCI_CMD_CREATE_CON` and `HCI_CMD_HOST_NUM_COMPL_PKTS` (`assert(0)`: the host never
  sends them); the unit class, which only connection requests carry.
- The handle in Command Complete events: not translated by the code, see below.
- Contents of the EEPROM other than the calibration of the camera; LEDs and rumble,
  which are passed on to the gamepad's driver.
- The substitution tables of the encryption are parameters: the instance has
  permutations in their place, the properties do not depend on which.
- Patching OH1 (`main.c`, `start.s`): addresses replaced once, at start. The libc
  subset and the protocol headers have no behaviour of their own; what is used of
  the headers is in the modules that use it.
- Failures of `os_*` calls other than full queues, an exhausted heap, and a file
  that cannot be read or written.
- `libegc` and `cios-lib` are submodules without sources here; they are modelled
  from their use and marked external in the map.

## 6. Findings

Each of these is a run in which the stated expectation fails; `PROJECT.json` quotes
the lines.

1. `AclOutAssert`: data of the host for a fake Wiimote that has just been unplugged
   fails an assertion and stops the OH1 thread.
2. `StaleDevice`: `input_device` stays set after disconnection; a late rejection
   releases a slot that another Wiimote has by then. When that gamepad is unplugged
   the Wiimote is not disconnected (`input_device.c:150`) and goes on polling a slot
   without a gamepad. `AssignedLink` is the direction that does hold: it speaks of
   gamepads that are assigned, and says nothing of what an active Wiimote polls.
3. `PointerWraps`: a push that takes the pointer below zero wraps, and the clamp
   puts it on the opposite border.
4. `SysConfLost`: when only the second fake Wiimote was forgotten, a start adds the
   first one again.

The models show the code doing these as well; no run is devoted to them:

- *Bridge.* An injected message that finds the ReadyQ full is never freed
  (`main.c:299`; compare the comment at `main.c:243`).
- *Connections.* A Wiimote whose gamepad is unplugged before the host accepts
  completes its connection and never links (`fake_wiimote.c:287`). A second
  rejection may suspend a gamepad that is gone (`input_device.c:192`). Data of the
  dongle that is read after its Disconnection Complete fails the assertion at
  `hci_state.c:346`, a command for a Wiimote that has just gone the one at
  `hci_state.c:131`. A connection that completes while a reset is under way
  leaves an entry (`hci_state.c:178`).
- *Tracker.* A second read of link keys before the first is answered changes how the
  first answer is patched (`hci_state.c:186`; a `Window` of 2 in `LinkKeys`).
  Command Complete events, e.g. of READ_RSSI, carry the physical handle
  (`hci_state.c:282`).
- *Channels.* A connection request that finds the pipe full fails an assertion,
  where a configuration request is repeated (`fake_wiimote.c:707`, `:678`).
  Identifiers wrap into the reserved ones (`fake_wiimote.c:17`). A Wiimote whose
  interrupt channel the host closed after linking goes on reporting to it
  (`fake_wiimote.c:873`).
- *HID.* A read of size zero during another read is answered busy, not ignored
  (`fake_wiimote.c:966`, comment at `:975`). A new connection has no extension until
  the combination is pressed (`fake_wiimote.c:266`). A pointer or an accelerometer
  that moves does not by itself cause a report (`fake_wiimote.c:411`).
- *Mapping.* The index of the mode is compared with a mode (`input_device.c:237`),
  so that relative mode is skipped without a touchpad and direct mode is not.
- *Encryption.* A key generated from an incomplete key area is of index 7 and uses
  a table behind the last one (`wiimote_crypto.c:260`).

## 7. Plan

All modules of the plan are written, and every safety property of the state machines
above is a theorem.
