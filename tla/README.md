# TLA+ models of the Trezor firmware and its host client

This directory models four parts of the repository in TLA+, checks them with
TLC and, where that is feasible, proves them with TLAPS:

* the persistent storage in `storage/`, which keeps the seed and all settings
  in two flash sectors, protects them with a PIN, and has to survive a power
  loss at any moment;
* the user interface in Rust (`core/embed/rust/src/ui`): the two-button input
  of the Model R and the swipe flows of the touch-screen model;
* the host's Rust client (`rust/trezor-client`) against the wire session of
  the device (`core/src/trezor/wire`);
* the protobuf messages between the two, as the firmware's own codec
  (`core/embed/rust/src/protobuf`) and the client's generated code see them.

## 1. The system

The firmware for the Model T/R/Safe devices is C at the bottom (storage,
crypto, hardware), Rust for the user interface and the message codec, and
MicroPython for the applications; the bootloader chain is separate C, the
Model One firmware (`legacy/`) is a C program that shares storage and crypto.
A host talks to the device in 64-byte chunks over USB or, to the emulator,
UDP.

| Part | State | Operations | Talks to | What is hard |
|---|---|---|---|---|
| norcow (`storage/norcow*.{c,h}`) | two flash sectors (magic, version, log of items), active/write sector and free offset in RAM | init, wipe, get, get_next, set, preallocate + update_bytes, delete, counters, upgrade_finish | flash areas below, storage.c above | power loss before any write; compaction; version choice at boot; flash cells only go from 1 to 0 |
| storage (`storage/storage.c`) | private entries (EDEK/PVC, PIN logs, tag, versions, wipe code), protected/public/writable entries; `unlocked`, `cached_keys`, `authentication_sum` in RAM | init, unlock, lock, get/set/delete, change PIN, change wipe code, wipe, fault handler, upgrade | norcow, PIN logs, Optiga, MicroPython module `modtrezorconfig` | several flash writes per operation; faults inside the fault handler; guess limit; upgrades finished only after unlocking |
| PIN logs (`storage/pinlogs_*.h`) | one norcow entry | init, increase, reset, read | norcow, fault handler | torn writes, two-word window, exhaustion |
| flash areas, drivers (`storage/flash_area.c`, `trezorhal`) | the cells | write, erase | hardware | granularity |
| Optiga | secrets and counters in the secure element | set/verify/decrease | storage.c | two counters that can diverge |
| event loop, workflows (`core/src/trezor/loop.py`, `workflow.py`) | queue of tasks, paused tasks, running workflows | schedule, wait, race, close, idle timers | everything in Python | cancellation, ordering |
| Model R screens (`ui/model_tr`) | which buttons are taken for pressed, click, long-press and frame timers, the choice shown, automatic movement, animation, the text entered | press, release, timers, choose | buttons above, workflows below | a release that comes during an animation or on the next screen; timers that fire late; both buttons together |
| touch flows (`ui/flow`, `ui/model_mercury`) | screen of the flow, page of the screen, swipe in progress, override, prompts, attach animation | touch, swipe, frame, timer | components of a screen, workflows | page counted in two places; swiping switched off during a hold; frames that must be requested again and again |
| host client (`rust/trezor-client`) | the call in progress, data left to send | call, interactions, SignTx and Ethereum signing loops, drop | transport, caller | answers matched by type alone; dropped requests; timeouts |
| wire protocol, sessions (`trezor/wire`, `storage/cache.py`) | reports being assembled, running workflow, session cache | read, write, dispatch, start/end session | USB, handlers | unexpected messages, cache at its limit |
| protobuf messages (`rust/src/protobuf`, `common/protob`, `protos/generated`) | none between messages; fields read so far | encode, decode, defaults, required and experimental fields | both sides | two codecs and two versions; wire-aliases of TxAck; lengths of nested messages |
| base handlers, lock screen (`apps/base.py`) | locked/unlocked, handler table | Initialize, Cancel, lock, unlock | storage, workflows | locking during a workflow |
| SD protection (`storage/sd_salt.py`) | salt file, staged salt file | load, stage, commit | SD card, change PIN | two stores, no transaction |
| recovery, backup (`storage/recovery*.py`, `device.py`) | shares, flags | add share, resume, finish | storage | restarts in between |
| bootloader, boardloader | firmware slots, headers | check, update, boot | flash | interrupted update |
| coin apps, FIDO2, crypto, Python host library, tests | - | - | - | see `PROJECT.json` |

What makes them correct:

* norcow: a call affects its key only, also when it is cut short; no duplicate
  live item; the RAM statics describe the sector that the next boot picks.
* storage: a bounded number of guesses; an unlocked storage has matching keys,
  tag and cached sum; the PIN is never the wipe code; operations alone do not
  lead to a fault, except for the last allowed try that uses up the PIN log;
  whatever is lost, the device becomes usable again.
* PIN logs: the count never forgets a failure, and a log is used up only by
  `PIN_MAX_TRIES` entries in a row.
* screens: no button is taken for held that is up, one press chooses once, the
  choice shown is the choice taken, nothing ignores the user for ever.
* flows: nothing that must be shown can be skipped; the flow can be left;
  nothing freezes half-way.
* client: an answer belongs to the call that takes it; client and device agree
  on what is left to send; every call returns.
* messages: what one side writes means the same to the other, and is refused
  only for cause.

## 2. Modules

| Module | Models |
|---|---|
| `KVStore` | abstract: what norcow promises to the code above it under power losses |
| `Norcow`, `MCNorcow` | `norcow.c` with `norcow_bitwise.h` and `norcow_blockwise.h`; refines `KVStore` |
| `PinLogs` | `pinlogs_bitwise.h` with its use in `unlock()` and `__handle_fault()` |
| `Storage`, `MCStorage` | `storage.c` over the contract of `KVStore` and a PIN counter |
| `StorageProofs`, `StorageWipeCodeProofs`, `StorageHealthProofs` | the theorems about `Storage`: counter and guesses; PIN and wipe code; what an unlocked storage is and what leads to a fault |
| `NorcowProofs`, `PinLogsProofs`, `ScreensProofs`, `SwipeFlowProofs`, `TrezorClientProofs` | the theorems about the module of that name |
| `ButtonController` | `button_controller.rs` and the buttons it contains: presses, releases, long presses, hold-to-confirm, the delay against accidental clicks |
| `ChoiceFactories` | the tables of choices of `pin.rs`, `passphrase.rs`, `wordlist.rs`, `number_input.rs` |
| `ChoicePage` | `choice.rs`: the carousel, automatic movement, animation to a random position |
| `Screens`, `MCScreens` | the entries and `page.rs` on top of them, and the change from one screen to the next |
| `Flows` | the tables of the flows of `ui/model_mercury/flow`: screens, what they contain, where swipes and messages lead |
| `SwipeFlow`, `MCSwipeFlow` | `flow/swipe.rs`, `swipe_detect.rs` and the components: prompts, paginated content, share words, menus |
| `ProtocolV1` | `transport/protocol.rs` and `codec_v1.py`: messages cut into chunks and put together again |
| `SignTx` | `flows/sign_tx.rs`: what the client answers to a request for a part of a transaction |
| `TrezorClient`, `MCTrezorClient` | the calls of `client/*.rs`, the transport with its failures, and the device's session |
| `ProtoFields` | constructors of fields and of their types |
| `MessagesDevice`, `MessagesBitcoin`, `MessagesEthereum`, `MessagesCardano`, `MessagesMonero`, `MessagesAltcoins` | one definition per generated struct or enum: fields with number, label, type and default |
| `ProtoCodec` | the firmware's `encode.rs`, `decode.rs`, `defs.rs` and the client's `merge_from`, `compute_size`, `write_to_with_cached_sizes`, `is_initialized` |
| `Protobuf`, `MCProtobuf` | one message after the other between the two sides, with writers of other versions |

A definition whose name is another one's plus a suffix telling what is wrong
(`compact_onto_old`, `Stops_only_on_release`, `MergeUnpacked`) is a deliberate
slip. The specifications do not use it; replacing the original by it must
violate the property named in `PROJECT.json`, which shows that the property is
about the code.

### Norcow

`flash` holds, per sector, the version of the header (or none) and the log of
items; a value is a sequence of *cells*, the units that are programmed
together (a byte, or a block), 1 = erased and 0 = programmed. A call
(`norcow_set_ex`, `norcow_delete`, `norcow_update_bytes`, `norcow_wipe`,
`norcow_init`) is a record: `plan` are the flash operations that the helper
running now will issue, in the code's order, `next` is what the code does after
them - compact, copy the next live item (`pos` is where the loop of `compact`
stands), write the new item, return - and `act`, `wr`, `fr` are the values the
statics will get. `FlashStep` executes one operation and lets the code run on to
its next one (`Resume`), `PowerLoss` may come before each, and
`Return` assigns the statics. Addresses become positions in the log;
`ItemSize` keeps the room an item takes, with the small-item format of the
blockwise build. The in-place update of the bitwise build is modelled cell by
cell, including the attempt that stops half-way and is followed by a delete.
The variable `build` is the build under test and never changes: whether cells
are programmed in place, the size of a sector, the small items, and the values
that are stored; one run covers both builds.
The upgrade copies the items and switches sectors; what it does to
single entries is in `Storage`. `storage_upgrade` (`storage.c:1583-1661`) copies
with `norcow_set`, item by item, and the model with the loop of `compact`: into
the erased sector both only append (`write_item`), since no item is found there
to replace, and an item is never copied to a later offset than the one where it
fitted before, so that the test at `norcow.c:394` sends no copy into another
compaction. Only the flag that `storage_upgrade` writes last could, in a sector
full of live items to the last word; that case is left out. In the blockwise build an item without its
valid flag reads as valid because the flag is the erased value (0xFF), so a
partly written item is a readable one: the model has no separate validity.

`KVStore` is the contract, found by asking TLC for the strongest statement
that holds. It is weaker than one would like, and the code above has to live
with it: a set that finds no room has deleted the old value; a call that moves
the items to the sector the next boot prefers (compaction from sector 0 to
sector 1, where `norcow_init` takes the last of equal versions, or an upgrade)
may, cut short, lose or tear any entry; a wipe cut short may bring back what
an interrupted move left in the other sector.

### PinLogs

The entry log is the number of its cleared bits, the success log the set of
cleared bits. `Fails` is the count of `pin_get_fails` over the current and the
previous word, `Readable` its format checks. Guard bits are constant and are
left out; an entry whose guard key is damaged is not `whole`. A reset copies
the entry log over the success log byte by byte in memory order, which on the
little-endian target reaches the latest entries of a word first. `tried` and
`owed` are history variables: PIN entries since a reset last began, and since
one last finished.

### Storage

`store` maps each key to an entry, `MISSING` or `TORN`. A handler is split
where it writes the flash: `todo` holds the writes still to come, `pc` what
follows them. `norcow_set` is a superset of what both builds do: delete,
partly written, written. Cryptography is symbolic: data keys are model values
(`DEKS`), the EDEK entry names the PIN that opens it and the scheme
(`KdfScheme`, old up to version 4 and new from 5) that derived its key, and
the XOR of MACs in the tag is the set of protected keys. `UnlockFault` also
stands for the same reads in `storage_get_pin_rem`, `storage_has_wipe_code`
and `storage_ensure_not_wipe_code`. Counters (`storage_set_counter`,
`storage_next_counter`) are sets of public or writable keys.

`PowerLoss` keeps what was written so far. A new item may need room (`MayMove`,
for the entries in `NeedRoom`): `FlashWrite` may then have moved the items, and
`PowerLossMoving` is a power loss during that, which leaves a copy that may be
incomplete (`CutCopies`: a set of entries from `LostSets` is missing or torn) in
one sector and the original in the other. Which of them the next boot takes
depends on the sector, so both choices are there. `UpgradeCutShort` is the same
for an upgrade. `left` is what the sector that is not in use still holds, with
its version. `norcow_wipe` erases the active sector, writes its header and erases
the other sector: `Erase` is the whole of it; `WipeCutAfterHeader` cuts it when the active sector is empty and the other
one is still there; `WipeCutBeforeHeader` when the active sector has no header,
so that `norcow_init` takes the other one, if it is valid, with the EDEK and the
PIN log it had when it was left. `PowerCycle` is switching off while nothing is
written, and costs nothing. `PartialReset` is the torn reset of the bitwise PIN
logs.

Three history variables state the limit of guesses: `spent` counts the wrong
PINs per data key since its PIN was last given, `guesses` those that the log in
use has to cover, `revived` the interrupted wipes that brought back a sector.

The counter is that of `PinLogs`, seen from outside: it goes up by one, it goes
down only while a success is recorded, and an entry that brings it to
`PIN_MAX_TRIES` may clear the last bit of the log, which then cannot be read
(`EXHAUSTED`, `Increases`, `FaultUsesUpLog`; the case of finding 1). `CountSteps`
of `PinLogs` checks, and `PinLogsProofs` proves, both halves: how the count
moves, and that an undamaged log is used up by no other entry. `LOG_LIMIT >=
PIN_MAX_TRIES` says that the limit can be represented: the blockwise logs are a
single block with a limit of 255.

### Screens

An event is handled to the end in one step: `PagePress`, `PageRelease` and the
timers of `ChoicePage` give the set of outcomes of `ChoicePage::event`, which
itself asks `ButtonController` first. Timers are sets of pending tokens and
fire at any later moment; how long a button was held is therefore a choice.
`down` is what the hand does and is independent of what the controller
believes. `NextScreen` shows another screen while buttons are still held.
Characters of PINs and passphrases are not told apart, words are (the wordlist
offers the next letters by prefix). `armed` is a history variable: both
buttons went down and nothing was chosen since. Drawing is left out.

### SwipeFlow

`Flows` holds the 14 flows as data, read off `handle_swipe`, `handle_event` and
`with_store` of each: for every screen its content (paginated text, share
words, prompt to hold or to tap, menu, ...), its axis, and the decisions, as
records from the screen or message to what is decided; `IsFlow` says what the
`FlowState` trait and the types of the components demand of such a table.
`SwipeFlow` is the interpreter: `self` has the fields of the struct (state,
swipe, decision_override, internal_state, allow_swipe), `store` the state of
the components. A step is one event handled to the end. `frame` says that an
animation frame is requested; time is the action that lets an animation or a
hold elapse. The screens with pages have one to `MAX_PAGES` pages.

### TrezorClient

`client` is the call the host is in and how far it is (write, read, at the
caller), `device` the session: idle, reading, working, asking, waiting for the
user. A workflow asks before it shows a layout (`asks`, for `interact`), or shows
one that asks for itself (`shows`): then `handle_usb` sends ButtonRequests, on
input or a timer, while the same layout is open to the user (`device.layout`),
and `User` may end it while it waits, before the request is written, or before
it is acknowledged. In the last case (`early`) the ButtonAck on its way finds a
workflow that does not expect it, draws a Failure, and the client, which matches
by type, stays one message behind. `toDevice` and `toHost` are queues of chunks; a write may fail under any
chunk and a read may time out with the answer still on its way (`failed`
records either). The inputs of `SignTx` have the
number of the output they spend, which the transaction that came with them may
not have (`HasUtxo`). The caller acknowledges a request of the device, or drops it
and starts another call, as the types of the client allow. A message that a
workflow of the device does not expect ends it and is handled as a new one
(`UnexpectedMessage`). `Operations` gives each method of the client the type
of its result and who answers interactions. The workflows of the device are
external to the client: they ask for up to `MAX_ASKS` interactions and up to
`MAX_REQUESTS` parts of a transaction.

### Protobuf

`Messages` maps each of the 346 structs to its fields and `Enums` each of the
50 enums to its values. They are written from the generated Rust files, one
definition each, and agree with `common/protob/*.proto`; the firmware's
definitions (`MsgDefs`) are the same without the deprecated fields and
messages, with the wire-aliases of `TxAck`, and `ExperimentalMessages` and
`ExperimentalFields`. A stream is a sequence of keys, varints and payloads;
lengths are byte lengths, with the size of varints, so that a wrong length of
a nested message makes the reader misplace what follows. Contents of bytes and
strings are left out, their lengths are kept. `sent` is what was written and
`got` what was read.

The messages are: each type with the least and with all of its fields, each
field varied over its values, nested up to `DEPTH`; the `TxAck` messages that
`SignTx` builds; and from *other* writers (older, newer, with another library)
the same with a field left out, with unknown fields, in another order, with
packed or unpacked repeated numbers. `Meaning` and `OnClient` are reference
definitions, by field number, of what a reader should make of it.

## 3. Runs

Passing:

| Run | Bounds | Properties | Shows |
|---|---|---|---|
| `norcow` | both builds; 2 keys, values of 1 and 2 cells, sectors in which two items fit and the third set compacts, first boot with version 4, 6, or empty; any number of power losses; 1.2 M states | `TypeOK` `UniqueLive` `StaticsMatchFlash` `EnsureHolds` `ImplementsKVStore` | norcow keeps its invariants and refines `KVStore` |
| `pinlogs` | 4 words of 8 bits, 4 bytes per word as in the code, 8 tries; any number of power losses; 1.4 M states | `TypeOK` `CountInRange` `ExhaustedOnlyAtLimit` `CountSteps` | the count is right although resets may be cut short again and again; the order in which the bytes are copied matters |
| `storage` | 2 PINs and the empty one, 2 protected entries, 3 tries, counter limit 4, upgrade from 4, 2 power losses, every entry may need room; 3.0 M states up to symmetry | `TypeOK` `GuessBound` `CounterCovers` `UnlockedSound` `PinIsNotWipeCode` `FaultNeedsLossOrFullLog` `HasPinAgrees` `UnlockNeedsPin` | safety of the storage, with a power loss that leaves a second sector behind and another that brings it back |
| `storage_move` | 1 protected, 1 public, 1 writable entry, 2 tries, 1 power loss that may lose or tear any one entry; 2.0 M states | `GuessBound` `CounterCovers` `UnlockedSound` `PinIsNotWipeCode` `UnlockNeedsPin` `AlwaysUsableAgain` | the same when compaction or upgrade is cut short, and the device always becomes usable again |
| `screens` | 10 digits, 5 characters per category, 5 words, 3 numbers, texts of at most 3, 3 pages; 41 k states | `TypeOK` `HeldMeansDown` `QuietWhileAnimating` `AnimationLands` `OneSelectPerPress` `MovesOnlyWhileHeld` `AnimationEnds` | the entries and pages of the Model R take what the user chose, in whatever order presses, releases and timers come |
| `flow` | all 14 flows, screens of 1 and 2 pages, one button left pressed; 809 k states | `WordsAllShown` `SwipingComesBack` `FramesKeepComing` | no flow skips a word of a backup, gets stuck or freezes |
| `client` | 6 operations, 2 calls, payloads of 55 and 56 bytes (one and two chunks), Ethereum data of 0, 1, 1.5 and 2.5 chunks of data, 2 interactions, 2 parts, a transaction with three inputs, one of them invalid; 1.5 M states | `AnswersMatch` `DataStreamed` `CallAnswered` | client and session keep in step and every call returns |
| `protobuf` | every message and enum; numbers 0, 300, 2^31 - 1, signed -1 and 64, lengths 0 and 200, unknown fields 255 and 256, nesting 2; 116 k states | `RequestUnderstood` `RefusedForCause` `TxAcksAccepted` `AnswerUnderstood` | both codecs agree on every message |

The bounds make the cases happen that matter: a full sector, an in-place
update that fails half-way, a counter at and beyond its limit, a PIN and a
wipe code that could coincide, a power loss during the recovery from a power
loss; a carousel that is shorter the other way round; a message that just fits
a chunk and one that does not; varints of one, two and five bytes; a field
number that fits the firmware's byte and one that does not. `DEKS` has five
members: two sectors and the RAM never refer to all of them, so a new one can
always be drawn.
`MAX_STUCK = 1`:
a touch that an attach animation cuts off can leave a button in the pressed
state; with two such buttons no further touch begins. `storage` is reduced by the
symmetry of PINs and of protected keys, which are only compared; it has no
liveness property. The other runs use no symmetry. `flow` and `client` end when the
flow has returned or the calls are used up, so deadlock is not checked there.

*Fairness.* `storage_move`: weak fairness for `Running` - the firmware is one
thread that runs to the end of a handler, flash writes finish, and a device
that halts with an error screen is switched off and on - and strong fairness
for `OwnerUnlocks`, because the property is about an owner who keeps entering
the PIN; strong, since other operations come in between. The fair try is one
that does not use up the log: a log is new after every wipe and lasts for more
entries than `PIN_MAX_TRIES`, so the right PIN is accepted before the last bit,
and it cannot be used up each time. There are finitely many power losses. `screens`: weak fairness of the animation's timer, which the
event loop delivers; nothing is assumed of the user. `client`: weak fairness
of the host's thread, of the device's loop and of the user in front of it, who
decides at some time; failures and timeouts are not fair, and a call that met
one is excepted from `CallAnswered`.

Violations: each states what a comment, document or test says, and TLC finds a
behaviour of the code that contradicts it.

1. `pinlogs_last_try`, `LastTryGranted`: `storage/tests/tests/test_pin.py`
   expects the right PIN to pass after `PIN_MAX_TRIES - 1` wrong ones. If the
   last success was recorded when 240 of the 256 bits were used up, the 16th
   entry clears the last bit, `pin_get_fails` reports "PIN log exhausted" and
   the fault handler wipes the storage. The C library built by
   `storage/tests/c/Makefile` does the same: 240 unlocks, 15 wrong PINs, right
   PIN, fatal error at `pinlogs_bitwise.h:242`.
2. `storage_lock`, `LockVersionIsThatOfEdek`: `get_lock_version` "Returns the
   storage version that was used to lock the storage." After a power loss in
   the first unlock that follows an upgrade to version 5 it does not, and the
   right PIN is refused.
3. `screens_hold`, `ConfirmNeedsHold`: "Only "final" button events are
   returned in `ButtonControllerMsg::Triggered`, based upon the buttons being
   long-press or not." Without a middle button, pressing both and releasing one
   triggers that one whatever its type, so a hold-to-confirm page is confirmed
   without a hold.
4. `flow_pages`, `ComponentAskedFirst`: of a swipe, "currently active component
   is asked to handle the event, if it can't then FlowState::handle_swipe is
   consulted." `internal_state` is kept over sideways transitions; in
   GetAddress a way through the menu makes the flow leave the address at its
   first page.

### Observations

What the models show or were made to allow, without a run of its own.

Storage:

* A wipe cut short between the erasure of the active sector and its new header
  (`norcow.c:283-291`) after an interrupted compaction or upgrade brings back
  the EDEK with the PIN log of that time, and with it `PIN_MAX_TRIES` more
  tries. `GuessBound` counts them: the comment at `norcow.c:284` gives the
  reason for the order, and the other sector is erased last.
* The last allowed try, if it uses up the PIN log, reaches the fault handler
  without any power loss (finding 1 seen from `storage.c`); it is the only way
  (`FaultNeedsLossOrFullLog`).
* A power loss between the writes of the EDEK and of PIN_NOT_SET
  (`storage.c:694-698`) leaves `storage_has_pin` wrong about the EDEK until the
  PIN is changed again; `HasPinAgrees` is about operations that are not cut.
* `docs/storage/index.md:140` wants the replacement of EDEK and PVC to be
  atomic; `norcow_set` deletes the old entry first (`storage.c:694`).
* The number of remaining tries wraps around when counted faults exceed
  `PIN_MAX_TRIES` (`storage.c:1289`).
* The data of an item being deleted at a power loss stays in the flash
  (`norcow_bitwise.h:101`, against `docs/storage/index.md:22`).
* The blockwise build collects `norcow_update_bytes` in one static buffer
  (`norcow_blockwise.h:259`); the storage never interleaves two items.

Screens and flows:

* A space chosen from the menu of the passphrase entry leaves `is_empty` as it
  was: the menu still says CANCEL where the action deletes
  (`passphrase.rs:170`).
* The automatic movement of `NumberInput` keeps its timer after a release at
  an end of the range; it moves nothing.
* `BothDown` without a middle button triggers a button that the layout does not
  have; a long press can be reported after one of the two buttons is up.
* An event may request at most `MAX_TIMERS` = 4 timers; no handler needs more.
* An override that was carried over is taken and dropped when the flow turns
  pages of its own (`swipe.rs:137-155`, against the comment at 35-36).
* `TapToConfirm` does not reset its animation when shown again, and prompts
  outside a `SwipeContent` request no frame then.
* `ConfirmOutput` lets swipes down and left begin that it does not handle;
  `ConfirmResetRecover` stores a third screen that no transition reaches; the
  page count a screen leaves in the context is read by the next `Frame`.

Client and messages:

* After a read timeout (100 s over UDP, `udp.rs`) the late answer is taken by
  the next call; the client leaves it to the caller to initialise again.
* `ack_psbt` panics on requests for extra data, original transactions and
  payment requests; the device makes none for what the client signs.
* A layout that sends its own ButtonRequest (`mercury/__init__.py:250`) may be
  ended by the user before the ButtonAck comes. That is then an unexpected
  message, and its Failure the answer of the next call.
  `docs/common/message-workflows.md:25` asks the computer to send the ButtonAck
  immediately, which makes this rare. `AnswersMatch` and `DataStreamed` except
  it (`early`): without that TLC finds an EthereumSignTx that fails on the stale
  Failure while the device waits for data. `CallAnswered` holds in this case too.
* The firmware does not look at the wire type of a known field and reads no
  packed numbers; a key cut off at the end of the stream counts as the end; a
  field number above 255 is an error rather than an unknown field.
* The options in `messages.proto` that say who sends a message are the wrong
  way round for the Monero requests (307-328), AuthenticateDevice and
  AuthenticityProof (125-126) and RippleSignedTx (304); `Answers` follows the
  handlers.

## 4. Proofs

TLAPS checks every theorem below for all values of the constants that satisfy
the named assumptions; TLC evaluates the same assumptions on the instances of
the runs. Every invariant was first checked by TLC, as an invariant of the
corresponding run, and then proved with one lemma per action, or per group of
actions of one shape, and one theorem that combines them.

| Module | Theorem | States |
|---|---|---|
| `StorageProofs` | `TypeCorrect` `CounterCorrect` `GuessesBounded` | `TypeOK` `CounterCovers` `GuessBound` |
| `StorageWipeCodeProofs` | `PinAndWipeCodeDiffer` | `PinIsNotWipeCode` |
| `StorageHealthProofs` | `SoundWhileUnlocked` `FaultsExplained` `HasPinCorrect` `UnlockingNeedsPin` | `UnlockedSound` `HasPinAgrees` and the action properties `FaultNeedsLossOrFullLog` `UnlockNeedsPin` |
| `NorcowProofs` | `TypeCorrect` `NeverTwoLive` `StaticsAgree` `EnsuresHold` `StoreKeepsContract` | `TypeOK` `UniqueLive` `StaticsMatchFlash` `EnsureHolds` and the refinement `ImplementsKVStore` |
| `PinLogsProofs` | `TypeCorrect` `CountCorrect` `ExhaustionCorrect` `CountStepsCorrect` | `TypeOK` `CountInRange` `ExhaustedOnlyAtLimit` and the action property `CountSteps` |
| `ScreensProofs` | `TypeCorrect` `HeldCorrect` `QuietCorrect` `LandingCorrect` `OneSelectCorrect` `MovesCorrect` | `TypeOK` `HeldMeansDown` `QuietWhileAnimating` `AnimationLands` and the action properties `OneSelectPerPress` `MovesOnlyWhileHeld` |
| `SwipeFlowProofs` | `SwipingCorrect` `FramesCorrect` `WordsCorrect` | `SwipingComesBack` `FramesKeepComing` `WordsAllShown` |
| `TrezorClientProofs` | `ResponsesMatchCalls` `DataAgrees` | `AnswersMatch` `DataStreamed` |

*Storage.* `StorageAssumption` asks that tries, limit and versions are naturals
with `LOG_LIMIT >= PIN_MAX_TRIES >= 1`, that old versions are at least 3 and
older than `NORCOW_VERSION`, that the empty wipe code is no PIN, that private
and application keys, and protected and other application keys, differ, and
that there are keys and values to choose. `MarkerAssumption` and
`NoCallAssumption` keep the markers of an absent or torn entry apart from what
entries contain, and "no call" from calls. That a random data key is new is not
an assumption but in the action that draws it (`Fresh`).

`IInv`, for the counter: `CounterCovers` is not inductive alone, because a
write of the PIN logs may still be pending when the history changes. So `IInv`
types the store and the other sector (`StoreOK`, `LeftOK`) and every pending
write (`TodoOK`: each is in `GoodWrites(guesses, Covered)`, which demands that a
pending count covers the guesses, and that a pending EDEK is that of a `Covered`
key), ties `pc` to the running call
and to the counter it read (`CallOK`, `CountOK`), and knows that a right PIN
has reset the guesses before `pin_fails_reset` writes 0. `GuessBound` follows
from `SpentOK`: the key of the EDEK in the flash is `Covered`, which means that
what was spent on it leaves room, under `PIN_MAX_TRIES * (1 + revived)`, for as
many tries as the log does not count yet. A sector that an interrupted wipe
brings back may hold any EDEK and any log; that is why one more `PIN_MAX_TRIES`
is granted there, and why less cannot be proved.

`ApartInv`, for the wipe code: some set `P` of PINs contains every PIN that
opens the EDEK now or after a pending write, and no wipe code, in the flash or
pending, is in `P`. The set is needed because a change of the PIN deletes the
EDEK first and writes the new one later, while the wipe code it was compared
with stays. That is `StoreApart`; `LeftApart` says the same of the other sector,
for the wipe that brings it back.

`HInv`, for the rest: there is a store `a` that the pending writes will leave
behind (`Foresees`), and `a` is sound (tag, keys and sum agree) when the call
will end unlocked, and healthy (no entry missing, the flag and the versions fit
the EDEK) as long as no power was lost, unless the last allowed try has used up
the PIN log (`UsedUp`). Between operations nothing is pending
and `a` is the store itself. `BootOK` says what holds between a start and the
first unlock. The lemmas `Outcome...` compute what a sequence of
writes leaves, key by key, so that the concatenations of `set_pin`,
`init_wiped_storage` and the upgrade need no induction.

*Norcow.* `NorcowAssumption`: keys are naturals other than the markers for a
free and a deleted item, lengths are positive, the sizes of a build are
naturals and it stores values of these lengths. `NoneAssumption` keeps "nothing"
apart from values, calls and their summaries. Nothing relates the size of a sector to that of
the values: a sector may be too small for any.

`NInv` has a part for each phase of a call. In `Local` it programs one item of
the sector in use (`Writing`: each operation lowers the item that the previous
one left, and the first may append it); in `Moving` it prepares the other
sector; in `Copying` the items before the current one have been copied and the
one being written will be equal to its original (`CopiedTo`); in `Moved` only
the erasure of the old sector is left; in `Wiping` both are emptied. No phase
needs the future of the call, only the operations of the helper that runs.
`Copying` also bounds the offset reached by that of the item being read
(`Offsets`), which is why the copies always fit and `compaction write failed`
is never met. `UniqueLive` needs more than itself: an append is safe only
because the key is absent from the sector, which for a set means that its old
item was deleted before, here or, when the call compacts, in the sector it
copies from. `Keeps` and `OpenOK` say what the other keys, and the preallocated
item that `norcow_update_bytes` fills, read as; without them an update might
program cells that are not erased. `Offsets` is a recursive function;
that it exists for every log, and what an append or an update does to it, is
proved once, by the least length for which it would fail.

`RInv`, for the refinement of `KVStore`. A power loss maps to a step of the
contract at once, but what it leaves is settled only when a boot returns, and
that boot may itself be cut short, any number of times. `NInv` says what a call
that returns leaves; it does not say what a boot would make of the flash in the
middle of one. So `RInv` adds, for every flash operation of every call, what a
boot would find then (`CrashOK`). `Allowed` is the contract's `Recovered` as a
relation and `Leftover` what may be in the sector that is not in use; a flash is
`Bootable` when `norcow_init` on it ends in these. A set or delete (`SetSafe`)
keeps the items of its own key between the old and the new value, and, while
items move, the sector they come from whole and the other one made of their
pieces (`Parts`) or still behind in the choice of the active sector. A wipe
(`WipeSafe`) erases the other sector last. A boot (`BootSafe`) has to be safe to
begin again: an upgrade cut short after any number of items leaves pieces of
pieces, hence `Upgradable`, which asks that every such remainder is allowed. The
lemmas then go flash operation by flash operation: each kind of call keeps
`CrashOK`, `CrashOK` makes the flash `Bootable` for the summary of the call
(`Pend`), and a boot that returns from a bootable flash is a step `Recover` of
the contract.

*PinLogs.* `PinLogsAssumption`: at least two words, bytes that divide words,
`PIN_MAX_TRIES` between 1 and the bits of a word - the window of two words that
`pin_get_fails` looks at is enough for just these. `LogInv` says how far a
reset has copied the entry log (`Copying(j)`), that a word of the success log
has a cleared bit only when the words before it are complete (`WordsInOrder`),
that the entries of `tried` are never among the successes and those before
`owed` always are. The count is a cardinality, and every step is shown to
change it by the cells it clears. For the second half of `CountSteps`,
`LastWordClear` adds that no success is ever recorded in the last word, because
the reset starts a new log instead; an entry that clears the last bit therefore
finds all the others of that word counted as failures (`ExhaustionStep`).

*Screens.* `FactoryAssumption` and `ScreensAssumption`: there is a digit, a
character, a word, a number, a page. Two invariants, neither of which needs the
other, carry the six theorems. `ScreenInv` uses the tables of choices through
their sizes only: it relates the state of `ButtonController` to the
buttons that are down (`Held`), and says that a long press is timed only while
both are, that both pressed means `armed`, that automatic movement fits the
button held (`MoverFits`), that an animation finds nothing half-way, and that
the loader of a text page grows only while the right button is held.

`TypeInv` is about what the tables contain. `PageOK` says that the choices on
the page are one of the `Tables` of this kind of entry and the counter is inside
them; each of the entry's reactions that exchanges the choices is shown to leave
the counter at one of the new ones. In a word entry that needs `TextOK`: until
the entry has a result, the text typed so far is the prefix whose continuations
are shown, so that the letter taken is one after which some word is left. That
the letter at a position exists is a counting argument: the ranks of `n` letters
are distinct numbers below `n`, hence all of them (`FiniteSetTheorems`).
`AnimationLands` is not inductive as it stands: the page moves in the direction
of the animation while the steps are counted down by their sign, and nothing in
it says that the two agree. `Lands` ties the direction to the sign, and
states the arrival without the modulus, as counter plus steps being a target or
one turn away from it; the step across the end of the carousel changes which of
the three it is.

*SwipeFlow.* `SwipeFlowAssumption`: the tables are well-formed (`IsFlow`), and
`ShowShareWords` is the one of the code, for any number of words; nothing else
is asked of a flow, so the two theorems about swiping and frames hold for flows
that are yet to be written. `FlowInv`: a swipe animates only while swiping is
allowed, and the state of each prompt fits its screen. `WordsInv`: at the
instruction the first word is shown, behind the words the last one, and no
override is left that could jump over them.

*TrezorClient.* `TrezorClientAssumption`: positive bounds and natural lengths.
`TurnInv` says that, while nothing failed and no layout ended early, exactly one
side has the turn: the
host (`HostTurn`), a message on its way to the device of which `k` chunks are
read (`Sending`), the device (`Working`), or a message on its way back
(`Answering`); and that call and data left are the same on both sides, up to
what the message carries. `Stream` describes queue, output and reader of a
message that is cut into any number of chunks. `Shows` says in which phases a
layout is open; while it writes a ButtonRequest of its own, which is one chunk,
nothing of it is on its way yet, so a user who ends it there takes the request
back whole.

Model-checked only:

* liveness (`AlwaysUsableAgain`, `AnimationEnds`, `CallAnswered`): fairness and
  ENABLED are outside the prover's fragment;
* `ProtoCodec` and `Protobuf`, which follow nested messages with RECURSIVE
  operators, which the prover cannot handle at all.

## 5. Not modelled

* Storage: versions 0 to 2, the Optiga, cancelling during the PIN delay
  (`ui_progress`, which returns before the counter is touched), norcow
  counters, lack of room as seen by `storage.c`, the guard bits and the
  encoding of the blockwise count.
* User interface: drawing, layout of text, geometry, translations, the screens
  of `model_tt`, recovery and share-count screens, the bootloader's screens,
  a word entry that starts with a prefilled word, the setting that disables
  animations. The screens with pages of one flow have the same number of pages,
  except the account screen of `ConfirmOutput`, which has one.
* Client: discovery of devices, loss and reordering of UDP packets,
  PinMatrixRequest from core (which sends none), the session cache, the debug
  interface.
* Messages: contents of bytes and strings (UTF-8 included), 64-bit widths and
  overflow of varints, the bitcoin-only build, attributes of message objects,
  strings given in several buffers, reflection.
* All components marked so in `PROJECT.json`: numerical algorithms, hardware
  access, and the parts of the plan below.

## 6. Plan

In order:

1. `Norcow`: counters (`norcow_set_counter`, `norcow_next_counter`) with the
   rollover of the bitwise build, as a module that refines a monotone counter.
2. The Optiga counter next to the MCU counter (`storage_get_pin_rem`), as a
   composition with `Storage`.
3. SD card protection: staged and committed salt against PIN changes.
4. Core event loop and workflows; the session cache; base handlers and locking
   on top of them and of `TrezorClient`.
5. Recovery and backup flags; bootloader update.
