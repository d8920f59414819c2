# A TLA+ model of np2 espresso

np2 espresso runs a PC-9801 emulator (the np2kai core, plain C) on an ESP32-S3. What this repository adds in
`src/main/` is where several tasks, two cores, a DMA engine and two radios or buses meet the core; the core is
sequential, but its event list, interrupt controllers and keyboard interface run under a guest program that may
do anything at any time. The project models both: the hand-over of frames, keys, sound and bands between tasks,
the long sequences of legal calls that change disks and display settings, and the board around the emulated CPU.
Properties are aimed at what a test on the bench would hardly reach: orders of steps, overflows, cut writes,
reboots, interrupts in one another.

Paths below are relative to the repository; `np2kai/` is `src/components/np2kai/np2kai/`.

## 1. Inventory

| Component | Code | State | Operations | Hard behaviour |
|---|---|---|---|---|
| Emulator loop | `main.cpp` 480-660, core 1 | pacing counters, `g_menu_req`, `g_speed_req` | one iteration: menu, speed, keys, render, execute, blit, sound, pacing | meets every other task once per frame |
| LCD blit handshake | `lcd_st7789.cpp` 560-630, `main.cpp` guards | `s_fb`, `s_blit_busy`, a task notification | `lcd_blit`, `lcd_blit_busy`, `blit_task` | two cores on volatile words, lost wake-up, tearing |
| LCD band transport | `lcd_st7789.cpp` 330-560 | two band buffers, the transfer in flight | `push_rect`, `fill_rect`, IO calls | DMA reads what the CPU packs |
| LCD settings | `lcd_st7789.cpp` 100-330, `menu_disk.cpp`, NVS | panel, scaler, clock, pixel format, COLMOD sent | menu rows, save, boot, re-initialisation | stale driver view of the controller; noted panel against running one; a save cut between two keys |
| HID keyboard | `usb_kbd.cpp`, `bt_hid.cpp`, `menu_disk.cpp`, `keystat.c` | previous report per transport, queue of 64, key matrix | report, unplug, push, drain, menu pop | two writers, overflow, the menu as a second reader |
| HID mouse | `usb_kbd.cpp` 40-63, 206-265, `platform_stubs.cpp` | deltas, buttons, `g_umouse_present` | report, attach, detach, read and clear | unlocked read-modify-write from three tasks |
| Bluetooth LE host | `bt_hid.cpp` | `s_dev`, `s_scanning`, `s_found_q`, bonds | worker, `bt_gap_cb`, `handle_open`, `handle_close` | three tasks, late callbacks, retry for ever without scanning for ever |
| Audio output | `audio_i2s.cpp` | stream buffer, carry, counters | `audio_write_s32`, `audio_task` | partial sends and split frames |
| Sound stream | `np2kai/sound/sound.c`, `main.cpp` 560-599 | the stream buffer, `lastclock`, `snd_acc` | `sound_sync`, lock, unlock, drain | two roundings of one ratio, a guard that gives up |
| SD file layer | `dosio_sd.cpp` | a cache of open descriptors | open, read, write, close | shared positions, a full cache, no descriptor left |
| Disk mounts and images | `menu_disk.cpp`, `main.cpp` 330-440, `fddfile.c`, `fdd_d88.c`, `fdd_xdf.c`, `sxsihdd.c` | mounts, one write-back track buffer, NVS | pick, eject, guest access, ESC, RESET, boot | one buffer for two drives, restarts before flushes |
| Disk menu | `menu_disk.cpp` | page, selection | rows | reaches into all of the above |
| Platform stubs | `platform_stubs.cpp` | none | | |
| Events and timing | `np2kai/nevent.c`, `pccore.c` 1890-1990 | the list of active events, each clock relative to a base, `CPU_REMCLOCK` | `nevent_set`, `nevent_reset`, `nevent_progress`, `nevent_execute`, `nevent_forceexit`, `nevent_changeclock` | callbacks that set and reset events while the list is walked; a base that every insertion moves |
| Interrupt controller and timer | `np2kai/io/pic.c`, `pit.c`, `gdc.c` 474-479 | requests, masks, what is in service and the rotation, of two cascaded chips; channel 0 | `pic_setirq`, `pic_irq`, OCW1, OCW2, ICW1, `systimer`, `picmask`, `screenvsync`, `screendisp` | an end of interrupt that names no line; requests that are withdrawn and asked for again |
| Guest keyboard interface | `np2kai/io/serial.c`, `keystat.c` | data register, two rings, status | `keyboard_send`, `keyboard_callback`, read, command, reset line | a callback, a poller and a handler on one register |
| CPU | `np2kai/i286c` | interrupt flag, clocks left of the slice | STI, CLI, HLT, IRET, IN, OUT, taking an interrupt | one instruction of grace after STI; slices cut short and made longer |
| Rest of the core | `np2kai/vram`, `bios`, `cbus`, `sound` ... | the emulated machine | | sequential, wide in data; its specification is the hardware |

How they interact: the HID tasks queue key events and raise `g_menu_req`; the loop drains the queue, runs the
core for one frame (a slice of instructions up to the next event, the events that are due, a look at the
interrupt controllers, and again), hands the frame to the blit task and the samples to the audio task, and opens the menu; the
menu, running in the loop, draws on the panel itself, mounts disks and changes display settings; settings and
mounts come back at boot from NVS. The worker, the GAP callback and the event loop of `esp_hidh` feed the HID half.

What makes each correct, in one line each: the panel shows whole frames, every one of them; a band arrives whole;
the controller is told the format that is sent; no key stays down that nobody holds; the table of devices is the
set of links; samples come in order with left and right in place; a write of the guest is never lost; a boot
restores what was saved; events go off on time and in order; an interrupt comes when it should and ends the right
one; a key reaches the guest once, in order, and is never left behind. `PROJECT.json` lists 40 hazards at their lines, with the properties against them.

## 2. Modules

| Module | Models | Specification of it |
|---|---|---|
| `FrameHandoff` | nothing in the code: what the LCD path promises the loop | abstract specification |
| `LcdBlit` | the handshake of loop and blit task, one action per shared access | implements `FrameHandoff` |
| `BandPush` | `push_rect`, `fill_rect` and the DMA behind them | |
| `LcdPanel` | settings, the controller, NVS, boots | |
| `HidInput` | reports, queue, drain, menu, matrix | |
| `BtHost` | worker, callbacks, peripherals and radio | |
| `AudioRing` | writer and task around the stream buffer, byte by byte | |
| `SoundStream` | renderer and drain around np2kai's buffer | |
| `DosioCache` | the file layer, as operators from one layer to the next | used by |
| `DiskImages` | mounts, images, track buffer, NVS, boots | |
| `HidMouse` | who counts mice, over USB and Bluetooth, one memory access at a time | |
| `Alarms` | nothing in the code: what an event list promises the devices that set events | abstract specification |
| `Nevent` | the event list, as operators from one list to the next | used by `GuestBoard` |
| `Pic` | the two interrupt controllers, as operators, and line by line what they stand for | used by `GuestBoard` |
| `Keybrd` | the guest's keyboard interface, as operators | used by `GuestBoard` |
| `GuestBoard` | the loop of `pccore_exec`, its events and devices, the guest program and its handlers, the emulator loop's keys and clock changes | implements `Alarms` |
| `*Proofs` | theorems about the module in the name; those on `Pic`, `Keybrd` and `Nevent` are in `GuestBoardProofs`, those on `LcdPanel` in `LcdBlitProofs` | |
| `MC*` | values of the constants for TLC | |

How state and actions correspond to code, where it is not one to one:

- **LcdBlit.** `pc1` and `pc0` are the program counters of the two tasks; each action is one read or write of
  `s_fb`, `s_blit_busy` or the notification. A frame is a number; drawing and blitting have a beginning and an end,
  so overlapping them gives `Torn`. Stores of one core reach the other in order (both words are volatile, and the
  model assumes no reordering between cores).
- **BandPush.** A row is the unit. The DMA moves one row per step while the caller packs the next band; with
  `trans_queue_depth = 1` the next IO call waits. `want` is a ghost of what the calls asked for.
- **LcdPanel.** Handlers run alone, because the menu waits for the blit task (proved in `LcdBlitProofs`), so a
  row is one action. `glass` is the controller: initialised as which panel, in which format, and whether something
  was sent in another format; and what of the driver `lcd_init` got: IO, bands, picture, task, each of which may fail.
  A save is a step for each key it stores (`nvs_set_u8`, in `SaveOrder`); `nvs_open` or any key may fail unnoticed,
  the power may go between any two, and app_main may find the partition damaged and erase it. A value that waits for
  `nvs_commit` when the power goes counts as one that failed. The history `kept` says, for each setting, what the
  user may find it at: what the last boot or the last save that went through showed, and what the menu showed in any save begun
  since. It is taken from the driver's settings, never from NVS.
- **HidInput.** A report's diff is one step (each transport has its own `prevkeys` and one task); its events enter
  the queue one at a time, in any order the key slots may give, between those of the other transport.
  The histories `lost` and `ate` are the keys whose last event found the queue full, or went to the menu; the key's
  next event takes it out again. `clash` records that two keyboards held one key or that a key changed hands with
  its press queued before its release (`Handover`, see 7).
- **BtHost.** GAP and `esp_hidh` events are queues; peripherals appear, vanish, lose their link or do not answer.
  Two assumptions about time, both written at the action: a sleep of the worker (two seconds and more) outlasts the
  callbacks that were due before it, and `esp_hidh_dev_open()` returns after the events that were queued before it,
  since the same Bluedroid task delivers them. Pairing, bonds, descriptors and reports are left out.
- **AudioRing.** A byte carries its number, so order, phase and drops can be told. The stream buffer holds what it
  was made for or one byte less (see 7).
- **SoundStream.** Clock and sample rate are scaled to small numbers with a ratio that does not divide, and
  samples carry a number modulo one more than the buffer holds. A stream was made at boot: without memory for one
  `sound_pcmlock` gives no block, the drain ends at once and there is nothing to say (`main.cpp` 592).
- **DosioCache, DiskImages.** A descriptor is its file and whether it has moved from the start: all that a reader who
  does not seek can tell. The layer's state is a record threaded through the calls of one handler, so `fdd_set`,
  flush, seek and boot compose exactly the opens, reads and closes the code makes. A track and a sector are each a
  block, and its contents the number of the write that made them. The ghost `spoilt` names images that a bad
  header or a failed flush touched: there the code promises nothing (see 7). A save (`Saves`) takes each of the three
  paths to NVS or leaves what was there, since a call may fail or the power go between two; the boot after it is
  asked to restore what NVS then holds, mixtures included. Before a restart any subset may be lost, which is also what a
  power cut in the middle of any save leaves; when the machine goes on, the lost paths are one of the sets in `Failing`,
  a constant that the proofs leave open and TLC bounds.
- **Nevent.** A walk over the list that takes events out of it is `Only`, which keeps those of a set in their order and
  is defined by rank rather than by recursion, so that it can be reasoned about.
- **GuestBoard.** `phase` is where the loop of `pccore_exec` is: between frames, at `pic_irq`, in the CPU, at
  `nevent_progress`, in a callback of `nevent_execute`. One instruction is one action and costs a few clocks; clocks
  and periods are scaled down. The guest may run any instruction that touches what is modelled, at any point, so a
  property that holds does so for every program within these rules: handlers read the keyboard's byte, end the
  interrupt at their chip and, when the slave has nothing left, at the master, and return; interrupts may be enabled
  in a handler before that (`MayNest`), save between the two ends of an interrupt of the slave; no two STIs follow
  each other. An event's clock that nobody will read is forgotten (`Forgets`), which only keeps the state space
  small: what is forgotten is set anew before it is looked at, except for FLAMES, which is kept. Each line has one
  handler, `handlers` is their stack. Histories: `sti`, the last instruction was STI; `prolonged`, the one after it
  set the next event; `wanted`, the guest asked for a vertical sync and got none since; `wiped`, ICW1 dropped the
  request for a byte; `next` and `heard` number the bytes. `Setup` bounds commands, clock changes, rotations and the
  like, which are otherwise unlimited.
- **HidMouse.** `g_umouse_present++` and the test and decrement are three tasks' reads and writes. CONNECTED is queued
  to `hid_task`, DISCONNECTED is handled by the driver's task itself, as in `hid_iface_cb`.

## 3. Runs

Each passing run is a question; each refuting run is a statement of the repository that the code does not keep.

| Run | Shows | Bounds and why they are enough |
|---|---|---|
| `lcd_blit` | no tearing, no lost wake-up, every frame shown, guards open again, implements `FrameHandoff` | 3 frames: a frame being shown, one being drawn, one after; deadlock is checked |
| `band_push` | what is drawn arrives, whole and in place | 5 rows in bands of 2 (odd rest, both parities), 3 calls |
| `lcd_panel` | sent pixels match the controller, margin clean, settings come back key by key | 2 boots: one to save in, one to restore in; 2 menus, so that a cut save follows a whole one or another cut one; 1 failing NVS call beside power cuts; all failures of `lcd_init` (8.8 million states) |
| `hid_input` | no stuck key, held keys down, menu opens, queue drains | USB and BLE keyboard; left and right Shift, which share a key, Esc, F11; queue of 3 so that it overflows; 2 reports, beside the ones for unplugs, so that a key whose release was dropped gets another event (441,682 states) |
| `hid_stuck` | **refuted**: with every keyboard gone no key is down | queue of 8: nothing overflows |
| `bt_host` | table = links, radio silent when it should be, reliable devices found again and again | a keyboard and two mice for two slots, one of them unreliable; a hit queue of 1, one result under way |
| `audio_ring` | order, phase, exact drop counter, drains | ring of 6 frames or one byte less, blocks of 3, receive buffer of 2: every kind of split; 30 frames wrap several times |
| `sound_stream` | blocks in order, nothing owed between frames | 5 cycles to 2 samples, block of 2, frames up to 7 cycles, longer than `Sane` |
| `disk_images` | writes kept, reads latest, descriptors sound, boots restore | 2 D88, 1 raw, 1 fixed disk, 1 ROM; 2 slots and 3 descriptors, so that the cache fills; 2 blocks; 1 write; a save before a restart stores any subset of the paths, one on the way out of the menu all of them or all but one, the second floppy's or the fixed disk's (590 thousand states with symmetry on the D88 images) |
| `disk_headers` | **refuted**: an image opened again is read from its start | as above |
| `guest_board` | events on time (implements `Alarms`); interrupts taken when and as they should, promptly; the right one ended; no key byte lost, doubled or stranded; no vertical sync lost | see below (1,327,604 states) |
| `hid_mouse` | **refuted**: `hid_input.h` 40-42, a USB mouse unplugged while a Bluetooth one is paired leaves it working | one mouse on each side |

`guest_board`: four lines to a chip (timer, keyboard, sync, cascade; one line of the slave is raised), one byte in the
key buffer and two replies, so that both overflow; a frame of 3 clocks and one of sync, a timer of 4 and one of 1
for masked ticks, so that events coincide, come while another is called, and periods do not divide the frame; two CPU
clocks; a guest that masks nothing or timer and keyboard, rotates or not; two handlers in one another; one thing set
up anew. `Longest` (one more than the longest frame) and `Latest` are the least that hold. In this instance no slice is prolonged; with a frame of 4
clocks and no device (3.9 million states) some are, and everything holds, as it does with three nested handlers and
four setups, and with a frame of 6, a timer of 3 and a long period of 7 (`Longest` 13, `Latest` 4; 4.2 million
states), tried separately. What more nesting, lines, masks, rotations, clocks and setups can do is proved (5).

`CHECK_DEADLOCK FALSE` stands where the bound on inputs, or a device that is off, lets everything stop.
Every property of a passing run has a mutant in the module: a plausible bug of that code which breaks it.

## 4. Fairness

Only what the scheduler and the hardware do anyway:

- `LcdBlit`: both tasks run when they can (weak fairness); the menu key is never owed.
- `BandPush`: the caller and the DMA proceed; new calls are not owed.
- `HidInput`: the loop, the pushes and the drain proceed; reports are not owed. `EventsDrain` holds since reports are bounded.
- `AudioRing`: the audio task proceeds; the emulator owes nothing.
- `BtHost`: tasks proceed and scan windows pass (weak). Strong: a scan can be started at times; and for each device
  in `Reliable`, if it is advertising again and again while the worker waits in a window, then at times it is the
  first that is heard, its result comes while the worker still waits, and it answers. That is an assumption on
  the world: a device that always loses the race to another that never answers is not found (see 7). What is left
  to the code, and what `DeviceComesBack` checks, is that the worker keeps opening windows.

`SoundStream`, `LcdPanel` and `DiskImages` have no fairness: their operations are calls nobody owes. `GuestBoard` has
none either: a guest owes nothing, and promptness is a safety property there (`Prompt`, `Latest` of `Alarms`). Nor
has `HidMouse`.

## 5. Proofs

For every value of the constants that meets the modules' assumptions (sizes positive, tables well-formed):

- **LcdBlitProofs.** `HandshakeInv` says who owns the framebuffer in every pair of program points: the loop owns it
  where it draws, opens the menu or hands over; the task owns it from its look at `s_fb` to its clearing of busy,
  and busy or the notification says so. `TearFree` alone is not inductive, since clearing busy before the last look
  at `s_fb` is only safe together with the re-arm. From it: `TearFreeHolds`, `WholeFramesHold`,
  `NoStrandedFrameHolds`, and `RefinesHandoff`, step by step. Since loop and task exclude each other, a handler of
  `LcdPanel` is one step, and its theorems stand in the same module (which extends both, hence the
  names `SettingsInit`, `SettingsNext`, `SettingsSpec` of `LcdPanel`), for any number of boots:
  `PixelsDecodedHolds`, since the driver always knows the controller's format (`FormatKnown`); `MarginBlackHolds`,
  since what is in the margin is still what the panel shows last, and the scaler changes only in the menu, which
  leaves by a fill (`MarginOwed`), so that `do_blit`'s own wipe is never needed for it. `SettingsSurviveHolds` needs
  that what NVS has for each key is something the user may find, at every step of a save, and that the keys behind the
  step of a save in which nothing failed hold what the menu shows (`StoreInv`): only then may the save's return forget
  all older values. A save that skips a key, or stores another's value in it, breaks it, as the mutant does.
- **BandPushProofs.** Each row of the panel will show, once the wire is still, what was last asked of it, save the rows
  the call under way has not handed over (`Ahead`); and the transfer in flight stays within its buffer and the
  window, and the caller packs the other buffer (`WireFits`, `CallFits`). `PictureWhole` alone says nothing of the
  time before. Then `PictureWholeHolds`, for any panel, bands and pictures. A fill may pack black over a band that is in
  flight: only because it fills the whole panel does that do no harm.
- **HidInputProofs.** A key that will be down once queue and pending events are worked off is one that a previous
  report holds, or its last event does not reach the matrix (`DownOwned`, `Missed`), and previous reports are held by
  plugged devices (`PrevHeld`). Then `NoStuckKeyHolds` for any keyboards, transports, keys and queue length. `Missed`
  says more than `lost` and `ate`: a key whose event the menu took has missed nothing while another is still queued.
  The other way round, without a clash a key that a keyboard holds is held by one keyboard through one usage
  (`Single`), is down, comes or has missed an event (`Comes`), and no other transport has an event of it under way
  (`HeldInv`). Then `HeldKeysDownHolds`.
- **BtHostProofs.** The opens and closes of a peripheral that are still to be delivered alternate, and the last of
  them says what its link does (`Alternate`); so the table, brought up to date, is the set of links
  (`TableSoundHolds`), for any devices, slots and queue lengths. `RadioInv`: while the radio is on no end of an earlier
  scan is due, and a worker that goes on without having slept has just opened a device. Then `RadioRestsHolds`.
- **AudioRingProofs.** Whole frames in the block, the ring and the rest; cutting and joining keep it (`FramedCut`,
  `FramedConcat`). Then `PhaseKeptHolds` and `DropsCountedHolds`. Block, buffer and ring together rise and hold
  nothing that was not made (`OrderInv`): `Receive` only moves a border in them, `Play` drops their beginning
  (`RisingRest`), `Write` appends newer bytes (`RisingWrite`). Then `InOrderHolds`, whatever the room, and
  `TypeCorrect`.
- **SoundStreamProofs.** `StreamInv`: what is in the buffer is numbered from what was heard on (`InBuffer`), and the blocks
  the loop may still take in this frame cover what `snd_acc` owes (`Paid`). Then `StreamSafe` (types),
  `InOrderHolds` and `NothingOwedHolds`, for any ratio of clock and rate, block and length of frames. They assume
  that the longest frame the drain believes is worth no more samples than the guard renders in its rounds
  (`Sane * Hz <= Guard * Block`). The code keeps this with room to spare: `main.cpp` 589 believes 1/20 second, which is 1103
  samples at 22050 Hz, and 596 allows 8 rounds of a block of 20 ms, 441 samples each.
- **DiskImagesProofs.** Lemmas on each call of the layer (what an open, a read and a close keep), on flush, seek and
  mount, and one invariant `Inv` over layer and handle, kept by each action. Then `TypeCorrect` and
  `DescriptorsSoundHolds`. `Intact`: each block is where the guest's last write is held, in its file or in the
  track buffer, and the buffer agrees with the file of the drive it came from. Each flush, seek and mount keeps it,
  each guest access moves it along. Then `WritesKeptHolds` and `ReadsLatestHolds`. `BootRestoresHolds` follows a boot
  through its opens (`Fresh`): what is open is in the cache, which never takes the last descriptor (`FdLeft`, a
  pigeonhole), the fixed disk is the first file opened and so cached, and a cached descriptor stays at the start until
  its header is read.
- **GuestBoardProofs**, in five parts, whatever the guest does and for any depth, masks, clocks and number of lines:
  - The scans of `pic_irq` over rotated lines take a request exactly when `May`, which says line by line what may be
    served, has one, and then the first (`PicIrqIsRight`); a rotation to the line that was ended keeps the order of
    the others above it (`RotationKeepsOrder`).
  - `InService` and `InterruptsLegal` together are not inductive: that the last handler is the one the controller
    ends rests on handlers having been entered in rising rank and on rotations keeping that order (`Nested`), on
    interrupts being off between the two ends of an interrupt of the slave (`Handling`), and on the cascade never
    being requested by itself (`Wired`). From these, `InServiceHolds`, `InterruptsLegalHolds`, `PromptHolds` and
    `VsyncKeptHolds`.
  - `KeysInOrderHolds` rests on `InOrder`, which adds what is in the data register: what is unread is numbered from
    `heard` on, byte by byte, modulo more than the interface holds (`ModAdd`, `NumberedAppend`, `NumberedTail`).
  - `BoardInv` joins event list and keyboard. The list, the events that ring and their clocks agree with the
    phase of the loop (`ListInv`); a byte that waits in a buffer has its event set or ringing (`KeysDue`); a byte in
    the data register has a request, a handler that has not read it yet, or lost its request to ICW1 (`Told`). None
    of them holds alone: an event that rings is in no list, and the callback that moves the next byte up is the one
    that sets the event again. Then `TypeCorrect` and `NoStrandedKeyHolds`. What a walk of the list keeps is proved
    of `Only` once (`Places`, `Keeps`, `OnlyIs`) and used by every operator of `Nevent`.
  - `AlarmsHolds`: the board implements `Alarms`, step by step. `AlarmInv` says that the list stays in the order of
    its clocks and that no slice outlasts the first event (`Ordered`, `Stops`); that what is late is so by no more
    than one instruction, an STI and one interrupt, which is the last because it disables the next (`SliceInv`,
    `LateBy`); and that a frame under way has its event set or ringing, from where the last one ended (`FrameInv`).
    `Ran` says how much time an operator of the list lets pass and which events it touches. A change of the clock
    rounds two counters and each event separately: the order stays, and nothing that was not due becomes late by
    more than one clock (`ChangeIs`, from `ScaledIs` and `ScaledRises`). The theorem takes the bounds from its hypothesis
    `Enough(K)`: `K[k]` is how late an event may be after `k` changes of the clock, which `Multiples`, `Costs` and `IntCost`
    determine, and `Latest` and `Longest` are no less than `K` and the longest frame ask. For any values
    of the other constants with finite `Multiples` and `Costs` there are such bounds. `Longest` is
    exact. `Latest` is not: a change of the clock multiplies in `K` what rarely is late at all then, and 3 is enough
    in the instance of `guest_board` where `K` asks for 13.

Proofs about safety use the specifications without their fairness or ignore it.

**Only model-checked:** all liveness and `HandoffSpec`'s fairness (out of the prover's reach); `RingDrains` of
`AudioRing`; that `Latest` can be as small as 3 in the instance of `guest_board`; and `HidMouse`, which is refuted.
Every other safety invariant and action property of a passing run, and `AlarmsSpec`, is stated by a theorem.

## 6. What is not modelled

- The other instructions of the CPU core, video memory and drawing, sound synthesis, BIOS emulation, C-bus boards:
  sequential, wide in data, and specified by the original machine rather than by this repository. Most of the
  repository's lines are these, several of them in versions that the build leaves out.
- Of the board: `dmac.c`, the special mask mode, a specific end of interrupt, reading registers back, POPF, the beep
  and RS-232 channels of the timer, the serial half of `serial.c`, locking and repeating keys, the floppy controller.
- The keys `multiple`, `biosfile` and `fontfile` of NVS (nothing modelled depends on them), and an NVS partition that
  can be written but not read.
- State saving (compiled, never called), formatting, write protection, images that vanish from a running card.
- Image formats other than D88 and raw sectors, SCSI, VHD and CD images.
- Mouse movement and buttons, pairing and bonds, the boot race of `bt_hid_init`, the pacing of the loop (`main.cpp`
  606-625), whose only promise is a rate.
- Code that `src/components/np2kai/CMakeLists.txt` does not build.

## 7. Observations

The refuted statements are findings in `PROJECT.json`. Further things met while reading, without a run of their own:

- **Audio.** `xStreamBufferCreateWithCaps()` may leave room for one byte less than asked for, depending on how
  ESP-IDF sizes the storage. If it does, a send that is cut drops the rest of a frame in its middle and left and
  right are shifted from there on; the carry of `audio_task` keeps counts multiples of 4 and cannot repair it.
  `PhaseKept` and `DropsCounted` say what holds otherwise.
- **Disks.** The cache never evicts, and boot-time checks of ROM files use its slots. With ROMs, one image and a fixed
  disk the SD library's default of five open files can run out; then `d88trk_flushdata()` fails and the guest's
  write is dropped without a word. RESET and ejecting the fixed disk restart with a modified track still in the buffer.
  A fixed disk picked a second time fails its signature check while its path stays set. An image missing at one
  boot is an empty drive that the next ESC saves.
- **Sound.** `NoHole` of `SoundStream`, that `sound_sync` never declines to render, is what the comment at `main.cpp`
  576-587 hopes for, and it does not follow from carrying the drain's remainder alone: `sound_sync` rounds down too.
  With a clock of 5 to 2 samples, a reserve of 4 and frames of 4 to 8 cycles, all believed, TLC fills the buffer.
- **Display.** `Refuses12On7796` of `LcdPanel`, which says that 12-bit colour is refused on the ST7796, fails. Within one
  boot: with 12 bit on, the panel row goes to ST7796 and the clock row then runs `panel_init` for the panel noted for the
  next boot, while `s_rgb444` stays on. Over two: booted on the ST7796, `lcd_set_rgb444` (`lcd_st7789.cpp` 252-253)
  asks `s_panel`, which the panel row has set to the ST7789 for the next boot.
  A failed `io_create` at a clock change (207-211) leaves `s_io` null and every drawing call silent, and no later choice
  of a clock rebuilds it: `lcd_set_spi_idx` takes a null `s_io` for "before lcd_init". Only a restart helps. The
  re-arm of busy in `blit_task` and `s_clear_req` in the menu are redundant but harmless.
  A save that is cut leaves some settings new and some old, without a word to the user; `SettingsSurvive` says that
  it is never worse than that.
- **Bluetooth.** With only a mouse in, the worker never backs off, against "must not run forever" of
  `bt_hid.cpp` 318-322. It connects to the first device it hears, so one that always refuses can keep a
  keyboard out. `bt_hid_init` deletes a semaphore after ten seconds that the worker may be about to give.
- **Keyboard.** An event that finds the queue full (`usb_kbd.cpp` 68) is dropped and never repeated, and so is one that
  the menu pops: if it was a release the key stays down until it is pressed and released again. `NoStuckKey` and
  `HeldKeysDown` except such a key, and only it, and only until its next event. Two keyboards holding the same key: the release on one releases it (`hid_input.h` 21-23 says so).
  Left and right Shift (Ctrl, Alt) are one key to the guest, and modifiers are compared in the order of their table
  (`usb_kbd.cpp` 139-153): a report in which Right Shift has given way to Left Shift queues the press before the release,
  and the key is up while it is held. `HeldKeysDown` therefore excepts a key once it changed hands this way.
- **Interrupts.** A guest that executes nothing but STI keeps the events from being looked at. Unmasking the master's
  cascade line does not end the slice, and a request the slave gets from an instruction waits for the next look;
  `Prompt` therefore speaks of the lines of the master. An STI followed by an OUT that sets the next event runs up to
  that event before a waiting request is seen. A guest that enables interrupts between its two ends of an interrupt
  of the slave has two handlers share one bit of the master.
- **Guest keyboard.** The reset line leaves the request at the controller, so the guest gets an interrupt with nothing
  new to read. ICW1 drops the request for a byte that waits; if it is the last one, it waits until the guest polls or
  another key is pressed. A full buffer drops bytes, and tells the guest by a bit of the status only.

## 8. Plan

Done, in this order: handshake, keyboard, audio, sound stream, settings, bands, disks, Bluetooth, mouse, event list,
interrupt controllers, guest keyboard and the board that composes them; proofs of the handshake, the settings, the
bands, the keyboard, the Bluetooth host, the audio ring, the sound stream, the disks, the controllers, and the board with its
types, interrupts, keys and events.

Left, most important first:

1. The floppy controller (`np2kai/io/fdc.c`) on top of `DiskImages` and `GuestBoard`: its interrupt on the slave
   and its buffer between guest and track.
2. The boot race of `bt_hid_init`, pacing of the loop, movement of the mouse.
3. Proofs: a bound `Latest` that a change of the clock does not multiply.

## 9. Running

`tlc -config <cfg> <module>` for a run of `PROJECT.json`, `tlapm <module>` for a proof module. The longest runs are
`guest_board` and `disk_images` (two to three minutes each with two workers); the longest proofs are `GuestBoardProofs`
(about ten minutes) and `DiskImagesProofs`.
