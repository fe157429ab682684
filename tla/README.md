# FPGAMario: a verification project

FPGAMario is a small Mario game in SystemVerilog for a DE2-115 board. The game
proper is synchronous hardware on one 50 MHz clock; a Nios II processor runs C
code that reads a USB keyboard through a CY7C67200 chip and writes the keycode
to a port the hardware reads. This directory holds TLA+ modules of the hardware
game and of the processor's program down to its serial driver, TLC configurations
that check them, and TLAPS proofs.

## 1. Inventory

| Component | State | Operations | Correct when |
|---|---|---|---|
| Mario (`Mario.sv`) | position, `Jump_Counter`, `Falling`, `is_jumping`, sprite registers | reset; one frame: begin jump / rise / stop / land / fall, and left / right / still / scroll | stays in the picture without 10-bit wrap, no double jump, every jump ends |
| Goomba (`goomba.sv`) | position, motion, `isAlive`, `kill_Mario`, `goomba_killed` | reset, spawn (`start`), frame: squished / kills / walks off / walks and turns / lies dead | pays once, kills only on contact, stays on screen |
| Coins (`coin.sv`, 4 instances) | position, `is_running`, `coin_taken` | reset, drop (`start`), pay out, scroll, meet Mario | pays once, lies in its own column |
| Block array (`block_array.sv`) | ten 30-bit columns, `current_block_col` | reset, shift, clear a brick; lookups for Mario, goomba and drawing | the board is the level in order, minus bricks |
| Level memory (`LevelMemory.v`, `LevelMem.mif`) | address and output register | read, two posedges | - |
| VGA controller (`VGA_controller.sv`) | two counters, HS, VS, BLANK | reset, next pixel | signals match the pixel; frames keep coming |
| Top level (`FPGAMario_toplevel.sv`) | `score`, `start_coin`, `Reset_h`, edge detectors | one posedge of Clk | a death resets the game, between frames |
| Colour mapper (`Color_Mapper.sv`, `ram.sv`) | palette pipeline | layer, sprite and address per pixel | each pixel shows the right pixel of its sprite |
| HPI interface (`hpi_io_intf.sv`, `io_handler.c`) | registered strobes and data | read, write, reset | an access reaches the chip whole |
| USB software (`main.c`, `usb.c`) | position in the enumeration, last message, toggle, keycode port | write a list of descriptors, start it, wait, check, start again; poll; hot plug | each step rests on the one before, keys reach the game, no wait lasts for ever |
| USB chip firmware, keyboard (external) | mailbox, message, list pointer, descriptors, control bytes | commands, run a descriptor, end a list, plug and unplug | (environment) |
| JTAG UART driver (`altera_avalon_jtag_uart_*.c`) | two rings, `irq_enable`, `host_inactive` | write, read, close, ioctl, interrupt routine, alarm | no byte lost, repeated or forgotten, no write blocks for ever |

How they interact. Everything in the game is clocked by `Clk`. The VGA counters
yield `frame_clk` (both zero), whose rising edge makes Mario, goomba and coins
take their one step per frame. On that same posedge Mario's `Shift` makes the
block array drop its left column and load the word the level memory shows, and
goomba and coins move with it. The control bits of the pending word start
goomba and coins. The block array answers Mario's and the goomba's position
with the blocks beside them, combinationally. `kill_Mario` goes through
`Reset_h` back to all of them, VGA counters and `hpi_io_intf` included. The
processor's program reaches the USB chip only through `hpi_io_intf`, hands the
game a keycode through a port, and prints through the UART driver, whose
interrupt routine is the only other thing that runs on the processor.

What is hard: registers that see each other one posedge late (level memory,
`start_coin`, `Reset_h`), work done per posedge next to work done per frame
(bricks against jumps), 10-bit and 5-bit wrap-around at the borders, exact
equality tests against moving quantities, resets that coincide with other
events, an unsynchronised button, reads outside the array; and in the software a
mailbox whose messages are read and cleared in two accesses, lists that are
started again while the chip is in them, and rings shared with an interrupt
routine without a lock. The list, with
lines and the properties aimed at each, is `hazards` in `PROJECT.json`.

## 2. Modules

    Playfield          the geometry every module shares, 10-bit arithmetic
    +- Mario           Mario's motion, one step per frame
    |  +- MarioSprite  adds direction, legs and sprite timer
    |  |  +- MarioSpriteProofs  a theorem about the sprite timer
    |  +- MarioProofs  theorems about Mario
    +- Goomba          actions of the goomba on one posedge
    +- Coin            actions of the four coins
    +- BlockArray      columns, lookups, scroll, broken bricks
    VgaCounters        DrawX, DrawY and frame_clk
    +- VgaController   adds the sync and blanking registers
    |  +- VgaProofs    theorems about them
    |  +- Picture      scans ColorMapper over the raster
    |     +- PictureProofs  a theorem about every pixel
    ColorMapper        which pixel of which sprite is drawn
    Toplevel           composes Mario, Goomba, Coin, BlockArray, VgaCounters
    +- ToplevelProofs  theorems about the game, with those about Mario
    +- BrickHistory    adds one history variable
    LevelData          the real level and the board's numbers, as assumptions
    HpiBus             io_handler.c, hpi_io_intf.sv and the chip's port
    +- HpiBusProofs    theorems about the bus, and that it implements
    RegisterFile       what HpiBus implements: atomic accesses to a memory
    UsbLists           the lists of descriptors usb.c writes, as data
    +- UsbHost         main.c over them, the chip and the keyboard
       +- UsbHostProofs  theorems about it
    JtagUart           the UART driver, program and interrupt routine
    +- JtagUartProofs  theorems about it
    ByteChannel        what each direction of JtagUart implements

`MC*.tla` and `.cfg` instantiate them.

**Time.** In `Mario` and `MarioSprite` a step is a frame (or a reset); on all
other posedges the registers hold. In `VgaController` it is a posedge of
VGA_CLK. In `Toplevel` it is one posedge of `Clk` and all registers step at
once: `ResetTick` when `Reset_h` is high, `FrameTick` on the posedge of a frame,
`QuietTick` otherwise; `Always` is what happens on each of them. Every component
module is instantiated in `Toplevel`, and its actions get the *old* values of
the others as arguments, as nonblocking assignments do.

**Correspondence.** Names are those of the source. An `if`/`else if` chain is a
disjunction of actions whose guards exclude the earlier branches. A register
assignment that keeps its value is `UNCHANGED`. 10-bit arithmetic is `W10`.
A bit slice `[off +: 3]` is `Slice`, across two cells when the offset is not a
multiple of three; `Lookup` returns the *set* of values a read can yield, so a
read outside the array is any value (three representatives: air, brick, other,
since no reader tells more apart). The three identical edge detectors are one.
`Goomba_Y_Motion`, the goomba's `Falling` (constantly 0) and Mario's motion
registers (never read) have no variable.

**Initial state of `Toplevel`.** `KEY[0]` held from power-up until everything is
reset and the memory has answered, then let go; registers without a reset are 0,
the power-up value of the device. `VGA_CLK` may be in either phase.

**The HPI path** is a system of its own (`HpiBus`), tied to the game by
`Reset_h` only. A function of `io_handler.c` is the sequence of accesses to
ports it makes (`IO_init`, `IO_write`, `IO_read`); `MakeStore` and `MakeLoad`
perform the next one, `Wait` is a posedge on which the processor makes none, and
all of them include `Posedge`: `hpi_io_intf` copies the ports to the pins or
resets them, and the chip reacts. `UsbRead` and `UsbWrite` are among the
sequences of calls `BeginCall` may choose. `RegisterFile` is the abstract
specification: calls that take effect one at a time. The refinement mapping
calls an access served when its strobe has ended on the pins (`Served`).
`played`, chosen in `Init`, says whether the game resets in this behaviour: with
resets accesses are split (section 4), so `RefinesRegisterFile` speaks of the
behaviours without, while `NoBusFight` and `AddressSteady` hold in all.

**The USB software** (`UsbHost`). `UsbLists` holds what each `UsbGetDeviceDesc1`
and the like stores at 0x500 and following, descriptor by descriptor: PID,
toggle, buffer, length, link. A step of the program is one access to the chip,
or several that nothing can come between in a way the program could notice;
writing a list and starting it (`UsbWrite` of `HUSB_SIE1_pCurrentTDPtr`) are two
steps, and so are reading the message and clearing it. `at` is the program
counter: `message` is `UsbWaitTDListDone`, `await_retry` the loop of
`UsbGetRetryCnt`. Firmware and keyboard are external: commands, descriptors and
messages as the program expects them, a keyboard that refuses what does not fit
its state (toggle, direction, a request before a reset), that may be plugged in
and out at any moment, and that may be slower than the 10 ms the program sleeps
(`late`). `StrayReports` says whether the firmware answers the list pointer 0x576
that `main.c:367` sets, where it has stored an endpoint descriptor; nothing in
the repository tells, and the runs assume it does not answer. (With an answer
`NeverRefused`, `EnumerationEarned` and `KeycodeIsAKey` all fail: the program takes
it for that of `UsbSetConfig`.)

**The UART driver** (`JtagUart`). The interrupt routine runs between two steps
of the program and always to its end; a step of the program is one access to a
variable both sides use. Bytes are numbered. Locals are cleared when their value
is dead. `Timeouts` contains `IntMax` for a board without a clock, as this one
is, and a small number for one with. Hardware FIFOs and terminal are external.
The rings' indices are declared `volatile` one side only
(`altera_avalon_jtag_uart.h`: `tx_in` and `rx_out` are not); the model assumes
that stores are made where the program makes them.

**The picture.** A scene of `ColorMapper` is the record of registers the drawing
reads; `LegalScene` bounds it by what `InPicture`, `GoombaOnScreen` and
`CoinInOwnColumn` say, with the board's numbers.

**Names ending in `Bug`** are mutations kept beside the definition they mutate;
each property is checked to fail when one of them replaces the original.

## 3. Runs

Small geometry: blocks of 4 pixels (`HalfSize` 2), 6 x 5 blocks, steps of 2 and
1 pixels as on the board, a jump of 6 frames (3 blocks; the board's 95 frames
are 4.75 blocks of 10). `Word` is 104, the multiple of 4 for which Y - 4 = -1 at
the ceiling yields row 25 and bit offset 11, exactly as 1023 does with blocks of
40. A frame is 6 posedges (3 x 1 pixels): longer than the level memory's two and
the reset's four, which is all that the 840 000 posedges of the real frame
provide. The level memory has 8 words and wraps, as the real 256 do.

| Run | Question | Bounds |
|---|---|---|
| `mario` | bounds, flags, jump, steps, termination of jumps, the sprite timer's wrap and the way Mario faces, for any key and any polls on any frame | small geometry, keys none/A/D/W, polls air/block |
| `vga` | signals belong to the pixel shown; the colour mapper reads the right pixel; frames recur whatever the resets | the real 800 x 525 raster, three scenes |
| `bricks` | board against level, coins in their column, rigid scroll, single awards | level with bricks at two heights, a two-block pipe, two coins; score modulo 4 |
| `goomba` | deaths and squishes: clean reset, single awards, goomba stays on screen; a death leads to the start, frames go on for ever | level with a goomba on open ground and one in front of a wall; score modulo 1 |
| `button` | the reset button on any posedge, also during a death | goomba level, keys D/W |
| `hpi` | the HPI path implements `RegisterFile` when the game does not reset; one driver on the bus and one address per strobe, with a reset on any posedge | two words of memory, three posedges or more between accesses |
| `usb` | the keyboard can carry out all it is asked, steps rest on the ones before, the keycode is a key, reports reach the game, two places to hang and no other | three keys, two reads of the connection (5 and 7 in the code), two plug-ins or one and a late list, unplug at any moment |
| `uart` | no byte is forgotten or locked out, both directions are channels, output arrives, writes return | rings of 3 (2 bytes), FIFOs of 1, timeout 2 or none, 4 bytes each way |
| `death_board`, `brick_jump`, `hpi_death`, `usb_removed` | statements of comments and messages the code does not meet (section 4) | `hpi_death`: resets as long as a death's, 60 posedges apart, six posedges between accesses; `usb_removed`: one plug-in |

Why the bounds are enough: the properties compare positions by sign and by
differences of a step, a half and a whole block, and all of these are distinct
in the small geometry; in it Mario reaches ceiling, floor, pipe tops, both
borders and the scroll line, the goomba turns at walls and at both borders,
dies in both ways, and kills. What depends on the real numbers has a run of its own
(the raster) or a proof for all numbers (widths and jump height, section 5). Score is reduced modulo a
small number in the runs because it feeds nothing.

The run `bricks` has no reset, since `CoinInOwnColumn` is not true with one
(section 4). That `BoardIsLevel` survives deaths and the button is what the theorem
`BoardShowsLevel` says. The level of `goomba` has no coins: what `ScrollIsRigid` and
`AwardsAreSingle` say of them rests on `ScrollsRigidly`, and on `bricks`.

Two words of chip memory tell every pointer error from a right access, since a
pointer that moves once too often, or not at all, is then on the other word. The
Nios II is the `Tiny` core (`nios_system.qsys:393`), which needs six clocks for
an instruction; `Gap` is 3, the least that `HpiAssumption` allows with a chip
that answers within one posedge. The bound is sharp: with a gap of 2 TLC finds a
read that picks the data up before the chip has put it there.

Rings of three slots wrap within four bytes and are full with two, so that every
order of indices occurs, and a FIFO of one is full and empty in turn; what
depends on the real lengths is proved for all. Two repeated reads stand for five
and seven because only the first and the last are treated differently. Two
plug-ins let a second keyboard meet what the first left behind. One of the keys is
the "no key" report 0, and there are three because with two the port of a game that is always one report behind
would agree with the key by chance. A key may change at any step, also between the
run of a list and the read of its report, so `KeyReachesGame` does not speak of the
key that is down but of what was reported: a keycode in the chip's memory is not
replaced before it has been handed over, and is handed over. It is lost in three
cases only, and TLC finds the property violated without any one of them: the
keyboard is removed, the program is `Stuck`, or a list that was started again after its
report came in takes another one (`Overrun`). That a list runs again and takes no
second report is not excused, nor are toggles out of step. That the polls go on is
`NoOtherHang`, and that the keyboard answers them `NeverRefused`.

**Fairness.** `WF(Next)` in `Toplevel` (the oscillator never stops) and in
`VgaController` (neither does the PLL); `WF(SpriteFrame)` in `MarioSprite`, which the
`vga` run justifies: frames recur for ever. No fairness is asked of resets or
keys. `UsbHost` has `WF(Host)` and `WF(Chip)`: the processor and the chip's
firmware run on; nothing is asked of the keyboard's user. `JtagUart` has
`WF(Running)`, `WF(Isr)` and `WF(HostReceives)`: a call that has begun runs on,
an interrupt is served (nothing in this program disables interrupts for good),
and the terminal takes bytes. That a terminal is connected is an assumption;
without one a write does block, as the driver says. Safety runs use no fairness.

**Deadlock** is checked in every run of the hardware, which never stops. `MCUsb`
and `MCUart` do not ask for it: a program that waits for a message that never
comes has no step left when all plug-ins are used up (`NoOtherHang` says where
that can be), and a program may end when it has written all it will.

## 4. What the comments say and the code does not do

* `death_board`: `goomba.sv:112` says a kill resets the game. The block array
  fills its columns with the word the level memory shows *during* the reset,
  which is still the column that was pending at the death, since
  `current_block_col` is reset in the same cycles and the memory is two posedges
  behind. Only a held button gives the first board again.
* `brick_jump`: `Mario.sv:97` says that a jump into a ceiling turns into a fall.
  A brick is removed on the first posedge after Mario reaches it, long before
  the frame edge on which Mario looks, so bricks never stop a jump.

* `hpi_death`: `usb.c:60` says that `UsbRead` returns the data at the address.
  A death of Mario resets `hpi_io_intf` too: its strobes go high in the middle
  of an access, the chip takes the halves for two accesses, and the software
  is not told.
* `usb_removed`: `main.c:563` begins the hot plug routine and `main.c:572` prints
  that the keyboard has been removed. `UsbWaitTDListDone` reads the message and
  clears it in a second access (`usb.c:542`), so a `TDListDone` in between is
  cleared unread; and a remove message may overwrite one. After either the
  program waits for ever, for it looks at nothing else there, and says nothing.

Also visible in the model, with no text that clearly contradicts:

* A coin takes its row from the control bits of the *next* column (`start_block`
  is not registered with `start_coin`). Right after a death the stale word may
  spawn a goomba or a coin. The score survives deaths and wraps at 256.
* `goomba.sv:102` announces a check that Mario is directly above; the condition
  holds for any Mario whose centre is over the goomba and whose feet are below
  its top, and the contact that kills (`goomba.sv:109`) is an exact equality of
  edges closing by up to 3 pixels a frame. When it is stepped over, a Mario on the
  ground squishes the goomba from the side.
* Mario's neighbours are looked up from his centre, so his corners clip into
  blocks, as the TODO at `block_array.sv:77` says.
* The tiles of the wall left of and above the window are offset by 24 pixels,
  since 120 and 40 are subtracted there with a wrap. The colour leaves the mapper
  two posedges of Clk, one pixel, after sync and blanking.
* Between the first two stores of `IO_init` chip and FPGA both drive the bus,
  which is why `NoBusFight` begins after `IO_init`. The bus is driven by the port
  itself; the register `hpi_io_intf.sv:12` asks for exists and is not read.
* `UsbGetRetryCnt` consumes a second `TDListDone` and then waits for a third,
  but only if the keyboard was slower than the program's sleep. Likewise a list
  that is started again just as its report comes in asks with the toggle of the
  report before. If another key changes before the program has written the next
  poll, that report counts as a repetition or is stored over the first, and from
  then on every poll has the other toggle. The toggle is
  not reset for a second keyboard either. `late`, `Overrun` and
  `plugs = 1` in the properties of `UsbHost` name these cases, and the properties
  do not cover them. When the keyboard is removed the port
  keeps the last keycode and Mario keeps walking.

## 5. Proofs

`MarioProofs` proves, for every window of at least 5 x 2 blocks in which the
coordinates fit the registers, every step of at most half a block, every jump
length, and *any* keycodes and polls: type correctness, `InPicture`,
`FlagsAgree`, `JumpHeight`, `NoDoubleJump` and `SmoothMotion`.

The assumptions are `PlayfieldAssumption` and `MarioAssumption`; TLC evaluates
them for every configuration. The inductive invariant `IInv` is the conjunction
of `YInv` (vertical registers) and `XInv`. None of its parts is inductive alone:
that Mario does not sink below the floor when a jump is cut short needs
`JumpHeight`; that he does not rise above the ceiling needs to know that any
position beyond it is part of a jump; that a jump starts only from ground needs
`is_jumping => Jump_Counter > 0 \/ Falling`. `YExact` shows that inside the
invariant no vertical sum wraps, so that `W10` is the identity there; then
`VerticalStep` and `HorizontalStep` treat the halves of a frame branch by
branch, and `StepInv` puts them together. The action properties follow from the
same two lemmas.

`MarioSpriteProofs` proves `TimerSettles`, which is inductive by itself, for any
window and motion. `VgaProofs` proves the type invariant of the VGA controller
and `SignalsMatchPixel`, for every raster that meets `VgaAssumption` (each sync
pulse lies behind the visible part and inside the total): the signals are
computed from the counters' next values, so a `Pixel` step makes them agree, and
`VisibleOutsideSync` is the arithmetic that keeps drawing out of the pulses.

`PictureProofs` proves `RightPixel` for every raster and every legal scene: the
figures' edges do not wrap (`FigureCorner`), the 10-bit difference minus 4 is
congruent to the distance from the corner modulo 40 (`FigureOffset`), coins sit in
the middle of cells (`CoinCorner`), and the sum stays below 16 bits (`SumExact`).
Here the numbers are those of the board, since the code is right for no others.

`ToplevelProofs` is about the composition, for every window, raster, level, step
size and behaviour of keys and button that the assumptions of `Playfield` and
`Toplevel` admit, so that a jump, a goomba and a scroll meet in every order. It proves

* `TypeOK`, field by field from the ranges of each component's assignments;
* `DeathIsClean`, `AwardsAreSingle` and, if the button is never pressed,
  `ResetComplete`. `ClockInv` says when a frame begins: on a posedge of VGA_CLK,
  with the counters at the origin since the posedge before. `DeathInv` is the protocol
  of a death: from the fatal frame to the reset the counters are past the origin, and
  `Reset_h` is up when the VGA counters look at it, so that it has come and gone
  before the next frame. Pressed at the wrong time, the button makes `Reset_h` fall on a
  posedge on which the VGA counters do not step, so the hypothesis
  `Buttons = {FALSE}` is needed;
* `GameRefinesMario`: the game implements `Mario`, whose polls are chosen freely,
  with the polls the board answers. With `MarioProofs` instantiated (`MP`), the
  invariant and the step lemma proved there hold in the game (`MarioInGame`);
* `BoardIsLevel` and `OnlyBricksVanish`. The memory answers two posedges after its
  address changes, so `MemoryInv` has to know that two scrolls are at least a
  frame apart (`ShiftsNextWord`); `BoardInv` says that the columns are consecutive
  words less some bricks, also while a reset fills them with one word. The lemmas
  `WholeCell`, `HeadOffset`, `SliceCells` and `ClearSliceType` are about slices: at the
  offsets Mario's head reaches, one of which is no multiple of three (above the
  window the row wraps), a slice that reads as a brick is a cell. That is a
  property of the level's data: two cells read across their border may look like a
  brick. `NoFalseBricks` says which must not, and TLC evaluates it on the level
  the board is built with (`BoardFits` in `LevelData`), with the board's numbers;
* `CoinInOwnColumn`, from `PipeInv` (which word each of the registers between
  memory and coin holds) and `CoinInv`, under `[]~Reset_h`: a death while a coin
  is pending drops it into the new game, where no column announces it (TLC shows
  such a death in a level with coins and a goomba);
* `GoombaOnScreen`, under three assumptions on the constants that TLC evaluates with
  the board's numbers and its level (`BoardFits`): `NoFalseBricks`; `GoombaFits`,
  which is about the numbers (room for a scroll on the left, a step of one pixel, a
  reach two pixels short of the figure's side, and no lookup above the window that
  wraps into the bottom row); and `OpenGround`, that every ten words in a row have a
  gap in their ground and that the ground is open in a goomba's word, in the one before
  it and in the word a reset shows. The argument has four parts.
  `MarioAbove` says that Mario is never so deep in a column with a block at the bottom
  that he could jump from there; hence `GroundNeverBreaks`, although his head is
  looked up in the bottom row whenever he stands on the floor. `SpawnInv` relates the
  memory's two registers to the newest column: the word shown is an old one for two
  posedges, and a goomba whose bit it carries must come in on open ground even then,
  also when a reset falls in between. `GoombaAt` says where a goomba can be: `InRange`
  (one step before the right edge it has turned), `TurnedBefore` and `TurnedInside` (it
  goes at most one pixel into a block and comes out again, so that it never goes left in
  one) and `WayOut`: a goomba that a scroll has closed in walks right, through the
  blocks, and an open column stops it before the edge. Without a gap it would
  leave the screen on the right. `WalksOn` shows that a frame leads from one such place
  to the next, case by case where the left lookup is (outside the window, in a block,
  in the open), and `GoombaCarried` that a scroll does, for which `OpenAfterShift`
  finds the gap among the words now shown. (The figures of the run `goomba` have
  half size 2, too small for such a reach: it checks the property in a
  geometry next to those of the theorem, which holds of the board's own numbers);
* `ScrollIsRigid`, under the same assumptions: `ScrollsWithGoomba` shows it while the
  goomba is on the screen, since one outside could wrap.

`HpiBusProofs` proves `TypeOK`, `NoBusFight` and `AddressSteady`, for any memory and a
reset on any posedge, and `RefinesRegisterFile`. Which access comes next is read off
the calls (`TodoOK`: what is left to do is the end of the sequence of the call in
progress), and so is what the ports show at each place in a call (`PortsOK`). What
holds of the pins even with resets is `AddressOK`, `ChargeOK` and `PinsOK`; without
them they show the place in the call of one posedge before (`PinLines`, `Place`), and
`AccessOK` says what the chip and the data register hold, given how long ago the last
access was. From these each posedge maps to a step of `RegisterFile` or to a
stutter. `HpiAssumption` asks for `Gap >= Access + 2` and nothing else of the
processor's pace. The proof attempt also showed that two arms of the count of
the chip's access time overlapped, where TLA+ leaves the value open; they are
disjoint now.

`JtagUartProofs` proves, from `UartAssumption` only (any length of ring and FIFO,
any threshold, any timeouts and numbers of bytes), that Spec implies
`TypeOK`, `NoByteForgotten`, `NeverDeaf`, `Output!Spec` and `InputIsChannel`: both
directions implement `ByteChannel`. The invariant `IInv` says what each ring
contains: the bytes `received + 1` to `written` are in the FIFO and then in the
transmit ring from `tx_out` to `tx_in` (`OutputOK`), followed by a stretch copied
but not committed (`ChunkOK`); the bytes up to `sent` are in the receive ring,
those included that a read has copied and not yet released, and then in the FIFO
(`InputOK`, `CopyOK`). It is needed because an index moves one step after its bytes, and
because the stretch the program works on was measured with indices that are old
by then: `RingShape`, `RingPut`, `RingGet`, `RingFull` and `Stretches` show that
the other side can only make it longer. `TypeOK` follows from the channels: a byte in a
ring or FIFO is at most the last one written or sent, which the bounds on the
program's calls limit (`BytesOK`, `TypedOK`). Steps that leave a direction alone are
dealt with by `OutputFrame` and `InputFrame`. The refinement follows because each
step maps to `Send`, `Receive` or a stutter.

`UsbHostProofs` proves `TypeOK` from `UsbAssumption` (any keys, any limits on the
reads of the connection, any number of keyboards and late lists), and, if the
firmware does not report the list pointer 0x576 (`~StrayReports`, see section 3),
`NeverRefused`, `EnumerationEarned` and `KeycodeIsAKey`. The first half is about
the lists as data: `Asks` is the form a list must have, and `RequestAsks` that each of
the nine requests has it, toggle by toggle and buffer by buffer (`Fits`). The second
half is the invariant `IInv`, of which no part is inductive alone. That an old
`TDListDone` is not taken for a new one (`MessageOK`) needs to know that the list in
memory is the request's (`ListOK`) and that the program sleeps until the chip is
done with it; that the keyboard is ready for the next descriptor (`KbOK`) needs
that the firmware carries out a bus reset before it runs a descriptor
(`CommandOK`); that a "done" in the control byte is worth something (`EarnedOK`)
needs that a descriptor after the first fails only if the keyboard is gone, which
is `NeverRefused` (`HeardTakes`); and all of it needs that a poll cut short by
unplugging finds no keyboard that would answer it (`LeftOK`). `FreshOK` follows the
first poll, whose toggle must be the keyboard's. These parts hold as long as
`late = 0`: a list that takes longer than the program sleeps is really started
again while it runs, and then TLC finds all three properties violated.

Every safety property of a passing run is a theorem, but for the first half of
`KeyReachesGame` (no keycode is replaced unread). Only model-checked besides is
liveness (`JumpEnds`, `DeathRestarts`, `FramesForEver`, `FrameComes`, `NoOtherHang`,
the second half of `KeyReachesGame`, `WriteReturns` and the arrival half of
`OutputArrives`), since fairness and ENABLED are beyond the prover.

## 6. Not modelled

* The pipeline of the picture (two posedges through sprite memory and palette),
  the bitmap and palette, the hex displays, and the goomba's two sprite registers:
  they feed nothing back, and the delay is described in section 4.
* Power-up without the reset button: registers without reset are undefined then.
* The mailbox and status ports in `HpiBus` (plain registers on the same path), and
  the chip's firmware beyond what the program asks of it.
* `cy7c67200.h`, `lcp_cmd.h`, `lcp_data.h`, `system.h` and the headers of the board
  support package are several thousand lines of register names; the few values
  the program uses are in `UsbHost`, and the others stand for nothing it does.
* The Nios II system, the board support package (start-up code, device lists,
  alarms without a clock to run them, logging and profiling that is not compiled
  in), the PLL and the constraints are generated or vendor code the program does
  not reach, the UART driver excepted. Its variants for small drivers and for
  uC/OS-II are not built.
* `tristate.sv` and `block_array_backup.sv` are not instantiated; `UsbPrintMem` is not
  called; `HexDriver.sv` is a table.

## 7. Plan

Done: the game posedge by posedge and its parts, the picture, the HPI path with
its abstract specification, the USB software with hot plug and retries, the UART
driver with its abstract specification; proofs about Mario, the game as a whole,
the VGA controller, the picture, the HPI path, the USB software and the UART driver.
Next, in this order:

1. `GameFrame`: one step per frame, as the abstract specification of
   `Toplevel`, with the refinement checked by TLC; contact and squish on it with
   the board's numbers.
2. `UsbHost` over `HpiBus` instead of atomic accesses: what a death of Mario in the
   middle of an enumeration does to it.
