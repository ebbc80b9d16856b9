# A TLA+ model of X-Boot

X-Boot is the boot loader of boards with Ingenic JZ47xx processors. A small first stage (`src/spl`) sets up clocks
and memory and loads x-boot (`src/boot`) from raw NAND or from an MMC/SD card (MSC). x-boot decides between a normal
start, recovery and a fastboot session over USB, in which a host downloads images and has them flashed.

The modules here follow the JZ4780 build for the warrior board: with `CONFIG_NAND_X_BOOT` (sources `jz4780_nand.c`,
`jz4780_poll.c`, `jz4780_init.c`, `jz4780_usb.c`), `FAST_BOOT_SUPPORT` and `CONFIG_XBOOT_LOGO_FILE`; `CardSession`
follows the sources of the boards that boot from a card, with the table of mensa (`configs/mensa.h`) and the fastboot
commands of the JZ4775 (`jz4775_poll.c`), not the warrior's own `CONFIG_MSC_X_BOOT` build. There is one thread and no
operating system: what makes the code hard is the hardware it talks to (failing pages, bad blocks, read voltages, FIFO
entries, interrupt bits, a card in the wrong state, a bus device that refuses a byte), the host on the other side of the
cable, global state that outlives a command, and resets.

## 1. The system

| Component | Source | State it keeps | Operations | Talks to |
|---|---|---|---|---|
| raw NAND write and read | `boot/nand/jz4780_nand.c`, `boot/usb/flash.c`, `boot/nand/nand_boot.c` | the chip: pages, bad block marks; cursors of the write loop | erase a partition, write an image with retries, mark a block bad, read an image | called by the fastboot commands and by boot selection |
| loading x-boot, read retry | `spl/nand/jz4780_nand.c`, `spl/nand/nand_boot_jz4780.c`, `boot/nand/nand_retry.c`, `boot/common/xbootimg.c` | page cursor; the voltage the chip was given last, the counter of settings in each stage | find the header, load x-boot past bad blocks, find a logo, read a page again at another voltage | boot ROM before, boot selection after |
| fastboot partition commands | `boot/usb/jz4780_poll.c`, `boot/usb/flash.c`, `boot/usb/board.c` | the partition table in RAM, the download buffer | `flash:`, `erase:`, `download:`, `reboot-bootloader` | the protocol loop above, NAND below, the converter for file system images |
| image converter | `boot/usb/nm/convert_img.c`, `boot/usb/nm/APP_vNand.c` | `count`, `byteoffset`, the ring `write_data` | one chunk into the NAND manager, one finished block to `flash_write` | the NAND manager (library without source) calls back |
| fastboot protocol over USB | `boot/usb/jz4780_poll.c`, `boot/usb/jz4780_init.c`, `boot/usb/jz4780_usb.c` | the shared `USB_STATUS`, `cmd_downloadding`, `rx_length`, `Bulk_Data_Size` | the poll loop and its five handlers, ten commands | the host, through the FIFOs of the controller |
| card driver, MSC boot and MSC flash | `boot/msc/cmd_msc.c`, `boot/msc/msc_boot.c`, `boot/usb/card.c` | the card's state, the first-read flag, sectors | identify a card, read, write and erase, start a partition | the card; the fastboot commands |
| boot selection | `boot/third/third.c`, `boot/nand/boot_msg.c` | keys, scratch pad signature, message in `misc` | choose normal, recovery or fastboot | NAND read; the started system |
| I2C and PMU | `boot/common/simulate_i2c.c`, `boot/common/*_power.c` | pin levels | byte protocol, page writes, retries; regulators | LCD, boards, charging |
| battery, charging, hibernation | `boot/common/pm.c`, `boot/board/warrior/jz4780_warrior_special.c` | samples, two flags, the reset status | measure the battery, charge loop with its animation, idle, hibernate | power key, charger pins, SADC; boot selection after |
| SPL MSC loader | `spl/msc/msc_boot_jz4780.c` | RCA, card type | identify a card, read x-boot | the card |
| image container, second stage | `boot/common/xbootimg.c`, `boot/second/second.c` | header | decompress, jump | SPL before, boot selection after |
| signature check | `boot/common/rsa_verify.c` | none | verify an image | second stage |
| LCD, HDMI, logos, boards, console, DDR and clock set-up, cryptography, host tools | see PROJECT.json | registers | no control of their own, vendored or generated | |

How the modelled ones interact. The poll loop of the USB driver receives a command into `Bulk_Out_Buf` and, at the end
of the turn, `jz4780_handle_fastboot` executes it synchronously. `flash:` checks the boot magic for boot and recovery,
erases the partition through the table entry and then either hands the whole download buffer to `flash_write` (raw
partitions) or runs the converter, which feeds the NAND manager chunk by chunk and gets pages back through
`em_vNand_MultiPageWrite`, and calls `flash_write` once for each finished
erase block; what is left in its ring at the end is lost. `flash_write` calls
`nand_write_nooob` and, because `IMG_CONVERT_TO_BIN` is defined, moves the table entry behind what was written. A later
start reads the partition at its compiled-in offset (`nand_boot`), not through that entry. Reader and writer of the NAND
share no map of bad blocks: both skip blocks by reading the marks themselves. On a card the same commands end in
`msc_write` and `mmc_block_erase`, and the start in `do_msc`; what they share is the card itself, which stays in the
state a failed transfer left it in, because nothing but the first read of a start initialises it. The stages that read
NAND share the chip's read voltage and nothing else: each counts the settings on its own.

What is hard, and what makes each part correct:

- *NAND*: a page fails in the middle of a block and the cursors have to be rewound; marking a block can fail; power
  fails at any point. Correct means: the reader finds every page where the writer put it, bad blocks are not
  programmed, other partitions are not touched before this one is used up, the retries end, and a half-written
  partition is never started as the old image.
- *Loading*: a page may read at one voltage only, and the search begins wherever the page before it left the circle, in
  a stage that may not be the one that counts now; bad blocks shift what is behind them. Correct means: no page is given
  up that reads at some voltage, the pages delivered are the image's, and loading ends.
- *Partition commands*: the entry moves, so what a command does depends on the commands before it. Correct means: x-boot
  survives every command for a partition of the table, a partition that boots keeps booting, and no block is programmed that was not erased.
- *Converter*: two globals and a local count the same blocks. Correct means: the blocks come out complete, in order,
  none lost.
- *Protocol*: three FIFO kinds, two endpoints and one status; a client that is stopped and started again. Correct means:
  every packet is taken for what it is, every reply belongs to the command that is waiting, OKAY means that the data is
  there, and every command is answered.
- *Card*: errors are ignored by every caller, and the card keeps what was open. Correct means: what was answered OKAY is
  on the card and stays there through other commands, failed transfers and power cuts.
- *I2C*: two pins, nine clocks a byte, restarts in the middle of a transfer, a device that does not notice a reset.
  Correct means: a register file, one call at a time.
- *Boot selection*: a request has to survive resets until it is served and must not be served twice.
- *Charging*: a charger that comes and goes at any look, a key that is held for a moment or for long, two loops one inside
  the other and two flags between them, a measurement of one battery by twelve samples. Correct means: a board that was
  plugged in only charges until somebody holds the key, one that is unplugged stops, an empty battery starts nothing and
  one that is not empty is not refused.

The hazards are listed in PROJECT.json at the line where they bite, with the property that covers each one.

## 2. The modules

| Module | Models | State | One action is |
|---|---|---|---|
| `NandImage` | writing one image with `flash_erase`/`nand_write_nooob`, reading it with `nand_boot`/`do_nand` | chip (`cell`, `marks`), the writer's locals (`curblk`, `pagecnt`, `cur`, `rem`, `try`), the reader's (`rblk`, `rpg`, `rcnt`, `dst`), the download buffer `src` | one device operation: erase a block, program a page with its read-back, mark a block, read a page, look at a mark |
| `NandLoad` | `nand_load` of the SPL, then the header and one `get_image` of x-boot; `nand_read_page` of both with `set_read_retry_data` | bad blocks, at which voltages each ECC step of each page reads, the voltage set (`level`); stage, `count`, `page`, `tries`, `step` | one look at a block, one try to read a page (SPL) or an ECC step (x-boot), the hand-over |
| `FlashSession` | `do_cmd_flash`, `do_cmd_erase`, the table of `board_init`, `flash_write`'s move of the entry | `cell` and `bad` by block, `ptable`, `buf`, the command being executed (`job`) | one command up to its first block, then one block |
| `ConvertImg` | `start()` and `em_vNand_MultiPageWrite` | `count`, `byteoffset`, `blocknum`, the ring, the blocks passed on | one chunk, one look at `count` |
| `Fastboot` | `jz4780_usb_poll` and its handlers, the commands as seen on the cable, a client | the FIFO, the snapshot of the interrupt status, `USB_STATUS`, setup packet, the three download variables | one handler of one turn of the loop, or one packet of the host |
| `CardSession` | `mmc_init`, `mmc_block_readm`, `mmc_block_writem`, `mmc_block_erase`, `msc_boot`, `flash_write`, `do_cmd_flash` and `do_cmd_erase` of a card | the card's protocol state, its sectors, RAM, the first-read flag, the chunk being written | one transfer of the driver, one command, a start, a power cut |
| `RegisterFile` | what a call of `simulate_i2c_read`/`simulate_i2c_write` promises | registers, the call, what it returned | a call, a byte stored, a return |
| `I2cBus` | `simulate_i2c.c` on its two wires, with the device at the other end | `scl`, `msda`; the device's receiver (`mode`, `n`, `shift`, `ssda`, `ptr`, `regs`); the driver's locals | one change or sample of a pin; what the driver does between two functions |
| `BootSelect` | `boot_main` over many starts, from the boot keys on | keys, scratch pad, message, cable, counter | one decision of a start, or one thing the system or user does |
| `BootStart` | the whole of `boot_main`: `board_private_init` and `low_battery_judgement` before `BootSelect` | the place in pm.c (`at`), pins, battery, `wr`, the two flags, the samples | one sample, look or decision of pm.c, a change of a pin or of the battery, or a step of `BootSelect` |

`MCFlashSession` gives `FlashSession` a table: x-boot in block 0, then boot and system with two blocks each.
`MCCardSession` gives the card partitions that touch, `MCNandLoad` the ways pages may read, `MCI2cBus` the calls,
`MCBootStart` what the SADC may read at each level of the battery. `NandImageProofs`,
`I2cBusProofs`, `NandLoadProofs`, `FlashSessionProofs`, `CardSessionProofs`, `FastbootProofs`, `ConvertImgProofs`
and `BootProofs` (for `BootSelect` and `BootStart`) hold theorems. The modules meet at these points: `FlashSession` sees a block
as one step because `NandImage` shows what the retries inside it come to; the OKAY that `Fastboot` delivers for `flash`
and `erase` stands for the end of a `FlashSession` or `CardSession` command; `BootSelect` starts what `NandImage`'s reader
reads; `FlashSession` takes from the converter which blocks it hands on, as `ConvertImg` has them: not the last one, unless it
ends in the middle of the ring, and one of 0xff first when `count` is left over from an earlier image; `BootStart` extends `BootSelect` and refines it: what happens before the boot keys are looked at is a reset or
nothing; `NandImage` takes a page that reads right for one step because `NandLoad` shows what the retries come to.

`I2cBus` implements `RegisterFile`: the variables `regs`, `call` and `ret` are the abstract ones, and `Implements` says
that every pin operation is a step of the register file or leaves it alone. The abstract specification says what the
drivers above rely on and what they do not get: a failed write may have been done in part, and a read whose second
address is refused delivers the bytes of a bus that nobody drives (`ReadAddress` drives the acknowledge itself and does
not look). There is one more exception. The driver has no sequence that frees the bus. A CPU reset that finds the device
holding SDA low leaves the first START after it unheard, if SDA does not rise; `torn` marks that time. A write may leave
the device where it was; a read that is answered does not (`ReadResyncs`), whatever the device was in the middle of: the
last byte and its acknowledge are clocked with SDA released, and a device that sends is told within as many clocks that
it is enough.

Abstractions. Pages and blocks hold the number of the piece of image they contain, or a mark for blank, junk, 0xff or a
neighbour's data; ECC is its outcome (right, blank, uncorrectable), in `NandLoad` the set of voltages at which it is
right. Marks are the number of zeroed marker pages of four,
32 bits each, compared with 64 as in `nand_block_is_bad`. Transfer sizes are in units of which `MaxPkt` fill a bulk
packet. Commands are names; their arguments are the partition name, or the size of a download. A sector of a card is the
number of the sector of the image it holds. The history
variables (`at`, `abandoned`, `unerased`; `first`, `told`, `hurt`, `nameless`; `carried`; `mixed`, `broken`, `crossed`; `start`, `got`,
`xgot`; `sound`, `kept`; `torn`; `wanted`, `owed`; `charged`, `pressed`, `alone`) are only read by
properties. Definitions named "Mutant of ..." are plausible mistakes in the operator that follows them; no specification
uses them.

External parts, modelled from how the code uses them: the fastboot client (one command at a time, full packets and a
last one with the rest; it may be stopped in a data phase and started again), the host's control requests, the receive
FIFO (bounded, in order), the NAND manager (writes its pages in order and adds at most `MetaMax` sectors to a chunk), the
card's state machine, the I2C device, the tool that burns x-boot, the battery with its charger and SADC, the power key,
the user and the started system.

## 3. What is checked

| Run | Properties | What it shows |
|---|---|---|
| `nand_write` | `TypeOK`, `IInv`, `ReaderFindsImage`, `SpillOnlyWhenFull`, `OldHeaderMeansOldImage`, `BadBlocksUntouched`, `WriteTerminates` | any pattern of factory bad blocks, program and erase failures, failed and partial marks, blank read-backs; power fails at any step, `nand_boot` reads the result, and finds the image if every block given up counts as bad |
| `nand_readback` (violated) | `FlashedIsDownloaded` | finding 1 |
| `spl_nand` | `TypeOK`, `GivenUpOnlyIfUnreadable`, `XbootTriesAll`, `OnlyBlockHeadsMisread`, `GetImageFinds`, `LoadEnds` | x-boot loaded past any two bad blocks and two pages that read at some voltages only, from any voltage a reset leaves |
| `session` | `TypeOK`, `XbootKept`, `BootsFirstFlash`, `NoJunkInside` | raw and converted flashes and erases, of unknown names too, restarts and power failures in any order: nothing but a command for an unknown name costs x-boot a block |
| `session_okay` (violated) | `FlashedImageBoots` | finding 2 |
| `convert` | `TypeOK`, `FirstImageInOrder`, `OnlyLastBlockLost` | up to three images of many lengths, the manager's sectors falling anywhere |
| `fastboot` | `TypeOK`, `RepliesMatch`, `PacketsSorted`, `OkayMeansStored`, `EveryCommandAnswered` | all commands, the erases that hang among them, downloads of no bytes, a full FIFO, restarts, control requests at any time, clients stopped in a data phase |
| `card` | `TypeOK`, `HeldOnDisk`, `BootsFlashed`, `Contained` | images flashed and erased over many sessions, a failed transfer, a header that is none, a power cut in anything |
| `card_erase` (violated) | `EraseStaysInside` | finding 4 |
| `i2c` | `Implements`, `ReadResyncs`, `CallEnds` | reads and writes pin by pin, a device that refuses any byte, a reset at any clock |
| `select` | `StartTypeOK`, `GoodBatteryStarts`, `RecoveryComesFirst`, `NoUnaskedRecovery`, `ChargesUntilPressed`, `LowBatteryStops`, `UnplugEndsCharge`, `SelectEnds` | the whole start: chargers plugged and pulled at any look, a battery that fills and empties, keys that bounce, resets, damaged boot image, requests in misc and scratch pad |
| `select_recovery` (violated) | `RecoveryHonoured` | finding 3 |

Some properties have a premise because the code does not give more; the runs reach the states on both sides of it.

- `GivenUpOnlyIfUnreadable`: the SPL's counter starts at 1, as if the chip stood at setting 0. After a reset that left it
  elsewhere the first page in trouble goes round the circle without setting 0 (`start # 0`), once.
- `OnlyBlockHeadsMisread`: `nand_load` looks for bad blocks at `page` and reads `page + image_offset`; with the offset 1
  of this board the first page of a block behind a bad one is read from the bad block.
- `ReaderFindsImage` has as its premise that every block given up is marked bad. A mark that fails or reaches too few
  pages leaves a block that the reader takes for good; the code has no answer to that.
- `GetImageFinds` has as its premise that no block below the image is bad: `get_image` counts pages from where x-boot
  should be.
- `XbootKept` leaves out the blocks that a flash or erase of the entry without a name reached (`nameless`): `flash:` with
  a name that `do_cmd_flash` does not know goes to block 0, over x-boot, and is answered OKAY.
- `BootsFirstFlash` promises a converted image without its last block (`Sure`), since the converter loses it unless it is
  whole and ends in the middle of the ring, and one block later when `count` had been left over (`first[p].lead`), which
  puts a block of 0xff before it. A raw image is complete and begins at the partition's first block.
- `EveryCommandAnswered` is about getvar, flash, download and the erases that return. `fastboot_protocol.txt` promises a
  response to every command; an unknown command, an erase of misc or of an unknown name (which hangs), the data phase of a
  download of no bytes and the commands that leave x-boot get none. The run has all of them.
- `RepliesMatch`, `OkayMeansStored` and `EveryCommandAnswered` hold while `Orderly`: no client has been stopped in a data
  phase (`broken`) and no control request was answered in the same turn in which a reply was set up (`crossed`).
  `PacketsSorted` counts instead: of every stopped client at most one later packet is taken for the wrong thing.
- `FirstImageInOrder` and `OnlyLastBlockLost` hold up to the first image that fills a block (`carried = 0`): `count` is
  never reset.
- `HeldOnDisk` and `BootsFlashed` are about a partition that was answered OKAY in a session without a failed transfer,
  because `msc_write` returns 0 whatever happened. A partition that was itself flashed in a session with a failure or a
  cut, or that a longer image reached, holds anything: nothing is promised about it. `BootsFlashed` is about starts that
  read without an error: after one, `init_boot_linux` looks at the magic only and may start what is left in RAM.
- `LowBatteryStops`: `read_battery` looks for a new maximum only if the sample is no new minimum. If every sample is
  lower than the one before, the maximum stays 0 and nothing is left out for it: twelve samples are divided by ten.
- `GoodBatteryStarts`: a good battery is refused with a charger plugged in (`charge_detect` does not look after a watchdog
  reset, `bat_voltage_filter` still takes off what a charger adds) and when the SADC times out, which reads as 0.

Bounds and why they are enough.

- `NandImage`: blocks of two pages have a first and a last page, so a program can fail at the first page, in the middle
  and at the block boundary; three pages of image need two blocks and end inside one; the partition has two blocks and
  the chip one before it and one behind it, so every bad block makes the image spill into a neighbour or off the chip,
  and a write below the partition would be seen. `PartialMarks = {2}` is the largest number of marker pages that does
  not make a block bad (64 bits are not more than 64). Deadlock is not checked: the write and the read end.
- `NandLoad`: four blocks of two pages from x-boot on; two of them bad, so a page of the image lies behind none, one or two bad
  blocks, adjacent or not; two pages in trouble, so that the second search begins where the first one stopped; three
  voltages are the fewest that tell the first, the last and the others apart; two ECC steps of a page, correctable at
  different voltages. Code of one page is enough for the hand-over to depend on what was loaded.
- `FlashSession`: images of one and three blocks, one of them with the boot magic, against partitions of two; one bad
  block anywhere above x-boot; a chip of five blocks, the end of which the writer can run off. A converted image of
  one block may leave the converter whole or not at all, behind a block of 0xff or not; one of three goes into the
  neighbour. Sessions are unbounded: entries move until they reach the end of the chip. system is the one converted
  partition here; userdata and cache, whose window is erased before every block, are covered by the theorems.
- `ConvertImg`: blocks of eight sectors, chunks of three plus up to two sectors of the manager, so that a chunk ends
  before, at and behind every boundary of the ring; lengths from one sector to five blocks, three images one after the
  other. `SectorBytes` is a multiple of `PagesPerBlock`, as 512 is of the pages of a block of this board.
- `Fastboot`: packets of two units and downloads of 0, 2 and 5: none, exactly one packet (no short packet at the end), and
  several with a short one; a FIFO of two packets, so that it fills while the loop waits for the host; two stopped clients,
  so that a second one meets what the first left.
- `CardSession`: nine sectors, chunks of two, images of a full chunk and a rest, one too long for its partition, and one
  without the magic whose rest is shorter than a sector; boot and recovery touch. A header that is none asks for any
  number of sectors up to the whole card, so also past its end. One failed transfer is enough to leave the card deaf in
  every state, one cut hits every step.
- `I2cBus`: bytes of three bits (two of address), so that a byte has a first, a middle and a last bit; writes of one and
  three bytes with pages of two, so that a write goes on in a second transfer; reads of one and two; two tries; one
  reset at any pin operation.
- `BootSelect`: `count` runs through its eleven looks; nothing else counts.
- `BootStart`: three samples are the fewest of which two can be left out; two looks for the charger, for the long press
  and for the animation, so that each loop has a first and a last one. The SADC reads 8 to 10 for an empty battery, 11 and 12
  for a good one, 0 or 12 for a full one, around a limit between 10 and 11; the charger's share is larger than that gap.
  That the number of samples and their values do not matter is a theorem.

Fairness. x-boot is one thread that never blocks except in the loops that are modelled: weak fairness of its next step
(`Write`, `Read`, `Load`, `Handler`, `Drive`, `Pm`, `XBoot`). In `Fastboot` a client that has begun a command goes on: it sends
its data and reads the reply (`SendData`, `XferComp`); nothing makes it begin a command, send a control request or restart.
Without that the code waits for the host for ever in `handle_inep_intr`, which has no timeout. In `I2cBus` the device owes
nothing: it may refuse every byte. In `BootSelect` and `BootStart` no key, cable, charger
or reset is fair; `UnplugEndsCharge` has the pulled cable as its premise.

## 4. What is proved

Theorems hold for every value of the constants that satisfies the named assumptions.

- `NandImageProofs!TypeCorrect`, `ReaderCorrect`, `BadBlocksSafe` (from `GeometryAssumption`, `FaultsAssumption`: at
  least two pages in a block, a partition inside the chip, any set of faults). `ReaderFindsImage` says nothing about how
  the write went, so it is not inductive. `IInv` adds: `BookInv`, `cur` and `rem` always add up to the image, through
  every rewind; `ChainInv`, the pages written so far form a chain in which each page follows the one before in the
  same block, or starts the next block that was not skipped, and hold what the buffer holds; `FrontierInv`, the block
  the writer stands at is the end of that chain and nothing below it will change again (no block below it is erased or
  marked later, which is why reader and writer agree about bad blocks although they look at different times);
  `ReaderInv`, the reader stands on the chain too. Each action of the writer has a lemma that it preserves the chain,
  the reader's that its next page is the chain's next page.
- `NandImageProofs!InvariantCorrect`, `SpillCorrect`, `OldHeaderCorrect`. Spilling is decided
  long before it happens, so `SpillInv` says where the writer has been: every block below it in the partition is full,
  that is bad, given up or holding pages of the image, and a touched block outside the partition lies between its start and
  the writer, with all blocks of the partition full. For the power failure `OldInv` follows the erase: as long as it has
  not reached the first good block, the old image lies untouched from there on, counted over the good blocks
  (`Count`), and once it has, nothing writes the old header again; `OldReader` says that what the reader took from an
  intact partition is the old image.
- `FlashSessionProofs!XbootSafe` (from `TableAssumption` and `ImagesAssumption`; the host may use any names): no sequence
  of commands changes a block below the first partition, but for the blocks that a command for the entry without a name
  itself wrote or erased (`nameless`). The invariant behind it: every entry of the table with a name stays at or above its
  partition's offset, and the writer at or above the first partition, since entries only ever move up; the last entry,
  without a name, begins at block 0. `TypeCorrect`, `NoJunk` and `FirstStays` need nothing of the host's names either,
  since `hurt` follows the partitions that are reached from outside. Their invariant `SInv` has two parts per
  partition. `Entry`: its entry is the compiled-in one until the first flash of the session ends, and behind that
  image's first block from then on. `Kept`: a partition that nobody else reached is untouched in this session, or
  erased and blank from the entry on, or holds the first image from its offset with blank blocks behind it, as many of its
  blocks as the converter is sure to hand on, behind a block of 0xff if it put one first.
- `NandLoadProofs!XTriesAll`, `SplTriesAll`, for any number of levels, ECC steps, pages and bad blocks. The chip keeps
  its level, so a search begins wherever the one before left off; `Tried` describes the levels tried before the present one
  as an arc of the circle, by what the counter of the stage and the level say of each other. In x-boot the two may
  disagree only at the first try, in the SPL only while no page has been in trouble (`OutOfStep`), and that
  costs level 0 for that one page.
- `CardSessionProofs!KeptCorrect`, `BootCorrect`, `ContainedCorrect`, `CardTypes` (from `CardAssumption`: partitions and
  images lie inside the card, there is a longest image). The arithmetic comes first: the chunks of `flash_write` and its rest, divided
  into sectors each, are the whole sectors of the image (`ChunksOf`), and a chunk ends where the next one begins
  (`ChunkPlace`); nonlinear division is reduced to `DivUnique`. `KeptInv` adds to `HeldOnDisk` that what is relied on fits
  into its partition; `FlashInv`, that a flash under way reaches no other partition that is relied on and, if nothing has
  failed, has put all its chunks so far on the card. `BootInv` follows a start: after the header its first sector is in
  RAM, so the length read from it is the image's, and after the body the rest is too; what is read behind a sector without
  the magic is never started, because the read leaves that sector where it is. `CardTypes` is the type invariant; what a
  read brings is on the card whatever it was asked for, because the card refuses what lies behind its end.
- `FastbootProofs!TypeCorrect`, `RepliesCorrect`, `SortedCorrect`, `OkayCorrect` (from `FastbootAssumption`: a packet
  has at least two units, the FIFO room for one). The device decides by `cmd_downloadding` alone what a packet is, the client
  by the reply it has read, and between the two lies the FIFO. `ModeInv` names the eight states the two can be in
  together: `Idle`, `Sent`, `Taken`, `Answered`, `Flow`, `Over`, `Stale` and `Hung`. In `Flow` the packets in the FIFO carry the
  buffer's length to what the client has sent so far (`Stream`: a function on the entries counts the data that has
  arrived when each is popped), so the last packet is the one that completes `rx_length`, short or not. `Stale` is the open
  phase of a client that was stopped, paid for by `mixed < broken`. `Answered` is where a control request could take the
  reply's place in `USB_STATUS`; it cannot, because a command is handled after the control requests of a turn and
  its reply is sent before those of the next one, which is what its places in the loop say. `SpinInv` ties a transfer to
  the endpoint it was armed for. The end of a data phase is armed before the control requests of the same turn: there the
  reply can be replaced, and `crossed` records it. Lemmas about the FIFO (`AppendStream`, `TailStream`, `TailBulk`, ...)
  come first; a step that changes nothing on endpoint 1 keeps every state (`StillMode`).
- `ConvertImgProofs!ConvertTypes`, `ConvertOrder`, `ConvertLoss` (from `SizesAssumption`). `count` sees the borders of
  blocks only through the place in the ring where a chunk ends and its own parity; `Passed` says how far the two can be
  apart: the stream has passed `count` borders and stands on the next one only where that is the end of the ring. A
  chunk shorter than a block passes one border at most, so every one is seen (`PassedStep`). `PipeInv` adds that what has
  not gone to `flash_write` is in the ring, at the place its number says (`RingPlace`, `RingApart`). The proof needs the
  chunk, with the manager's sectors, to be shorter than a block; with equality the property is false.
- `BootProofs!RequestHonoured`, `RecoveryOnlyOnRequest`, for every set of keys and of damaged images, with keys
  that bounce or not. The decision is taken some steps after the request, so the invariant `RequestInv` ties the history
  to what the code reads then: a request is owed exactly as long as the message says so, and the wait for a USB host
  is entered with the fast key only. `WaysToStart` lists the three steps that can start a system.
- `BootProofs!StartImplementsSelect`: every step of the power side is a step of `BootSelect` or leaves it alone (a
  hibernation is one of its resets, a decision of pm.c a stutter), so a board that charges or hibernates first behaves
  afterwards like one that does not; `StartHonoursRequest` is what follows for recovery. `StaysOff`, for every number
  of samples and looks: the invariant `PressInv` follows the long press from the place where it is seen (the charge loop
  or the animation, which only sets `flag` and returns) to the decision it allows.
- `BootProofs!TypeCorrect`, `StartTypeCorrect`: the type invariants of both, the second one with
  the bounds of every counter of pm.c, which hold only together with the place it is used at (`LookInv`, `FlagInv`,
  `DataInv`).
- `BootProofs!GoodBatteryCorrect`, `LowBatteryCorrect`, for any number of samples above two and any spread (from
  `AdcAssumption`, which says what the calibration is for: a sample of an empty battery is at most `Limit` in millivolts, one
  of another battery more than that unless it is the 0 of a time-out, and none is so large that `min` or the product
  overflows). `Between` is the invariant of `read_battery`'s loop: `low` is one of the samples, and what is left of the sum
  without `low` and `high` lies between as many smallest and as many largest samples as are counted by the division, one
  more as long as every sample was lower than the one before (`Descends`), when `high` is still 0. It is kept by a sample
  (`BetweenNext`) and so holds of `Reading` by induction; `MeanBounds` divides, `MillivoltsMonotone` carries the bounds
  through the calibration. `SamplesInv` says that the samples are those of the battery as it is when they are judged.
  `AloneInv`: a start without a charger never gets to the charge loop and has neither flag set, so only the voltage can
  take it on.
- `I2cBusProofs!Invariant`, `ImplementsFile`, `Resyncs` (from `I2cAssumption`), for bytes of any width, any calls, pages and
  tries, and a device that refuses what it likes. `IInv` has a part for each thing known of the two ends: the place of the
  driver (`PlaceInv`), SCL and the driver's SDA at each place (`WireInv`), what the device does with SDA (`DeviceInv`), when
  the two count the same bits (`StepInv`), when a device that sends is told that it is enough (`EnoughInv`), the locals of
  the call (`DriverInv`), the receiver's mode at each byte of a call (`ModeInv`), the registers (`RegsInv`) and the bits of the
  byte under way (`BytesInv`), for which the powers of two are needed. `ImplementsFile` maps every step to one of
  `RegisterFile`'s or a stutter; `Resyncs` follows from `EnoughInv`: a device that still sends has seen the released
  acknowledge by the time the driver stops.
- `NandLoadProofs!TypeCorrect`, `LogoCorrect`, `LoadCorrect` (from `RoomAssumption`: behind `MaxBad` bad blocks the chip
  still has room for the image and the logo. Nothing in `nand_load` or `do_nand` looks for the end of the chip, so
  without it they run off; TLC's chip has just that room). `SplPlace` ties the page to the number of pages copied through
  the good blocks below its own (`Before`), which bounds it; `PlaceIs` says where such a page was burned and `NextRead` which
  page the SPL reads instead. x-boot's reader only ever moves by whole bad blocks (`Skipped`), so does `get_image`
  (`XPlace`, `XFound`). `LoadCorrect` has `ImageOffset = 1` as its hypothesis: x-boot lies behind one page of header (mkxbootimg); with another offset more than
  the head of a block is read from a bad one.

Only model-checked: liveness (`WriteTerminates`, `LoadEnds`, `EveryCommandAnswered`, `CallEnds`, `UnplugEndsCharge`,
`SelectEnds`), which is out of the prover's reach. Every invariant and action property of a passing run, and the
refinement of `RegisterFile`, is the statement of a theorem.

`I2cBusProofs` and `BootProofs` use induction over the natural numbers, `NandLoadProofs` least elements. The library's induction theorems take the induction hypothesis as an
operator, which the provers cannot instantiate; `LeastElement` gets the same from a set: `WFMin`, for which the library has a
proof, gives each set of natural numbers a least element, and `NatSetInduction` follows by contradiction. A recursive
function is shown to exist by building its table one entry at a time (`TablesExist`, `ReadingsExist`).

## 5. Where code and documents disagree

Each of 1 to 4 is a run that ends in a counterexample and a finding in PROJECT.json with the quoted line.

1. `nand_program_page` reads a page back into the buffer it was programmed from. A page that reads back blank makes the
   write loop retry with the blank page, and `flash` answers OKAY.
2. The second flash of a partition in one session goes behind the first image, where nobody looks, and is answered OKAY.
3. `RECOVERY_BOOT`, from the recovery key or the signature in the scratch pad, has no case in `boot_main`; the signature
   has been cleared by then.
4. `mmc_block_erase` names the sector behind the partition as the last one to erase: erasing boot takes the header of
   recovery with it.

Seen on the way, in the models as the code has them, without a run of their own:

- NAND: an image that does not fit because of bad blocks goes on into the next partition (`SpillOnlyWhenFull` is the most
  that holds); an erase after a flash erases one block behind the image; flash errors are ignored, `flash_write` returns 0.
- Partition commands: `flash` with a name `do_cmd_flash` does not know uses the table's last entry, which is empty and
  starts at block 0, and is answered OKAY; an erase of misc, or of a name that is not known, ends in an endless loop of
  `ND_probe` with its OKAY set and never sent (storage is not in the NAND table and is refused).
- Converter: the test for the last converted block is never true, so that block is dropped (`OnlyLastBlockLost`); `count`
  is never reset, so a second converted image of a session begins with a block of 0xff.
- Protocol: an unknown command gets no reply; the reply of `reboot` and `reboot-bootloader` is armed but never sent, that
  of `boot` and `continue` is sent only when nothing was started; a download is accepted whatever its size, and one of zero
  bytes never ends; a short packet inside the data phase, which the protocol document allows, ends the phase on the device
  only and both sides wait for each other; a control request that completes in the turn of the last data packet replaces
  the OKAY by the descriptor; a client stopped in a data phase leaves `cmd_downloadding` set, so the next client's first
  command is stored as data; one stopped while a reply waits leaves it for the next client, whose replies are then one
  behind.
- SPL: an uncorrectable page is delivered like any other, and the head of a block behind a bad one is read from the bad
  block.
- Card: after a failed transfer the card is deaf until the next start, and every command is answered OKAY; the rest of an
  image that does not fill a sector is not written; a start does not look for the magic before it
  reads: a sector that is no header may give any size, past the end of the card or over x-boot, before the missing magic
  ends in an endless loop.
- I2C: the acknowledge of the second address of a read is driven by the driver itself, so an absent device reads 0xff; no
  clock sequence frees the bus after a reset.
- Battery: the maximum is not found when the samples fall, and a battery that is refused without one would be accepted;
  after a watchdog reset the share of the charger is taken off without the charger being looked for, so a good battery is
  refused with the cable in; the difference is unsigned, and an empty battery below the charger's share wraps to a full one.
- Boot selection: the fast key at the second look gives `FAST_BOOT`, for which there is no case;
  `set_bootloader_message`, which nobody calls, would erase blocks 64 and 65, the first of system.

## 6. What is not modelled, and the plan

Not modelled, because there is nothing to check that a model would not take from the hardware or from tables: LCD, HDMI,
logos and fonts, boards and their pins, the console, the C library, clock and DDR sequences, register definitions, the
vendored libtomcrypt and tomsfastmath, the host tools that build the image, and the copies of the drivers for the other
processors of the family. These are most of the repository's lines. The signature check is not compiled into this board.
Of the kernel parameters only the magic number is modelled, which decides whether a kernel is entered. The NAND manager is a
library without source in the repository; only what `start()` sees of it is modelled. Delays, clock rates and the
arithmetic of the ECC are abstracted to their outcomes. `second.c` decompresses and jumps.

What is left, in the order it would be worth doing: USB
reset and enumeration in `Fastboot`, and clients that are stopped while a reply is on its way (`StopClient` stops them in
a data phase or when they wait for nothing), whose reply goes to the next client; the SPL's card loader, which reads one fixed range with the same multi-block read as
`CardSession` has; `get_read_retry_data` with its copies of the factory's table; the PMU drivers over `RegisterFile`.
