---------------------------- MODULE FlashSession ----------------------------
(***************************************************************************)
(* One fastboot session over the partition table of a NAND board:           *)
(* do_cmd_flash and do_cmd_erase (boot/usb/jz4780_poll.c), the table that    *)
(* board_init loads (boot/usb/board.c), flash_write and flash_erase          *)
(* (boot/usb/flash.c) and the image converter that feeds flash_write block   *)
(* by block for system, userdata and cache (boot/usb/nm/convert_img.c).      *)
(* The converter hands on completed blocks only, and begins with a block of   *)
(* 0xff when an earlier image has left count behind; ConvertImg has its ring. *)
(*                                                                         *)
(* boot/usb/nm/convert_img.h defines IMG_CONVERT_TO_BIN and every NAND       *)
(* build includes it, so nand_write_nooob returns the block after the last  *)
(* one it wrote and flash_write moves the table entry there.  The entry is   *)
(* reloaded only when usb_boot runs board_init again.                        *)
(*                                                                         *)
(* The chip is seen at block level and does not fail while it is written;   *)
(* NandImage has pages, retries and faults.                                 *)
(***************************************************************************)
EXTENDS Integers, FiniteSets

CONSTANTS
    NBlocks,      \* erase blocks of the chip (bounds the device)
    Named,        \* partitions of PTABLE with a name
    Offset,       \* their first block, [Named -> Nat]
    Length,       \* their length in blocks
    Images,       \* what the host may download
    Size,         \* blocks of an image
    BootImages,   \* the images that begin with BOOT_MAGIC
    NoImage,      \* nothing downloaded yet
    FlashNames,   \* names the host uses in flash:%s, unknown ones too
    EraseNames,   \* names the host uses in erase:%s
    MaxBad        \* bad blocks of a fresh chip (bounds the initial states)

\* The last entry of PTABLE has the empty name, start 0 and length 0.
Unnamed == "unnamed"

Ptns   == Named \cup {Unnamed}
Blocks == 0 .. NBlocks - 1

\* First block behind x-boot, which lives below the first partition.
XbootBlocks == {b \in Blocks : \A p \in Named : b < Offset[p]}

ASSUME TableAssumption ==
    /\ NBlocks \in Nat \ {0}
    /\ Unnamed \notin Named
    /\ Offset \in [Named -> Nat] /\ Length \in [Named -> Nat \ {0}]
    /\ \A p \in Named : Offset[p] + Length[p] <= NBlocks

ASSUME ImagesAssumption ==
    /\ Size \in [Images -> Nat \ {0}]
    /\ BootImages \subseteq Images
    /\ {"blank", "old", "junk", "ff"} \cap Images = {}
    /\ NoImage \notin Images

VARIABLES
    cell,     \* cell[b]: what block b holds
    bad,      \* blocks nand_block_is_bad reports
    ptable,   \* ptable[p].start and .length, in blocks
    buf,      \* the image in Bulk_Data_Buf (rx_length is its size)
    job,      \* where the command loop is
    counted,  \* the converter's count is not 0
    \* history
    first,    \* first image flashed to p since board_init, and what led it
    told,     \* the flash that the last command was and that was answered OKAY
    hurt,     \* partitions in which another one's flash or erase did something
    nameless  \* blocks that a command for the entry without a name reached

chip    == <<cell, bad>>
history == <<first, told, hurt, nameless>>
vars    == <<cell, bad, ptable, buf, job, counted, first, told, hurt, nameless>>

\* Contents of a block: blank, what the factory or an earlier session left, the
\* i-th block of an image, the 0xff of an empty ring, or a block programmed
\* without an erase.
Blank    == <<"blank", 0>>
Old      == <<"old", 0>>
Junk     == <<"junk", 0>>
FF       == <<"ff", 0>>
Contents == {Blank, Old, Junk, FF} \cup (Images \X Nat)

\* The i-th block that flash_write gets of a stream: lead blocks of 0xff, the image.
Piece(stream, i) ==
    IF i < stream.lead THEN FF ELSE <<stream.img, i - stream.lead>>

Nothing  == [ptn |-> Unnamed, img |-> NoImage]
NoStream == [img |-> NoImage, lead |-> 0]

Part(p) == IF p = Unnamed THEN {} ELSE Offset[p] .. Offset[p] + Length[p] - 1

\* board_init: PTABLE as it is compiled in.
PTABLE ==
    [p \in Ptns |-> IF p = Unnamed THEN [start |-> 0, length |-> 0]
                    ELSE [start |-> Offset[p], length |-> Length[p]]]

Polling == [pc |-> "poll", ptn |-> Unnamed, blk |-> 0, i |-> 0, lead |-> 0, n |-> 0]

Init ==
    /\ bad \in {s \in SUBSET (Blocks \ XbootBlocks) : Cardinality(s) <= MaxBad}
    /\ cell = [b \in Blocks |-> Old]
    /\ ptable = PTABLE /\ buf = NoImage /\ job = Polling /\ counted = FALSE
    /\ first = [p \in Ptns |-> NoStream] /\ told = Nothing
    /\ hurt = {} /\ nameless = {}

-----------------------------------------------------------------------------
\* The first of boot, recovery, userdata, system, cache that strstr finds in the
\* command; anything else becomes the empty name.
FlashTarget(name) ==
    CASE name \in {"boot", "bootloader"} -> "boot"
      [] name \in {"recovery", "userdata", "system", "cache"} -> name
      [] OTHER -> Unnamed

\* do_cmd_erase knows misc and storage as well.
EraseTarget(name) ==
    IF name \in {"misc", "storage"} THEN name ELSE FlashTarget(name)

Raw       == {"boot", "recovery"}
Converted == {"system", "userdata", "cache"}

Window(p) == ptable[p].start .. ptable[p].start + ptable[p].length - 1

Owners(bs) == {p \in Named : Part(p) \cap bs # {}}

\* Mutant of FlashErase: the loop ends one block early.
EraseAllButLast(p) ==
    /\ cell' = [b \in Blocks |-> IF b \in Window(p) /\ b + 1 \in Window(p)
                                THEN Blank ELSE cell[b]]
    /\ bad' = bad

\* flash_erase(ptn): every block of the window, the bad ones too.  The erase of a
\* bad block either fails and marks it again or succeeds and wipes the mark.
FlashErase(p) ==
    /\ cell' = [b \in Blocks |-> IF b \in Window(p) THEN Blank ELSE cell[b]]
    /\ \E cured \in SUBSET (bad \cap Window(p)) : bad' = bad \ cured

\* History: the erase of a whole partition makes up for what was done to it.
HurtByErase(p) ==
    (hurt \ {x \in Named : Part(x) \subseteq Window(p)}) \cup (Owners(Window(p)) \ {p})

\* History: the blocks of a command for the entry without a name.
NamelessErase(p) == IF p = Unnamed THEN nameless \cup Window(p) ELSE nameless

\* How many of the blocks of img reach flash_write.  The converter hands a block on
\* when the next one begins in the ring, or when it ends in the ring's middle: a
\* partial last block is lost, and so is a whole one that ends at the ring's end.
Passed(p, img) ==
    IF p \in Converted
    THEN {Size[img] - 1} \cup (IF Size[img] % 2 = 1 THEN {Size[img]} ELSE {})
    ELSE {Size[img]}

\* start() begins with blocknum = 0: a count left by an earlier image is taken for
\* a completed block.
Lead(p) == IF p \in Converted /\ counted THEN 1 ELSE 0

\* download: (the data phase is in Fastboot)
Download(img) ==
    /\ job.pc = "poll"
    /\ buf' = img
    /\ UNCHANGED <<ptable, job, counted>> /\ UNCHANGED chip /\ UNCHANGED history

\* "FAILpartition does not exist", "FAILimage is not a boot image"
Rejected(name) ==
    LET p == FlashTarget(name)
    IN  p \notin Ptns \/ (p \in Raw /\ buf \notin BootImages)

\* do_cmd_flash: the window is erased and the writer starts at its first block; a
\* converted image of which no block is handed on ends here and is answered OKAY.
\* The model leaves out the flash of a buffer that was never filled.
FlashStart(name) ==
    LET p == FlashTarget(name)
    IN  /\ job.pc = "poll" /\ buf # NoImage
        /\ ~Rejected(name)
        /\ FlashErase(p)
        /\ \E n \in {Lead(p) + k : k \in Passed(p, buf)} :
              /\ job' = IF n = 0 THEN Polling
                        ELSE [pc |-> IF p \in Converted THEN "convert" ELSE "write",
                              ptn |-> p, blk |-> ptable[p].start, i |-> 0,
                              lead |-> Lead(p), n |-> n]
              /\ told' = IF n = 0 THEN [ptn |-> p, img |-> buf] ELSE Nothing
        /\ hurt' = HurtByErase(p)
        /\ nameless' = NamelessErase(p)
        /\ UNCHANGED <<ptable, buf, counted, first>>

FlashRejected(name) ==
    /\ job.pc = "poll" /\ buf # NoImage
    /\ Rejected(name)
    /\ UNCHANGED vars

\* The loop of start() in convert_img.c calls flash_write for one block at a time;
\* flash_write erases the entry's window first, except for system.
ConvertBlock ==
    /\ job.pc = "convert"
    /\ IF job.ptn = "system" THEN UNCHANGED chip ELSE FlashErase(job.ptn)
    /\ job' = [job EXCEPT !.pc = "write", !.blk = ptable[job.ptn].start]
    /\ hurt' = IF job.ptn = "system" THEN hurt ELSE HurtByErase(job.ptn)
    /\ counted' = TRUE
    /\ UNCHANGED <<ptable, buf, first, told, nameless>>

SkipBadBlock ==
    /\ job.pc = "write" /\ job.blk \in bad
    /\ job' = [job EXCEPT !.blk = @ + 1]
    /\ UNCHANGED <<ptable, buf, counted>> /\ UNCHANGED chip /\ UNCHANGED history

LastBlock == job.i + 1 = job.n

Stream == [img |-> buf, lead |-> job.lead]

\* Mutants of MoveEntry: the entry stays; it moves two blocks on; the block number
\* 0 that a plain nand_write_nooob returns is taken for a block.
MoveNothing == ptable' = ptable

MoveTooFar ==
    ptable' = IF job.ptn \in Converted \/ LastBlock
              THEN [ptable EXCEPT ![job.ptn] = [start |-> job.blk + 2, length |-> 1]]
              ELSE ptable

MoveToZero ==
    ptable' = IF job.ptn \in Converted \/ LastBlock
              THEN [ptable EXCEPT ![job.ptn] = [start |-> 0, length |-> 1]]
              ELSE ptable

\* flash_write after nand_write_nooob: the entry moves behind the image, or behind
\* each converted block.
MoveEntry ==
    ptable' = IF job.ptn \in Converted \/ LastBlock
              THEN [ptable EXCEPT ![job.ptn] = [start |-> job.blk + 1, length |-> 1]]
              ELSE ptable

\* nand_write_nooob: a good block is programmed.
WriteBlock ==
    LET p == job.ptn
    IN  /\ job.pc = "write" /\ job.blk \in Blocks \ bad
        /\ cell' = [cell EXCEPT ![job.blk] =
                       IF @ = Blank THEN Piece(Stream, job.i) ELSE Junk]
        /\ MoveEntry
        /\ job' = IF LastBlock THEN Polling
                  ELSE [job EXCEPT !.pc = IF p \in Converted THEN "convert" ELSE "write",
                                   !.blk = @ + 1, !.i = @ + 1]
        /\ hurt' = hurt \cup (Owners({job.blk}) \ {p})
                     \cup (IF job.blk \notin Part(p) /\ first[p] = NoStream
                           THEN {p} ELSE {})
        /\ nameless' = nameless \cup (IF p = Unnamed THEN {job.blk} ELSE {})
        /\ first' = [first EXCEPT ![p] = IF LastBlock /\ @ = NoStream THEN Stream ELSE @]
        /\ told'  = IF LastBlock THEN [ptn |-> p, img |-> buf] ELSE told
        /\ UNCHANGED <<bad, buf, counted>>

\* The loop goes on past the last block of the chip; the model stops it there.
RunOffChip ==
    /\ job.pc = "write" /\ job.blk = NBlocks
    /\ job' = [job EXCEPT !.pc = "off"]
    /\ UNCHANGED <<ptable, buf, counted>> /\ UNCHANGED chip /\ UNCHANGED history

\* do_cmd_erase: erase the window and answer OKAY; then, for all but boot and
\* recovery, the error partition is updated through ND_probe, which knows cache,
\* userdata and system only and loops for ever on any other name.
EraseCommand(name) ==
    LET p == EraseTarget(name)
    IN  /\ job.pc = "poll" /\ p \in Ptns
        /\ FlashErase(p)
        /\ job' = IF p \in Raw \cup Converted THEN Polling
                  ELSE [Polling EXCEPT !.pc = "hung", !.ptn = p]
        /\ hurt' = HurtByErase(p)
        /\ nameless' = NamelessErase(p)
        /\ told' = Nothing
        /\ UNCHANGED <<ptable, buf, counted, first>>

EraseRejected(name) ==
    /\ job.pc = "poll" /\ EraseTarget(name) \notin Ptns
    /\ UNCHANGED vars

NewSession ==
    /\ ptable' = PTABLE /\ job' = Polling
    /\ first' = [p \in Ptns |-> NoStream] /\ told' = Nothing
    /\ UNCHANGED <<hurt, nameless>> /\ UNCHANGED chip

\* do_cmd_reboot_bootloader calls usb_boot again, which runs board_init: the RAM
\* keeps the downloaded image and count.
RebootBootloader == job.pc = "poll" /\ NewSession /\ UNCHANGED <<buf, counted>>

\* reboot, or the user takes the power away, in the middle of a write too.
PowerCycle == NewSession /\ buf' = NoImage /\ counted' = FALSE

-----------------------------------------------------------------------------
Command ==
    \/ \E img \in Images : Download(img)
    \/ \E name \in FlashNames : FlashStart(name) \/ FlashRejected(name)
    \/ \E name \in EraseNames : EraseCommand(name) \/ EraseRejected(name)
    \/ RebootBootloader

Next == Command \/ ConvertBlock \/ SkipBadBlock \/ WriteBlock \/ RunOffChip \/ PowerCycle

Spec == Init /\ [][Next]_vars

-----------------------------------------------------------------------------
(* Properties *)

TypeOK ==
    /\ cell \in [Blocks -> Contents] /\ bad \subseteq Blocks
    /\ ptable \in [Ptns -> [start : 0 .. NBlocks, length : 0 .. NBlocks]]
    /\ buf \in Images \cup {NoImage} /\ counted \in BOOLEAN
    /\ job \in [pc : {"poll", "convert", "write", "off", "hung"}, ptn : Ptns,
                blk : 0 .. NBlocks, i : Nat, lead : {0, 1}, n : Nat]
    /\ first \in [Ptns -> [img : Images \cup {NoImage}, lead : {0, 1}]]
    /\ told \in [ptn : Ptns, img : Images \cup {NoImage}]
    /\ hurt \subseteq Ptns /\ nameless \subseteq Int

\* What nand_boot (or the kernel's NAND driver) finds at CFG_BOOT_OFFS, skipping
\* bad blocks, is the lead of the stream and then the first k blocks of its image:
\* the table entry plays no part in it.
Loads(p, stream, k) ==
    \A b \in {x \in Blocks \ bad : x >= Offset[p]} :
        LET i == Cardinality((Offset[p] .. b - 1) \ bad)
        IN  i < stream.lead + k => cell[b] = Piece(stream, i)

\* The blocks of img that are sure to be written: the converter may lose the last.
Sure(p, img) == IF p \in Converted THEN Size[img] - 1 ELSE Size[img]

\* Within one session the first image flashed to a partition stays what a start
\* finds there, however often that partition is flashed or erased again, as long as
\* no other partition's flash or erase has reached into it: an image that is written
\* raw (boot, recovery) from the partition's first block on and with all its blocks,
\* a converted one with all but perhaps its last block, and one block further on when
\* an earlier image's count put a block of 0xff before it.
BootsFirstFlash ==
    \A p \in Named \ hurt : first[p] # NoStream =>
        /\ Loads(p, first[p], Sure(p, first[p].img))
        /\ p \in Raw => first[p].lead = 0

\* A partition that only its own flashes and erases have touched has no block that
\* was programmed without an erase: although later flashes erase one block only,
\* they write behind the earlier images, where the first erase left blank blocks.
NoJunkInside ==
    \A p \in Named \ hurt : \A b \in Part(p) : cell[b] # Junk

\* x-boot, below the first partition, survives every command for a partition of the
\* table, however often its entry has moved.  A flash for a name do_cmd_flash does
\* not know goes to the entry without a name, at block 0, and is answered OKAY: it
\* destroys the blocks of x-boot that it writes or erases, and no other.
XbootKept == \A b \in XbootBlocks \ nameless : cell[b] = Old

\* Promise of the protocol document on "flash:%s": the image that was answered
\* OKAY is the one in the partition.
FlashedImageBoots ==
    told.ptn \in Named \ hurt =>
        Loads(told.ptn, [img |-> told.img, lead |-> 0], Size[told.img])

=============================================================================
