---------------------------- MODULE CardSession ----------------------------
(***************************************************************************)
(* An SD card as x-boot's disk: the driver boot/msc/cmd_msc.c, the fastboot   *)
(* partition commands of boot/usb/card.c and jz4775_poll.c (the build of the  *)
(* mensa board) and the loader boot/msc/msc_boot.c,                          *)
(* over starts, fastboot sessions, failed transfers and power cuts.           *)
(*                                                                         *)
(* The card (external) takes commands in its transfer state only.  A write or  *)
(* a read that the driver leaves with return -1 is not ended with CMD12: the   *)
(* card stays in it and is deaf to every command but those of mmc_init.        *)
(***************************************************************************)
EXTENDS Integers, FiniteSets

CONSTANTS
    NSectors,     \* sectors of the card
    SectorBytes,  \* 512
    ChunkSectors, \* bufsize, 1 MB, in sectors
    Ptns,         \* names in PTABLE, the empty one among them
    Start, Len,   \* start and length of each, in sectors
    FlashNames,   \* names the client uses in flash, of entries written as they are
    EraseNames,   \* names the client uses in erase
    Images,       \* what the client flashes
    BootImages,   \* those of them that begin with BOOT_MAGIC
    Bytes,        \* length of each image
    MaxFaults,    \* failed transfers and failed inits (bounds them)
    MaxCuts       \* power cuts or resets outside a running system (the same)

\* The empty name.
Unnamed == "unnamed"

Sectors == 0 .. NSectors - 1

\* Whole sectors of an image, and sectors its header promises.
WholeSectors(img) == Bytes[img] \div SectorBytes
SectorsOf(img)    == (Bytes[img] + SectorBytes - 1) \div SectorBytes

ASSUME CardAssumption ==
    /\ NSectors \in Nat \ {0} /\ SectorBytes \in Nat \ {0} /\ ChunkSectors \in Nat \ {0}
    /\ Unnamed \in Ptns /\ {"boot", "recovery"} \subseteq Ptns
    /\ Start \in [Ptns -> Sectors] /\ Len \in [Ptns -> Nat]
    /\ \A p \in Ptns : Start[p] + Len[p] \in Sectors
    /\ Bytes \in [Images -> Nat \ {0}] /\ BootImages \subseteq Images
    /\ \A p \in Ptns, img \in Images : Start[p] + SectorsOf(img) \in Sectors
    /\ FlashNames \cup EraseNames \subseteq Ptns
    /\ \E i \in Images : \A j \in Images : SectorsOf(j) <= SectorsOf(i)
    /\ {"any", "erased", "xboot", "none", "junk"} \cap Images = {}
    /\ MaxFaults \in Nat /\ MaxCuts \in Nat

VARIABLES
    pc,      \* "off" "key" "header" "body" "start" "started" "fastboot" "flash" "hung"
    first,   \* first: no read yet
    card,    \* "idle" "tran" "rcv" "data"
    disk,    \* the sectors: sector at of an image, or no image's
    ram,     \* sectors at CFG_KERNEL_DST, "junk" at first
    ptn,     \* partition of the command, or the one booted
    img,     \* image being flashed
    chunk,   \* i of flash_write
    faults, cuts, \* bounds
    \* history
    sound,   \* no transfer has failed since the start
    kept     \* what each partition should hold: the image last answered OKAY, "any" if
             \* something has happened to it that the code cannot prevent

vars == <<pc, first, card, disk, ram, ptn, img, chunk, faults, cuts, sound, kept>>

NoImage == "none"

MaxRam == CHOOSE m \in {SectorsOf(i) : i \in Images} : \A i \in Images : SectorsOf(i) <= m

Sector(of, at) == [of |-> of, at |-> at]
Blank(what)    == Sector(what, 0)

Junk == [i \in 0 .. MaxRam - 1 |-> Blank("junk")]

Init ==
    /\ pc = "off" /\ first = TRUE /\ card = "idle"
    /\ disk = [s \in Sectors |-> Blank(IF s = 0 THEN "xboot" ELSE "none")]
    /\ ram = Junk /\ ptn = Unnamed /\ img = NoImage /\ chunk = 0 /\ faults = 0 /\ cuts = 0
    /\ sound = TRUE /\ kept = [p \in Ptns |-> "any"]

-----------------------------------------------------------------------------
(* The driver: what a call does with the card in state c, as a set of outcomes.  *)
(* bad tells that the call ended with an error, which its callers ignore.        *)

\* mmc_init: CMD12 and CMD0 end whatever was open; the card may not become ready, and
\* is then never asked again.
mmc_init == {[card |-> "tran", bad |-> FALSE], [card |-> "idle", bad |-> TRUE]}

\* mmc_block_readm: the sectors got before it returned -1, or for good: the waits for a
\* word and for AUTO_CMD_DONE have no timeout.  A sector behind its last one the card refuses.
mmc_block_readm(c, at, num) ==
    IF c = "tran"
    THEN {r \in [got : 0 .. num, card : {"tran", "data"}, bad : BOOLEAN, hang : BOOLEAN] :
             /\ at + r.got <= NSectors
             /\ ~r.bad => r.got = num /\ r.card = "tran" /\ ~r.hang
             /\ r.bad /\ r.got = num => r.hang}
    ELSE {r \in [got : {0}, card : {c}, bad : {TRUE}, hang : BOOLEAN] : r.hang => num = 0}

\* mmc_block_writem: NOB = num / 512 sectors.  Data transfers of no sector, and the loops
\* that wait for the controller when the card does not answer, may go on for ever.
mmc_block_writem(c, num) ==
    LET nob == num \div SectorBytes
    IN  IF c = "tran" /\ nob > 0
        THEN {[put |-> nob, card |-> "tran", bad |-> FALSE, hang |-> FALSE]}
             \cup [put : 0 .. nob - 1, card : {"rcv"}, bad : {TRUE}, hang : {FALSE}]
        ELSE [put : {0}, card : {c}, bad : {c # "tran"}, hang : BOOLEAN]

\* A failed transfer is a fault, unless the card was deaf, which is the result of an
\* earlier one, or was asked for what it does not have.
Count(bad, fault) ==
    /\ faults' = IF bad /\ fault THEN faults + 1 ELSE faults
    /\ faults' <= MaxFaults
    /\ sound' = (sound /\ ~bad)

-----------------------------------------------------------------------------
(* Starts *)

\* boot_main reads the header of the x-boot image for its logos: the first msc_read.
PowerOn ==
    /\ pc = "off" /\ first
    /\ \E i \in mmc_init : \E r \in mmc_block_readm(i.card, 0, 1) :
        /\ card' = r.card
        /\ Count(i.bad \/ r.bad, TRUE)
        /\ pc' = IF r.hang THEN "hung" ELSE "key"
    /\ first' = FALSE /\ ram' = Junk
    /\ UNCHANGED <<disk, ptn, img, chunk, cuts, kept>>

\* get_boot_keys: fastboot, or msc_boot.
EnterFastboot ==
    /\ pc = "key" /\ pc' = "fastboot"
    /\ UNCHANGED <<first, card, disk, ram, ptn, img, chunk, faults, cuts, sound, kept>>

MscBoot(p) ==
    /\ pc = "key" /\ pc' = "header" /\ ptn' = p
    /\ UNCHANGED <<first, card, disk, ram, img, chunk, faults, cuts, sound, kept>>

\* do_msc(CFG_KERNEL_DST + 512 a, offset + 512 a, 512 n), and where msc_boot goes on
DoMsc(a, n, next) ==
    \E r \in mmc_block_readm(card, Start[ptn] + a, n) :
        /\ ram' = [i \in DOMAIN ram |-> IF i \in a .. a + r.got - 1 THEN disk[Start[ptn] + i] ELSE ram[i]]
        /\ card' = r.card
        /\ Count(r.bad, card = "tran" /\ Start[ptn] + a + n <= NSectors)
        /\ pc' = IF r.hang THEN "hung" ELSE next

ReadHeader ==
    /\ pc = "header"
    /\ DoMsc(0, 1, "body")
    /\ UNCHANGED <<first, disk, ptn, img, chunk, cuts, kept>>

\* The header of an image is its first sector.
HasMagic == ram[0].of \in BootImages /\ ram[0].at = 0
Promised == SectorsOf(ram[0].of)

\* Mutant of BodyFrom: offset without the header.
BodyFromStart == 0

BodyFrom == 1

\* The sizes in what was read tell how much to read, whatever that was: msc_boot does not
\* look for the magic.  Without it any size may come, also one that goes past the end of
\* the card (of those, one stands for all) or over the code that reads.
ReadBody ==
    /\ pc = "body"
    /\ \/ HasMagic /\ DoMsc(BodyFrom, Promised - 1, "start")
       \/ ~HasMagic /\ \E n \in 0 .. NSectors, next \in {"start", "hung"} : DoMsc(BodyFrom, n, next)
    /\ UNCHANGED <<first, disk, ptn, img, chunk, cuts, kept>>

\* init_boot_linux looks at the magic only; without it, while (1).
StartKernel ==
    /\ pc = "start"
    /\ pc' = IF HasMagic THEN "started" ELSE "hung"
    /\ UNCHANGED <<first, card, disk, ram, ptn, img, chunk, faults, cuts, sound, kept>>

-----------------------------------------------------------------------------
(* Fastboot *)

\* The partition a name means: a name that do_cmd_flash or do_cmd_erase does not know is
\* the empty one, which is in PTABLE, at 0.
Extent(p, n) == Start[p] .. Start[p] + n - 1

\* Other partitions some of whose sectors are in S can no longer be relied on.
Hit(S, k) == [p \in Ptns |-> IF S \cap Extent(p, Len[p]) # {} THEN "any" ELSE k[p]]

\* Without the magic a flash of boot or recovery is answered FAIL, and nothing else happens.
BeginFlash(p, i) ==
    /\ pc = "fastboot" /\ pc' = "flash"
    /\ p \in {"boot", "recovery"} => i \in BootImages
    /\ ptn' = p /\ img' = i /\ chunk' = 0
    /\ kept' = Hit(Extent(p, SectorsOf(i)), kept)
    /\ UNCHANGED <<first, card, disk, ram, faults, cuts, sound>>

ChunkBytes == ChunkSectors * SectorBytes
num        == Bytes[img] \div ChunkBytes
last       == Bytes[img] % ChunkBytes
MoreChunks == chunk < num \/ (chunk = num /\ last > 0)

\* Mutant of ChunkStart: bufsize is not added for the last chunk.
ChunkStartLast == Start[ptn] + (IF chunk < num THEN ChunkSectors * chunk ELSE 0)

ChunkStart == Start[ptn] + ChunkSectors * chunk

\* Mutant of TakesData: the sector after the last one is written as well.
TakesDataPast(s, n) == s \in ChunkStart .. ChunkStart + n

TakesData(s, n) == s \in ChunkStart .. ChunkStart + n - 1

\* msc_write never calls mmc_init and returns 0 whatever happens.
WriteChunk ==
    /\ pc = "flash" /\ MoreChunks
    /\ \E r \in mmc_block_writem(card, IF chunk < num THEN ChunkBytes ELSE last) :
        /\ disk' = [s \in Sectors |-> IF TakesData(s, r.put)
                                      THEN Sector(img, ChunkSectors * chunk + s - ChunkStart) ELSE disk[s]]
        /\ card' = r.card
        /\ Count(r.bad, card = "tran")
        /\ pc' = IF r.hang THEN "hung" ELSE pc
    /\ chunk' = chunk + 1
    /\ UNCHANGED <<first, ram, ptn, img, cuts, kept>>

\* OKAY
FlashDone ==
    /\ pc = "flash" /\ ~MoreChunks
    /\ pc' = "fastboot"
    /\ kept' = [kept EXCEPT ![ptn] = IF sound /\ SectorsOf(img) <= Len[ptn] THEN img ELSE "any"]
    /\ img' = NoImage /\ chunk' = 0
    /\ UNCHANGED <<first, card, disk, ram, ptn, faults, cuts, sound>>

\* Mutant of EraseRange: to is taken for a number of sectors.
EraseRangeLong(p) == Start[p] .. Start[p] + Start[p] + Len[p]

\* mmc_block_erase(start, start + length): CMD33 names the last sector, and to is the
\* one after it.
EraseRange(p) == Start[p] .. Start[p] + Len[p]

\* A deaf card erases nothing, and the wait for PRG_DONE may go on for ever.
Erase(p) ==
    /\ pc = "fastboot"
    /\ ptn' = p
    /\ IF card = "tran"
       THEN /\ disk' = [s \in Sectors |-> IF s \in EraseRange(p) THEN Blank("erased") ELSE disk[s]]
            /\ kept' = Hit(EraseRange(p), kept)
            /\ UNCHANGED pc
       ELSE /\ kept' = [kept EXCEPT ![p] = "any"]
            /\ pc' \in {pc, "hung"} /\ UNCHANGED disk
    /\ UNCHANGED <<first, card, ram, img, chunk, faults, cuts, sound>>

-----------------------------------------------------------------------------
Restart ==
    /\ pc' = "off" /\ first' = TRUE /\ sound' = TRUE
    /\ ram' = Junk /\ ptn' = Unnamed /\ img' = NoImage /\ chunk' = 0

\* The system, or the user in front of a board that hangs, starts again.
Reset ==
    /\ pc \in {"started", "hung", "fastboot"}
    /\ Restart
    /\ UNCHANGED <<card, disk, faults, cuts, kept>>

\* The power fails or the board is reset in the middle of something: a chunk may have
\* been written in part, and the card may have kept what was open.
Cut ==
    /\ pc \in {"header", "body", "start", "flash"} /\ cuts < MaxCuts
    /\ cuts' = cuts + 1
    /\ Restart
    /\ card' \in {"idle", card}
    /\ IF pc = "flash" /\ card = "tran"
       THEN \E n \in 0 .. ChunkSectors :
               disk' = [s \in Sectors |->
                           IF s - ChunkStart \in 0 .. n - 1
                              /\ ChunkSectors * chunk + s - ChunkStart < WholeSectors(img)
                           THEN Sector(img, ChunkSectors * chunk + s - ChunkStart) ELSE disk[s]]
       ELSE UNCHANGED disk
    /\ UNCHANGED <<faults, kept>>

XBoot ==
    \/ PowerOn \/ EnterFastboot \/ (\E p \in {"boot", "recovery"} : MscBoot(p))
    \/ ReadHeader \/ ReadBody \/ StartKernel \/ WriteChunk \/ FlashDone

Client == (\E p \in FlashNames, i \in Images : BeginFlash(p, i)) \/ (\E p \in EraseNames : Erase(p))

Next == XBoot \/ Client \/ Reset \/ Cut

Spec == Init /\ [][Next]_vars

-----------------------------------------------------------------------------
(* Properties *)

Contents == [of : Images \cup {"erased", "xboot", "none", "junk"}, at : 0 .. MaxRam - 1]

TypeOK ==
    /\ pc \in {"off", "key", "header", "body", "start", "started", "fastboot", "flash", "hung"}
    /\ first \in BOOLEAN /\ card \in {"idle", "tran", "rcv", "data"}
    /\ DOMAIN disk = Sectors /\ \A s \in Sectors : disk[s] \in Contents
    /\ DOMAIN ram = 0 .. MaxRam - 1 /\ \A i \in DOMAIN ram : ram[i] \in Contents
    /\ ptn \in Ptns /\ img \in Images \cup {NoImage}
    /\ faults \in 0 .. MaxFaults /\ cuts \in 0 .. MaxCuts
    /\ sound \in BOOLEAN /\ \A p \in Ptns : kept[p] \in Images \cup {"any"}

\* A partition answered OKAY in a session without a failed transfer holds every whole
\* sector of its image, through all that later sessions do elsewhere, power cuts
\* included: until it is flashed or erased itself, the partition before it is erased
\* (which takes one sector more), or a longer image is flashed before it.
HeldOnDisk ==
    \A p \in Ptns : kept[p] \in Images =>
        \A s \in 0 .. WholeSectors(kept[p]) - 1 : disk[Start[p] + s] = Sector(kept[p], s)

\* And a start that reads without an error starts that image, entire.
BootsFlashed ==
    pc = "started" /\ sound /\ kept[ptn] \in Images =>
        \A s \in 0 .. WholeSectors(kept[ptn]) - 1 : ram[s] = Sector(kept[ptn], s)

\* A command changes the sectors of its image, or its partition and the sector after it;
\* chunks end where the next one begins.
Contained ==
    [][\A s \in Sectors : disk'[s] # disk[s] =>
          IF pc = "flash" THEN s \in Extent(ptn, WholeSectors(img))
          ELSE pc = "fastboot" /\ s \in Extent(ptn', Len[ptn'] + 1)]_vars

\* boot/usb/fastboot_protocol.txt: "Erase the indicated partition".
EraseStaysInside ==
    [][\A s \in Sectors : pc = "fastboot" /\ disk'[s] # disk[s] => s \in Extent(ptn', Len[ptn'])]_vars

=============================================================================
