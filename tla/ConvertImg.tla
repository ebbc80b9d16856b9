----------------------------- MODULE ConvertImg -----------------------------
(***************************************************************************)
(* The pipe between the NAND manager and flash_write when a system, userdata *)
(* or cache image is flashed: start() in boot/usb/nm/convert_img.c hands the *)
(* image to NandManger_ptWrite in chunks; the manager answers by calling     *)
(* em_vNand_MultiPageWrite (boot/usb/nm/APP_vNand.c), which puts its pages   *)
(* into write_data, a ring of two erase blocks; after each chunk start()     *)
(* looks at the global count to see whether a half of the ring is complete   *)
(* and passes it to flash_write.                                            *)
(*                                                                         *)
(* The NAND manager itself is a library without source here: it is taken to *)
(* write its pages in order, MetaMax sectors or less of its own per chunk.   *)
(***************************************************************************)
EXTENDS Integers, Sequences

CONSTANTS
    PagesPerBlock,   \* PAGEPERBLOCK
    SectorsPerPage,  \* BYTEPERPAGE / SectorBytes
    SectorBytes,     \* 512
    Chunk,           \* sectors of a chunk (256 in the code)
    MetaMax,         \* sectors the NAND manager adds to a chunk (external)
    Lengths,         \* image sizes in sectors (bounds the input)
    Flashes          \* images flashed in one session (bounds the runs)

BlockSectors == PagesPerBlock * SectorsPerPage
Ring         == 0 .. 2 * BlockSectors - 1

\* A chunk with what the manager adds is shorter than a block: one that filled a whole block
\* behind a full ring would end where count does not see it.
ASSUME SizesAssumption ==
    /\ PagesPerBlock \in Nat \ {0} /\ SectorsPerPage \in Nat \ {0}
    /\ SectorBytes \in Nat \ {0} /\ SectorBytes % PagesPerBlock = 0
    /\ Chunk \in Nat \ {0} /\ MetaMax \in Nat /\ Chunk + MetaMax < BlockSectors
    /\ Lengths \subseteq Nat \ {0}
    /\ Flashes \in Nat \ {0}

VARIABLES
    pc,          \* "idle" "write" "check" | "done"
    flash,       \* which image of the session
    len,         \* chandler->len, in sectors
    pos,         \* sectors the NAND manager has written
    ring,        \* write_data: the number of the sector, or FF
    count,       \* count: a global, 0 when x-boot starts
    byteoffset,  \* byteoffset: a global
    blocknum,    \* blocknum
    out,         \* the blocks passed to flash_write
    carried      \* history: count when the image began

vars == <<pc, flash, len, pos, ring, count, byteoffset, blocknum, out, carried>>

FF == 0 - 1

AllFF == [s \in Ring |-> FF]

Init ==
    /\ pc = "idle" /\ flash = 0 /\ len = 0 /\ pos = 0 /\ ring = AllFF
    /\ count = 0 /\ byteoffset = 0 /\ blocknum = 0 /\ out = <<>>
    /\ carried = 0

\* convert_img_uperrorpt and the beginning of start(): write_data is filled with
\* 0xff and the locals are set; count and byteoffset stay as they are.
Start ==
    /\ pc \in {"idle", "done"} /\ flash < Flashes
    /\ pc' = "write" /\ flash' = flash + 1
    /\ len' \in Lengths
    /\ pos' = 0 /\ ring' = AllFF /\ blocknum' = 0 /\ out' = <<>>
    /\ carried' = count
    /\ UNCHANGED <<count, byteoffset>>

\* Mutant of Counted: the first half counts as full one sector too early.
CountedEarly(c, offset) ==
    IF (offset >= BlockSectors - 1 /\ c % 2 = 0)
       \/ (offset < BlockSectors - 1 /\ c # 0 /\ c % 2 = 1)
    THEN c + 1 ELSE c

\* Mutant of Counted: only the middle of the ring is looked at.
CountedNoWrap(c, offset) == IF offset >= BlockSectors /\ c % 2 = 0 THEN c + 1 ELSE c

\* count goes up when the writes pass the middle or the end of the ring; offset
\* is where the last page of the list ends, 1 .. 2 * BlockSectors.
Counted(c, offset) ==
    IF (offset >= BlockSectors /\ c % 2 = 0)
       \/ (offset < BlockSectors /\ c # 0 /\ c % 2 = 1)
    THEN c + 1 ELSE c

\* Mutant of RingOf: the ring is taken to be one sector longer.
RingTooLong(sector) == sector % (2 * BlockSectors + 1)

\* The place of a sector of the stream in write_data.
RingOf(sector) == sector % (2 * BlockSectors)

Wlen == IF len >= Chunk THEN Chunk ELSE len

\* NandManger_ptWrite of one chunk: em_vNand_MultiPageWrite copies the pages to
\* their places in the ring.
PtWrite ==
    /\ pc = "write" /\ len > 0
    /\ \E meta \in 0 .. MetaMax :
          LET last   == pos + Wlen + meta - 1
              offset == RingOf(last) + 1
              fresh(s) == {n \in pos .. last : RingOf(n) = s}
          IN  /\ ring' = [s \in Ring |->
                             IF fresh(s) = {} THEN ring[s] ELSE CHOOSE n \in fresh(s) : TRUE]
              /\ count' = Counted(count, offset)
              /\ byteoffset' = offset * SectorBytes
              /\ pos' = last + 1
    /\ pc' = "check"
    /\ UNCHANGED <<flash, len, blocknum, out, carried>>

Half(h, sectors) == [s \in 1 .. sectors |-> ring[h * BlockSectors + s - 1]]

\* After each chunk: if count has changed, the half that was completed goes to
\* flash_write and is filled with 0xff.
CheckBlock ==
    /\ pc = "check"
    /\ IF blocknum # count
       THEN LET h == (count - 1) % 2
            IN  /\ out' = Append(out, Half(h, BlockSectors))
                /\ ring' = [s \in Ring |-> IF s \div BlockSectors = h THEN FF ELSE ring[s]]
                /\ blocknum' = count
       ELSE UNCHANGED <<out, ring, blocknum>>
    /\ pc' = "write" /\ len' = len - Wlen
    /\ UNCHANGED <<flash, pos, count, byteoffset, carried>>

\* "handle the last block"
LastBlock ==
    /\ pc = "write" /\ len = 0
    /\ out' = IF byteoffset % PagesPerBlock # 0
              THEN Append(out, Half(count % 2,
                                    (byteoffset % (BlockSectors * SectorBytes)) \div SectorBytes))
              ELSE out
    /\ pc' = "done"
    /\ UNCHANGED <<flash, len, pos, ring, count, byteoffset, blocknum, carried>>

\* The session ends: x-boot goes on polling.
Finished == pc = "done" /\ flash = Flashes /\ UNCHANGED vars

Next == Start \/ PtWrite \/ CheckBlock \/ LastBlock \/ Finished

Spec == Init /\ [][Next]_vars

-----------------------------------------------------------------------------
(* Properties *)

TypeOK ==
    /\ pc \in {"idle", "write", "check", "done"}
    /\ flash \in 0 .. Flashes /\ len \in Nat /\ pos \in Nat
    /\ ring \in [Ring -> Nat \cup {FF}]
    /\ count \in Nat /\ blocknum \in Nat /\ carried \in Nat
    /\ byteoffset \in 0 .. 2 * BlockSectors * SectorBytes
    /\ \A k \in 1 .. Len(out) : DOMAIN out[k] \subseteq 1 .. BlockSectors

\* The k-th erase block of the stream of the NAND manager.
StreamBlock(k) == [s \in 1 .. BlockSectors |-> (k - 1) * BlockSectors + s - 1]

OutInOrder == \A k \in 1 .. Len(out) : out[k] = StreamBlock(k)

\* The images of a session up to the first that fills a block, that one included: the
\* ring never wraps onto a half that was not flashed yet, and every block passed to
\* flash_write is complete and in order, however the chunks and the manager's own
\* sectors fall on block boundaries.  count is never set back, so an image after those
\* begins with a block that is not its first one.
FirstImageInOrder == carried = 0 => OutInOrder

\* At the end of such an image at most the last block of the stream is missing.
OnlyLastBlockLost ==
    (pc = "done" /\ carried = 0) => pos - Len(out) * BlockSectors <= BlockSectors

=============================================================================
