------------------------------ MODULE NandImage ------------------------------
(***************************************************************************)
(* Writing one image to a raw NAND partition and reading it back at boot.   *)
(*                                                                         *)
(*   writer: flash_write -> flash_erase, then nand_write_nooob             *)
(*           (boot/usb/flash.c, boot/nand/jz4780_nand.c);                  *)
(*   reader: nand_boot -> do_nand, called twice: header page, then the rest *)
(*           (boot/nand/nand_boot.c, boot/nand/jz4780_nand.c).             *)
(*                                                                         *)
(* Writer and reader share no map: each one skips, on its own, the blocks  *)
(* that nand_block_is_bad reports at that moment.  The model keeps every    *)
(* device operation (erase a block, mark it, program a page and read it     *)
(* back, read a page) as one step, with the failures the status register    *)
(* and the ECC engine can report, and lets the power fail between any two.  *)
(*                                                                         *)
(* A page of the image is its number 1..ImagePages; the old image in the    *)
(* partition has pages ImagePages + 1 .. 2 * ImagePages.                    *)
(***************************************************************************)
EXTENDS Integers, FiniteSets

CONSTANTS
    NBlocks,        \* erase blocks of the chip (bounds the device)
    PagesPerBlock,  \* param.page_per_block
    PtnStart,       \* first block of the partition: ptn->start / CFG_NAND_BLOCK_SIZE
    PtnBlocks,      \* its length in blocks: ptn->length / CFG_NAND_BLOCK_SIZE
    ImagePages,     \* bytes / param.page_size after padding to a page
    Faults,         \* device faults that may happen (subset of FaultKinds)
    PartialMarks    \* how many of the four markers may take when marking fails

FaultKinds == {"program", "erase", "blank", "uncor", "power"}

\* CFG_NAND_BADBLOCK_PAGE + 0..3: nand_block_is_bad and nand_mark_bad_block
\* use four pages of the block, four OOB bytes (32 bits) of each.
MarkPages == 4
MarkBits  == 32

ASSUME GeometryAssumption ==
    /\ NBlocks \in Nat \ {0}
    /\ PagesPerBlock \in Nat /\ PagesPerBlock > 1
    /\ PtnStart \in Nat
    /\ PtnBlocks \in Nat \ {0}
    /\ PtnStart + PtnBlocks <= NBlocks
    /\ ImagePages \in Nat \ {0}

ASSUME FaultsAssumption ==
    /\ Faults \subseteq FaultKinds
    /\ PartialMarks \subseteq 0 .. MarkPages

Blocks == 0 .. NBlocks - 1
Pages  == 0 .. PagesPerBlock - 1
Image  == 1 .. ImagePages

\* What a page holds, besides a page of the new or of the old image.
Blank == 0          \* erased, never programmed: data and parity are all ones
Junk  == 0 - 1      \* programmed, but the ECC cannot correct it
FF    == 0 - 2      \* programmed with all-0xff data (its parity is not all ones)
Other == 0 - 3      \* data of a neighbouring partition

Contents == (0 - 3) .. (2 * ImagePages)

VARIABLES
    \* the chip
    cell,       \* cell[b][p]: what page p of block b holds
    marks,      \* marks[b]: how many of the block's four marker pages are zeroed
    \* the writer
    pc,         \* "erase" "check" "prog" "recover" | "done" "off" "cut"
    src,        \* the download buffer, page by page (Bulk_Data_Buf)
    curblk,     \* curblocknum (block, in flash_erase)
    pagecnt,    \* pagecnt
    cur,        \* pages before curaddr: (curaddr - data) / page_size
    rem,        \* realbytes / page_size
    try,        \* try
    \* the reader
    rpc,        \* "idle" "skip" "read" | "kernel" "magic"
    rblk, rpg,  \* page / page_per_block and page % page_per_block in do_nand
    rcnt,       \* pages copied, over both calls of do_nand
    dst,        \* CFG_KERNEL_DST, page by page
    \* history
    at,         \* at[k]: where the writer last put page k
    abandoned,  \* blocks given up after a failed erase or a failed second try
    unerased    \* blocks flash_erase could not erase

chip   == <<cell, marks>>
writer == <<pc, src, curblk, pagecnt, cur, rem, try, at, abandoned, unerased>>
reader == <<rpc, rblk, rpg, rcnt, dst>>
vars   == <<cell, marks, pc, src, curblk, pagecnt, cur, rem, try,
            rpc, rblk, rpg, rcnt, dst, at, abandoned, unerased>>

Partition == PtnStart .. PtnStart + PtnBlocks - 1

-----------------------------------------------------------------------------
(* The chip *)

\* nand_block_is_bad: more than 64 of the 128 marker bits read as zero.
BadWith(m)  == m * MarkBits > 64
IsBad(b)    == BadWith(marks[b])

\* nand_mark_bad_block programs zeros into the four marker pages; a page whose
\* program fails is reported on the serial line and otherwise ignored.  A marker
\* already zeroed stays so.
MarkOutcomes(m) == (PartialMarks \cup {MarkPages}) \cap (m .. MarkPages)

ErasedBlock == [p \in Pages |-> Blank]
JunkBlock   == [p \in Pages |-> Junk]

\* nand_erase_block, status ok: every page blank, the bad block mark is gone too.
EraseOk(b) ==
    /\ cell'  = [cell EXCEPT ![b] = ErasedBlock]
    /\ marks' = [marks EXCEPT ![b] = 0]

\* nand_erase_block, status fail: the block is marked bad and -1 returned.  The
\* pages keep what they had or are left half erased.
EraseFail(b) ==
    /\ "erase" \in Faults
    /\ \E c \in {cell[b], JunkBlock} : cell' = [cell EXCEPT ![b] = c]
    /\ \E m \in MarkOutcomes(marks[b]) : marks' = [marks EXCEPT ![b] = m]

\* Programming can only clear bits: a page that is not blank turns to junk.
Programmed(old, new) == IF old = Blank THEN new ELSE Junk

\* nand_read_page, as data: a blank page reads as 0xff, anything uncorrectable
\* is delivered as it came.
Decode(c) == IF c = Blank THEN FF ELSE c

-----------------------------------------------------------------------------
(* The writer *)

\* The partition holds the old image where an earlier, fault-free flash put it
\* (in order, in the good blocks), or is blank if the image never fitted.
GoodIn(mk, bs) == {x \in bs : ~BadWith(mk[x])}

OldFits(mk) == Cardinality(GoodIn(mk, Partition)) * PagesPerBlock >= ImagePages

OldCell(mk, b, p) ==
    LET k == Cardinality(GoodIn(mk, PtnStart .. b - 1)) * PagesPerBlock + p + 1
    IN  CASE b \notin Partition -> Other
          [] b \in GoodIn(mk, Partition) /\ OldFits(mk) /\ k <= ImagePages
                -> ImagePages + k
          [] OTHER -> Blank

Init ==
    /\ marks \in [Blocks -> {0, MarkPages}]
    /\ cell = [b \in Blocks |-> [p \in Pages |-> OldCell(marks, b, p)]]
    /\ pc = "erase" /\ curblk = PtnStart
    /\ src = [k \in Image |-> k]
    /\ pagecnt = 0 /\ cur = 0 /\ rem = ImagePages /\ try = 1
    /\ rpc = "idle" /\ rblk = PtnStart /\ rpg = 0 /\ rcnt = 0
    /\ dst = [k \in Image |-> Blank]
    /\ at = [k \in Image |-> <<PtnStart, 0>>]
    /\ abandoned = {} /\ unerased = {}

\* Mutants of FlashErase: the writer goes on from where the erase loop ended; the
\* loop is off by one block.
FlashEraseNoReset ==
    /\ pc = "erase"
    /\ EraseOk(curblk)
    /\ curblk' = curblk + 1
    /\ pc' = IF curblk + 1 < PtnStart + PtnBlocks THEN "erase" ELSE "check"
    /\ UNCHANGED <<src, pagecnt, cur, rem, try, at, abandoned, unerased>>
    /\ UNCHANGED reader

FlashEraseOffByOne ==
    /\ pc = "erase"
    /\ EraseOk(curblk + 1)
    /\ IF curblk + 1 < PtnStart + PtnBlocks
       THEN pc' = "erase" /\ curblk' = curblk + 1
       ELSE pc' = "check" /\ curblk' = PtnStart
    /\ UNCHANGED <<src, pagecnt, cur, rem, try, at, abandoned, unerased>>
    /\ UNCHANGED reader

\* flash_erase, one block of the partition; bad blocks are erased like the
\* others and the number of failures is dropped by flash_write.
FlashErase ==
    /\ pc = "erase"
    /\ \/ EraseOk(curblk) /\ UNCHANGED unerased
       \/ EraseFail(curblk) /\ unerased' = unerased \cup {curblk}
    /\ IF curblk + 1 < PtnStart + PtnBlocks
       THEN pc' = "erase" /\ curblk' = curblk + 1
       ELSE pc' = "check" /\ curblk' = PtnStart
    /\ UNCHANGED <<src, pagecnt, cur, rem, try, at, abandoned>>
    /\ UNCHANGED reader

\* try_again: the block is bad, go on with the next one.
SkipBadBlock ==
    /\ pc = "check" /\ curblk < NBlocks
    /\ IsBad(curblk)
    /\ curblk' = curblk + 1
    /\ try' = 1
    /\ UNCHANGED <<pc, src, pagecnt, cur, rem, at, abandoned, unerased>>
    /\ UNCHANGED chip /\ UNCHANGED reader

\* Mutant of EnterBlock: the bad block check is forgotten.
EnterAnyBlock ==
    /\ pc = "check" /\ curblk < NBlocks
    /\ pc' = "prog" /\ pagecnt' = 0
    /\ UNCHANGED <<src, curblk, cur, rem, try, at, abandoned, unerased>>
    /\ UNCHANGED chip /\ UNCHANGED reader

\* The block is good: start programming it at its first page.
EnterBlock ==
    /\ pc = "check" /\ curblk < NBlocks
    /\ ~IsBad(curblk)
    /\ pc' = "prog" /\ pagecnt' = 0
    /\ UNCHANGED <<src, curblk, cur, rem, try, at, abandoned, unerased>>
    /\ UNCHANGED chip /\ UNCHANGED reader

\* Nothing stops the loop at the end of the chip (nor of the partition); the
\* model stops there.
RunOffChip ==
    /\ pc = "check" /\ curblk = NBlocks
    /\ pc' = "off"
    /\ UNCHANGED <<src, curblk, pagecnt, cur, rem, try, at, abandoned, unerased>>
    /\ UNCHANGED chip /\ UNCHANGED reader

\* The page was programmed and nand_program_page returned 0.
PageWritten ==
    /\ rem' = rem - 1 /\ cur' = cur + 1
    /\ at' = [at EXCEPT ![cur + 1] = <<curblk, pagecnt>>]
    /\ IF rem - 1 <= 0
       THEN pc' = "done" /\ curblk' = curblk + 1 /\ UNCHANGED <<pagecnt, try>>
       ELSE IF pagecnt + 1 < PagesPerBlock
       THEN pagecnt' = pagecnt + 1 /\ UNCHANGED <<pc, curblk, try>>
       ELSE pc' = "check" /\ curblk' = curblk + 1 /\ try' = 1 /\ pagecnt' = 0

\* Mutants of RewindBlock: the pages of the block are not counted again; one page
\* too many is taken back.
RewindNothing ==
    /\ pc' = "recover"
    /\ UNCHANGED <<cur, rem, curblk, pagecnt, try, at>>

RewindOneTooMany ==
    /\ rem' = rem + pagecnt + 1 /\ cur' = cur - pagecnt - 1
    /\ pc' = "recover"
    /\ UNCHANGED <<curblk, pagecnt, try, at>>

\* nand_program_page returned < 0: back to the first page of the block.
RewindBlock ==
    /\ rem' = rem + pagecnt /\ cur' = cur - pagecnt
    /\ pc' = "recover"
    /\ UNCHANGED <<curblk, pagecnt, try, at>>

\* nand_program_page: the status is ok and the page is read back into the
\* buffer it was programmed from.
ProgramPage ==
    /\ pc = "prog"
    /\ \E v \in {Programmed(cell[curblk][pagecnt], src[cur + 1])} \cup
                (IF "uncor" \in Faults THEN {Junk} ELSE {}) :
          /\ cell' = [cell EXCEPT ![curblk][pagecnt] = v]
          /\ src'  = [src EXCEPT ![cur + 1] = v]
    /\ PageWritten
    /\ UNCHANGED <<marks, abandoned, unerased>> /\ UNCHANGED reader

\* nand_program_page: the status register reports a program error (-1).
ProgramFail ==
    /\ pc = "prog" /\ "program" \in Faults
    /\ cell' = [cell EXCEPT ![curblk][pagecnt] = Junk]
    /\ RewindBlock
    /\ UNCHANGED <<marks, src, abandoned, unerased>> /\ UNCHANGED reader

\* nand_program_page: the status is ok, but the page reads back blank (-6).  The
\* blank page has been read into the buffer.
ProgramReadsBlank ==
    /\ pc = "prog" /\ "blank" \in Faults
    /\ cell[curblk][pagecnt] = Blank
    /\ src' = [src EXCEPT ![cur + 1] = Decode(Blank)]
    /\ RewindBlock
    /\ UNCHANGED <<cell, marks, abandoned, unerased>> /\ UNCHANGED reader

\* "Cancel try again.": the erase failed (and marked the block), next block.
GiveUpErase ==
    /\ pc = "recover"
    /\ EraseFail(curblk)
    /\ abandoned' = abandoned \cup {curblk}
    /\ pc' = "check" /\ curblk' = curblk + 1 /\ try' = 1
    /\ UNCHANGED <<src, pagecnt, cur, rem, at, unerased>> /\ UNCHANGED reader

\* Mutant of TryAgain: try is not counted down.
TryForever ==
    /\ pc = "recover" /\ try = 1
    /\ EraseOk(curblk)
    /\ pc' = "check"
    /\ UNCHANGED <<try, src, curblk, pagecnt, cur, rem, at, abandoned, unerased>>
    /\ UNCHANGED reader

\* The erase worked and a try is left: the same block again.
TryAgain ==
    /\ pc = "recover" /\ try = 1
    /\ EraseOk(curblk)
    /\ pc' = "check" /\ try' = 0
    /\ UNCHANGED <<src, curblk, pagecnt, cur, rem, at, abandoned, unerased>>
    /\ UNCHANGED reader

\* The erase worked after the second failure: mark the block bad, next block.
\* (The markers are in the OOB; the data area stays erased.)
GiveUpBlock ==
    /\ pc = "recover" /\ try = 0
    /\ cell' = [cell EXCEPT ![curblk] = ErasedBlock]
    /\ \E m \in MarkOutcomes(0) : marks' = [marks EXCEPT ![curblk] = m]
    /\ abandoned' = abandoned \cup {curblk}
    /\ pc' = "check" /\ curblk' = curblk + 1 /\ try' = 1
    /\ UNCHANGED <<src, pagecnt, cur, rem, at, unerased>> /\ UNCHANGED reader

\* Power fails between two device operations; the RAM is lost.
PowerCut ==
    /\ "power" \in Faults
    /\ pc \in {"erase", "check", "prog", "recover"}
    /\ pc' = "cut"
    /\ UNCHANGED <<src, curblk, pagecnt, cur, rem, try, at, abandoned, unerased>>
    /\ UNCHANGED chip /\ UNCHANGED reader

-----------------------------------------------------------------------------
(* The reader: nand_boot on the next start *)

Writing == pc \in {"erase", "check", "prog", "recover"}

\* do_nand(offset, CFG_NAND_PAGE_SIZE, CFG_KERNEL_DST)
StartHeader ==
    /\ ~Writing /\ rpc = "idle"
    /\ rpc' = "skip" /\ rblk' = PtnStart /\ rpg' = 0
    /\ UNCHANGED <<rcnt, dst>> /\ UNCHANGED chip /\ UNCHANGED writer

\* while (nand_block_is_bad(page / page_per_block)) page += page_per_block;
SkipLoop ==
    /\ rpc = "skip" /\ rblk < NBlocks
    /\ IF IsBad(rblk) THEN rblk' = rblk + 1 /\ UNCHANGED rpc
                      ELSE rpc' = "read" /\ UNCHANGED rblk
    /\ UNCHANGED <<rpg, rcnt, dst>> /\ UNCHANGED chip /\ UNCHANGED writer

\* In the copy loop: at a block boundary, skip a bad block.
ReadSkipsBlock ==
    /\ rpc = "read" /\ rblk < NBlocks
    /\ rpg = 0 /\ IsBad(rblk)
    /\ rblk' = rblk + 1
    /\ UNCHANGED <<rpc, rpg, rcnt, dst>> /\ UNCHANGED chip /\ UNCHANGED writer

HasMagic(c) == c \in {1, ImagePages + 1}

\* init_boot_linux looks at the magic of the header page only.
BootOutcome(d) == IF HasMagic(d[1]) THEN "kernel" ELSE "magic"

\* Copy one page.  After the header page nand_boot calls do_nand again, at
\* offset + one page: the block number is back at the start of the partition.
ReadPage ==
    /\ rpc = "read" /\ rblk < NBlocks
    /\ rpg # 0 \/ ~IsBad(rblk)
    /\ dst' = [dst EXCEPT ![rcnt + 1] = Decode(cell[rblk][rpg])]
    /\ rcnt' = rcnt + 1
    /\ IF rcnt + 1 = ImagePages
       THEN rpc' = BootOutcome(dst') /\ UNCHANGED <<rblk, rpg>>
       ELSE IF rcnt = 0
       THEN rpc' = "skip" /\ rblk' = PtnStart /\ rpg' = 1
       ELSE /\ UNCHANGED rpc
            /\ IF rpg + 1 < PagesPerBlock
               THEN rpg' = rpg + 1 /\ UNCHANGED rblk
               ELSE rpg' = 0 /\ rblk' = rblk + 1
    /\ UNCHANGED chip /\ UNCHANGED writer

-----------------------------------------------------------------------------
Write ==
    \/ FlashErase \/ SkipBadBlock \/ EnterBlock \/ RunOffChip
    \/ ProgramPage \/ ProgramFail \/ ProgramReadsBlank
    \/ GiveUpErase \/ TryAgain \/ GiveUpBlock

Read == StartHeader \/ SkipLoop \/ ReadSkipsBlock \/ ReadPage

Next == Write \/ Read \/ PowerCut

Spec == Init /\ [][Next]_vars

\* The writer and the reader are straight-line loops of the only thread: as long
\* as the power stays on they go on.
FairSpec == Spec /\ WF_vars(Write) /\ WF_vars(Read)

-----------------------------------------------------------------------------
(* Properties *)

\* Every variable stays in its range (the cursors may stand one past the end).
TypeOK ==
    /\ cell \in [Blocks -> [Pages -> Contents]]
    /\ marks \in [Blocks -> 0 .. MarkPages]
    /\ pc \in {"erase", "check", "prog", "recover", "done", "off", "cut"}
    /\ src \in [Image -> Contents]
    /\ curblk \in 0 .. NBlocks
    /\ pagecnt \in Pages
    /\ cur \in 0 .. ImagePages /\ rem \in 0 .. ImagePages
    /\ try \in {0, 1}
    /\ rpc \in {"idle", "skip", "read", "kernel", "magic"}
    /\ rblk \in 0 .. NBlocks /\ rpg \in Pages
    /\ rcnt \in 0 .. ImagePages
    /\ dst \in [Image -> Contents]
    /\ at \in [Image -> Blocks \X Pages]
    /\ abandoned \subseteq Blocks /\ unerased \subseteq Blocks

\* do_nand finds the image where nand_write_nooob put it.  Once the write is
\* over, and if every block the writer gave up really reads as bad (at least
\* three of its four markers took), page k read at boot is what was in page k
\* of the download buffer, whatever blocks were skipped, retried or given up.
ReaderFindsImage ==
    (pc = "done" /\ \A b \in abandoned : IsBad(b)) =>
        \A k \in 1 .. rcnt : dst[k] = src[k]

\* nand_write_nooob leaves its partition only when the partition is used up:
\* nothing below it changes, and while a block above it has been touched every
\* block of the partition is bad, was given up, or holds pages of the image.
SpillOnlyWhenFull ==
    \A x \in Blocks \ Partition :
        (\E p \in Pages : cell[x][p] # Other) =>
            /\ x >= PtnStart
            /\ \A b \in Partition :
                  \/ IsBad(b) \/ b \in abandoned
                  \/ \E k \in 1 .. cur : at[k][1] = b

\* flash_erase goes upward, so the old header is the first page to go: after a
\* power cut the kernel is entered either with the old image complete or with
\* the header of the new one, unless a block that could not be erased was not
\* marked bad either.
OldHeaderMeansOldImage ==
    (rpc = "kernel" /\ dst[1] # 1 /\ \A b \in unerased : IsBad(b)) =>
        \A k \in Image : dst[k] = ImagePages + k

\* After the partition has been erased, nand_write_nooob never programs or
\* erases a block that nand_block_is_bad reports.
BadBlocksUntouched ==
    [][pc # "erase" => \A b \in Blocks : IsBad(b) => cell'[b] = cell[b]]_vars

\* What the protocol document promises of "flash:%s": the downloaded image is
\* written.  flash_write always reports success, and the read-back overwrites
\* the buffer that the retry programs from.
FlashedIsDownloaded ==
    pc = "done" => \A k \in Image : cell[at[k][1]][at[k][2]] = k

\* The retry logic (one retry per block, then the block is given up) cannot
\* loop: the write comes to its end or to the end of the chip.
WriteTerminates == <>~Writing

-----------------------------------------------------------------------------
(* The inductive invariant behind ReaderFindsImage *)

\* A block the writer passed over without leaving pages of the image in it.
Skipped(b) == IsBad(b) \/ b \in abandoned

\* The writer's order of places: the next page of the block, or the first page
\* of the next block that was not skipped.
Follows(p, q) ==
    IF p[2] + 1 < PagesPerBlock
    THEN q = <<p[1], p[2] + 1>>
    ELSE q[2] = 0 /\ q[1] > p[1] /\ \A b \in p[1] + 1 .. q[1] - 1 : Skipped(b)

\* Block b is where the page after the n-th is to go, if it starts a block.
Frontier(n, b) ==
    IF n = 0
    THEN \A x \in PtnStart .. b - 1 : Skipped(x)
    ELSE at[n][2] + 1 = PagesPerBlock /\ at[n][1] < b
         /\ \A x \in at[n][1] + 1 .. b - 1 : Skipped(x)

\* Pages the writer has finished with: those of earlier blocks.
Settled == IF pc = "prog" THEN cur - pagecnt ELSE cur

\* curaddr and realbytes move together through every rewind.
BookInv ==
    /\ cur + rem = ImagePages
    /\ pc \in {"erase", "check", "prog", "recover"} => rem > 0
    /\ pc = "erase" => cur = 0
    /\ pc = "done" => cur = ImagePages
    /\ pc = "erase" => curblk \in Partition
    /\ pc \in {"prog", "recover"} => curblk < NBlocks
    /\ pc = "prog" => pagecnt <= cur
    /\ curblk >= PtnStart

\* The pages written so far form a chain in the writer's order, each holding
\* what the buffer holds.
ChainInv ==
    /\ \A k \in Image : src[k] # Blank
    /\ \A k \in 1 .. cur : /\ cell[at[k][1]][at[k][2]] = src[k]
                            /\ at[k][1] >= PtnStart
                            /\ ~Skipped(at[k][1])
    /\ cur > 0 => at[1][2] = 0 /\ \A b \in PtnStart .. at[1][1] - 1 : Skipped(b)
    /\ \A k \in 1 .. cur - 1 : Follows(at[k], at[k + 1])

\* Where the writer stands: the frontier of the chain, below it nothing more
\* will change, and the pages of the current block are its first pagecnt ones.
FrontierInv ==
    /\ pc \in {"check", "prog", "recover"} =>
          /\ Frontier(Settled, curblk)
          /\ \A k \in 1 .. Settled : at[k][1] < curblk
          /\ \A b \in abandoned : b < curblk
    /\ pc = "erase" => abandoned = {}
    /\ pc \in {"prog", "recover"} => ~IsBad(curblk)
    /\ pc = "prog" =>
          \A i \in 1 .. pagecnt : at[cur - pagecnt + i] = <<curblk, i - 1>>

\* Where the reader stands on that chain, once the write is over.
ReaderInv ==
    /\ Writing => rpc = "idle"
    /\ rpc = "idle" => rcnt = 0
    /\ rpc \in {"skip", "read"} => rcnt < ImagePages
    /\ (pc = "done" /\ \A b \in abandoned : IsBad(b)) =>
          /\ \A k \in 1 .. rcnt : dst[k] = src[k]
          /\ rpc = "skip" =>
                /\ rpg = rcnt /\ rcnt <= 1 /\ rblk >= PtnStart
                /\ \A b \in PtnStart .. rblk - 1 : IsBad(b)
          /\ (rpc = "read" /\ rpg = 0) => rblk >= PtnStart /\ Frontier(rcnt, rblk)
          /\ (rpc = "read" /\ rpg > 0) => rcnt > 0 /\ at[rcnt] = <<rblk, rpg - 1>>

IInv == TypeOK /\ BookInv /\ ChainInv /\ FrontierInv /\ ReaderInv

=============================================================================
