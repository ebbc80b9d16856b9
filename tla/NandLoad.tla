------------------------------ MODULE NandLoad ------------------------------
(***************************************************************************)
(* How x-boot gets from NAND into RAM, and how it finds its own logos:       *)
(*                                                                         *)
(*   stage "spl": nand_load (spl/nand/jz4780_nand.c) copies the header page   *)
(*                and then LoadPages pages behind it;                        *)
(*   stage "x":   boot_main reads the header again and get_image             *)
(*                (boot/common/xbootimg.c) an image, both with do_nand         *)
(*                (boot/nand/jz4780_nand.c).                                  *)
(*                                                                         *)
(* A page that the ECC cannot correct is read again at other read voltages   *)
(* (nand_retry.c, compiled into both stages).  The chip keeps the voltage it  *)
(* was given last; the counter that picks the next one is a static variable  *)
(* of each stage.                                                            *)
(*                                                                         *)
(* The image is burned by a tool outside this repository: taken to fill the  *)
(* good blocks from XbootBlock on, page after page, as nand_write_nooob does.  *)
(***************************************************************************)
EXTENDS Integers, FiniteSets, Sequences

CONSTANTS
    NBlocks,        \* erase blocks of the chip (bounds the device)
    PagesPerBlock,  \* page_per_block
    XbootBlock,     \* CFG_NAND_X_BOOT_OFFS / CFG_NAND_BLOCK_SIZE
    ImageOffset,    \* desc->image_offset of x-boot: 1, mkxbootimg puts it first
    LoadPages,      \* 2M / page_size
    CodePages,      \* how many of them are x-boot itself
    LogoOffset,     \* desc->image_offset of a logo
    NSteps,         \* ECC blocks of a page: ecc_count, ECC_STEPS
    NLevels,        \* read voltages in retrydata: 8 on NEW_HYNIX_NAND
    RetryCount,     \* RETRY_COUNT: NLevels there, 0 on other chips
    StartLevels,    \* voltages a reset may leave the chip at
    Kinds,          \* how pages may read: [Steps -> SUBSET Levels]
    MaxBad,         \* bad blocks (bounds the initial states)
    MaxWeak         \* pages that do not read at every voltage (the same)

Blocks == 0 .. NBlocks - 1
Pages  == 0 .. NBlocks * PagesPerBlock - 1
Levels == 0 .. NLevels - 1
Steps  == 1 .. NSteps

ASSUME NandLoadAssumption ==
    /\ NBlocks \in Nat \ {0} /\ PagesPerBlock \in Nat \ {0}
    /\ XbootBlock \in Blocks
    /\ ImageOffset \in Nat \ {0} /\ LoadPages \in Nat \ {0} /\ LogoOffset \in Nat
    /\ CodePages \in 1 .. LoadPages
    /\ NSteps \in Nat \ {0} /\ NLevels \in Nat \ {0}
    /\ RetryCount \in {0, NLevels}
    /\ StartLevels \subseteq Levels
    /\ Kinds \subseteq [Steps -> SUBSET Levels]

VARIABLES
    \* the chip
    bad,     \* blocks whose markers read as bad
    reads,   \* reads[p][s]: voltages at which step s of page p is correctable
    level,   \* the voltage set last
    \* the program
    stage,   \* "spl" "x" | "done" "lost"
    pc,      \* "find" "copy" "read"
    count,   \* static count of set_read_retry_data
    page,    \* page
    left,    \* pages still to copy
    tries,   \* count of nand_read_page
    step,    \* i of nand_read_page in x-boot; the SPL decodes whole pages
    hurt,    \* steps of the page x-boot could not correct
    \* history
    start,   \* the voltage at reset
    got,     \* pages the SPL delivered: the page read, and the damaged steps
    xgot     \* the same for x-boot

chip    == <<bad, reads>>
history == <<start, got, xgot>>
vars    == <<bad, reads, level, stage, pc, count, page, left, tries, step, hurt,
             start, got, xgot>>

BlockOf(p) == p \div PagesPerBlock

XbootPage == XbootBlock * PagesPerBlock

\* The pages from the first block of x-boot on; nothing below is read here.
Burned == XbootPage .. NBlocks * PagesPerBlock - 1

\* The chip has room for what is read, behind as many bad blocks: nothing in the code
\* looks for the end of the chip.
ASSUME RoomAssumption ==
    /\ MaxBad \in Nat
    /\ XbootPage + LoadPages + ImageOffset + PagesPerBlock * MaxBad <= NBlocks * PagesPerBlock
    /\ XbootPage + LogoOffset + 1 + PagesPerBlock * MaxBad <= NBlocks * PagesPerBlock

Sound == [s \in Steps |-> Levels]

Init ==
    /\ bad \in {b \in SUBSET Blocks : Cardinality(b) <= MaxBad}
    /\ \E weak \in {w \in SUBSET Burned : Cardinality(w) <= MaxWeak} :
          \E kind \in [weak -> Kinds] :
              reads = [p \in Pages |-> IF p \in weak THEN kind[p] ELSE Sound]
    /\ level \in StartLevels /\ start = level
    /\ stage = "spl" /\ pc = "find" /\ count = 1
    /\ page = XbootPage /\ left = LoadPages
    /\ tries = 0 /\ step = 1 /\ hurt = {}
    /\ got = <<>> /\ xgot = <<>>

-----------------------------------------------------------------------------
(* nand_retry.c *)

\* Mutant of SetReadRetryData: the counter does not wrap to the first setting.
SetReadRetryStuck ==
    LET c == IF count = NLevels THEN NLevels - 1 ELSE count
    IN  level' = c /\ count' = c + 1

\* set_read_retry_data: the next of the settings, in a circle.
SetReadRetryData ==
    LET c == IF count = NLevels THEN 0 ELSE count
    IN  level' = c /\ count' = c + 1

-----------------------------------------------------------------------------
(* Skipping bad blocks: the same two loops in nand_load and in do_nand *)

IsBad(p) == BlockOf(p) \in bad

\* while (is_bad_block(page / page_per_block)) page += page_per_block;
FindBlock ==
    /\ pc = "find" /\ IsBad(page)
    /\ page' = page + PagesPerBlock
    /\ UNCHANGED <<level, stage, pc, count, left, tries, step, hurt>>
    /\ UNCHANGED chip /\ UNCHANGED history

\* The SPL reads the header page, do_nand starts to copy.
FoundBlock ==
    /\ pc = "find" /\ ~IsBad(page)
    /\ pc' = IF stage = "spl" THEN "read" ELSE "copy"
    /\ tries' = 0
    /\ UNCHANGED <<level, stage, count, page, left, step, hurt>>
    /\ UNCHANGED chip /\ UNCHANGED history

\* At a block boundary a bad block is passed over.
SkipBlock ==
    /\ pc = "copy" /\ left > 0
    /\ page % PagesPerBlock = 0 /\ IsBad(page)
    /\ page' = page + PagesPerBlock
    /\ UNCHANGED <<level, stage, pc, count, left, tries, step, hurt>>
    /\ UNCHANGED chip /\ UNCHANGED history

\* Mutant of CopyPage: the block is not looked at.
CopyAnyPage ==
    /\ pc = "copy" /\ left > 0
    /\ pc' = "read" /\ tries' = 0 /\ step' = 1 /\ hurt' = {}
    /\ UNCHANGED <<level, stage, count, page, left>>
    /\ UNCHANGED chip /\ UNCHANGED history

CopyPage ==
    /\ pc = "copy" /\ left > 0
    /\ page % PagesPerBlock # 0 \/ ~IsBad(page)
    /\ pc' = "read" /\ tries' = 0 /\ step' = 1 /\ hurt' = {}
    /\ UNCHANGED <<level, stage, count, page, left>>
    /\ UNCHANGED chip /\ UNCHANGED history

-----------------------------------------------------------------------------
(* nand_read_page of the SPL *)

HeaderRead == Len(got) > 0

\* nand_load reads desc->image_offset + page, but looks for bad blocks at page.
SplPage == IF HeaderRead THEN page + ImageOffset ELSE page

Damaged(p) == {s \in Steps : level \notin reads[p][s]}

\* An uncorrectable step: the whole page is read again at the next voltage.
SplRetry ==
    /\ stage = "spl" /\ pc = "read"
    /\ Damaged(SplPage) # {}
    /\ tries + 1 < RetryCount
    /\ tries' = tries + 1
    /\ SetReadRetryData
    /\ UNCHANGED <<stage, pc, page, left, step, hurt>>
    /\ UNCHANGED chip /\ UNCHANGED history

\* The page is correct, or no retry is left; nand_read_page returns 0 anyway.
\* The descriptors of a damaged header page lead anywhere.
SplDelivered ==
    /\ stage = "spl" /\ pc = "read"
    /\ Damaged(SplPage) = {} \/ tries + 1 >= RetryCount
    /\ got' = Append(got, [page |-> SplPage, hurt |-> Damaged(SplPage)])
    /\ IF HeaderRead
       THEN pc' = "copy" /\ page' = page + 1 /\ left' = left - 1 /\ UNCHANGED stage
       ELSE /\ pc' = "copy" /\ UNCHANGED <<page, left>>
            /\ stage' = IF Damaged(SplPage) = {} THEN "spl" ELSE "lost"
    /\ UNCHANGED <<level, count, tries, step, hurt, start, xgot>>
    /\ UNCHANGED chip

-----------------------------------------------------------------------------
(* The image as it was burned *)

GoodBelow(b) == {x \in XbootBlock .. b - 1 : x \notin bad}

\* Where page k of the image is on the chip (page 0 is the header).
Place(k) ==
    LET b == CHOOSE x \in Blocks : /\ x >= XbootBlock /\ x \notin bad
                                   /\ Cardinality(GoodBelow(x)) = k \div PagesPerBlock
    IN  (b * PagesPerBlock) + (k % PagesPerBlock)

LoadedRight ==
    \A k \in 2 .. CodePages + 1 : got[k] = [page |-> Place(ImageOffset + k - 2), hurt |-> {}]

\* (*xboot)(SECOND_IMAGE_SECTOR): only the right code runs on.  x-boot has its
\* own static count, starts with the voltage the SPL left, unless the nand_reset of its
\* get_read_retry_data changes it, and reads the header.
Handoff ==
    /\ stage = "spl" /\ pc = "copy" /\ left = 0
    /\ stage' = IF LoadedRight THEN "x" ELSE "lost"
    /\ pc' = "find" /\ page' = XbootPage /\ left' = 1 /\ count' = 1
    /\ level' \in StartLevels \cup {level}
    /\ UNCHANGED <<tries, step, hurt>>
    /\ UNCHANGED chip /\ UNCHANGED history

-----------------------------------------------------------------------------
(* nand_read_page of x-boot *)

XReading == stage = "x" /\ pc = "read" /\ step <= NSteps

\* Mutant of XTriesLeft: counted before it is compared, as in the SPL.
XTriesLeftSpl == tries + 1 < RetryCount

\* Mutant of XTriesLeft: one retry too many.
XTriesLeftOneMore == tries <= RetryCount

XTriesLeft == tries < RetryCount

StepReads == level \in reads[page][step]

XStepOk ==
    /\ XReading /\ StepReads
    /\ step' = step + 1 /\ tries' = 0
    /\ UNCHANGED <<level, stage, pc, count, page, left, hurt>>
    /\ UNCHANGED chip /\ UNCHANGED history

\* Mutant of XStepRetry: the retries are not counted.
XStepRetryForever ==
    /\ XReading /\ ~StepReads
    /\ XTriesLeft
    /\ tries' = tries
    /\ SetReadRetryData
    /\ UNCHANGED <<stage, pc, page, left, step, hurt>>
    /\ UNCHANGED chip /\ UNCHANGED history

\* k = i; goto retry: the steps before this one keep what they decoded to.
XStepRetry ==
    /\ XReading /\ ~StepReads
    /\ XTriesLeft
    /\ tries' = tries + 1
    /\ SetReadRetryData
    /\ UNCHANGED <<stage, pc, page, left, step, hurt>>
    /\ UNCHANGED chip /\ UNCHANGED history

\* "read failed!"
XStepHurt ==
    /\ XReading /\ ~StepReads
    /\ ~XTriesLeft
    /\ hurt' = hurt \cup {step}
    /\ step' = step + 1 /\ tries' = 0
    /\ UNCHANGED <<level, stage, pc, count, page, left>>
    /\ UNCHANGED chip /\ UNCHANGED history

XDelivered ==
    /\ stage = "x" /\ pc = "read" /\ step > NSteps
    /\ xgot' = Append(xgot, [page |-> page, hurt |-> hurt])
    /\ pc' = "copy" /\ page' = page + 1 /\ left' = left - 1
    /\ UNCHANGED <<level, stage, count, tries, step, hurt, start, got>>
    /\ UNCHANGED chip

\* Mutant of GetImage: the offset is taken from the beginning of the chip.
GetImageAbsolute ==
    /\ stage = "x" /\ pc = "copy" /\ left = 0 /\ Len(xgot) = 1
    /\ pc' = "find" /\ page' = LogoOffset /\ left' = 1
    /\ UNCHANGED <<level, stage, count, tries, step, hurt>>
    /\ UNCHANGED chip /\ UNCHANGED history

\* get_image with the header just read (the SPL could read it, so can x-boot):
\* do_nand from image_base + image_offset.
GetImage ==
    /\ stage = "x" /\ pc = "copy" /\ left = 0 /\ Len(xgot) = 1
    /\ pc' = "find" /\ page' = XbootPage + LogoOffset /\ left' = 1
    /\ UNCHANGED <<level, stage, count, tries, step, hurt>>
    /\ UNCHANGED chip /\ UNCHANGED history

GotImage ==
    /\ stage = "x" /\ pc = "copy" /\ left = 0 /\ Len(xgot) = 2
    /\ stage' = "done"
    /\ UNCHANGED <<level, pc, count, page, left, tries, step, hurt>>
    /\ UNCHANGED chip /\ UNCHANGED history

Finished == stage \in {"done", "lost"} /\ UNCHANGED vars

Loading == stage \in {"spl", "x"}

Load ==
    /\ Loading
    /\ \/ FindBlock \/ FoundBlock \/ SkipBlock \/ CopyPage
       \/ SplRetry \/ SplDelivered \/ Handoff
       \/ XStepOk \/ XStepRetry \/ XStepHurt \/ XDelivered \/ GetImage \/ GotImage

Next == Load \/ Finished

\* One thread that never waits: as long as the power is on it goes on.
Spec == Init /\ [][Next]_vars /\ WF_vars(Load)

-----------------------------------------------------------------------------
(* Properties *)

Delivery == [page : Pages, hurt : SUBSET Steps]

TypeOK ==
    /\ bad \subseteq Blocks /\ reads \in [Pages -> [Steps -> SUBSET Levels]]
    /\ level \in Levels /\ start \in Levels
    /\ stage \in {"spl", "x", "done", "lost"} /\ pc \in {"find", "copy", "read"}
    /\ count \in 1 .. NLevels
    /\ page \in 0 .. NBlocks * PagesPerBlock /\ left \in 0 .. LoadPages
    /\ tries \in 0 .. RetryCount
    /\ step \in 1 .. NSteps + 1 /\ hurt \subseteq Steps
    /\ got \in Seq(Delivery) /\ xgot \in Seq(Delivery)

\* A page that reads whole at some voltage.
Readable(p) == \E l \in Levels : \A s \in Steps : l \in reads[p][s]

GivenUp == {k \in 1 .. Len(got) : got[k].hurt # {} /\ Readable(got[k].page)}

\* The retries of the SPL go all the way round the circle although they start
\* wherever the page before left it: a page is delivered damaged only if it reads
\* at no voltage.  The exception is one page, at most, after a reset that left
\* the chip at another voltage than the first: the first voltage is not tried for
\* it, because count starts at 1.
GivenUpOnlyIfUnreadable ==
    RetryCount > 0 =>
        /\ Cardinality(GivenUp) <= 1
        /\ \A k \in GivenUp :
              /\ start # 0
              /\ \A l \in Levels \ {0} : \E s \in Steps : l \notin reads[got[k].page][s]

\* x-boot decodes a page step by step, each step with its own retries and at
\* whatever voltage the SPL or the step before left: a step is damaged only if
\* it reads at no voltage.
XbootTriesAll ==
    RetryCount > 0 =>
        \A k \in 1 .. Len(xgot) : \A s \in xgot[k].hurt : \A l \in Levels :
            l \notin reads[xgot[k].page][s]

\* What nand_load delivers as page k of the image is that page, unless the page
\* is the first of a block behind a bad one: then the bad block itself is read.
OnlyBlockHeadsMisread ==
    \A k \in 2 .. Len(got) :
        LET q == Place(ImageOffset + k - 2)
        IN  \/ got[k].page = q
            \/ /\ q % PagesPerBlock = 0 /\ BlockOf(q) - 1 \in bad
               /\ BlockOf(got[k].page) \in bad

\* get_image counts pages from the block x-boot should be in, bad blocks or not:
\* it finds the image as long as no block below the image's own is bad.
GetImageFinds ==
    (Len(xgot) = 2 /\ \A b \in XbootBlock .. BlockOf(XbootPage + LogoOffset) - 1 : b \notin bad)
        => xgot[2].page = Place(LogoOffset)

\* The retries are bounded and bad blocks are passed over: loading comes to an end.
LoadEnds == <>~Loading

=============================================================================
