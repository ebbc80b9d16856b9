--------------------------- MODULE NandImageProofs ---------------------------
(***************************************************************************)
(* Proofs about NandImage, for every chip geometry, partition, image size,  *)
(* set of faults and pattern of bad blocks.                                 *)
(***************************************************************************)
EXTENDS NandImage, FiniteSetTheorems, TLAPS

\* The ranges are sets of integers with the bounds the code uses.
LEMMA Ranges ==
    /\ Blocks \subseteq Int /\ Pages \subseteq Int /\ Image \subseteq Int
    /\ PtnStart \in Blocks /\ 0 \in Pages /\ 1 \in Image
    /\ Partition \subseteq Blocks
    /\ Image \subseteq Contents
    /\ Blank \in Contents /\ Junk \in Contents /\ FF \in Contents /\ Other \in Contents
BY GeometryAssumption
   DEF Blocks, Pages, Image, Partition, Contents, Blank, Junk, FF, Other

\* The outcomes of the chip's operations have the right type.
LEMMA ChipTypes ==
    /\ ErasedBlock \in [Pages -> Contents] /\ JunkBlock \in [Pages -> Contents]
    /\ \A m \in 0 .. MarkPages : MarkOutcomes(m) \subseteq 0 .. MarkPages
    /\ \A c \in Contents : Decode(c) \in Contents /\ Decode(c) # Blank
    /\ \A o, n \in Contents : Programmed(o, n) \in Contents
BY Ranges, FaultsAssumption
   DEF ErasedBlock, JunkBlock, MarkOutcomes, Decode, Programmed, MarkPages, FF,
       Blank, Contents

\* A block erase, whatever its outcome, keeps the types of the chip's state.
LEMMA EraseTypes ==
    ASSUME TypeOK, NEW b \in Blocks, EraseOk(b) \/ EraseFail(b)
    PROVE  cell' \in [Blocks -> [Pages -> Contents]] /\ marks' \in [Blocks -> 0 .. MarkPages]
<1>1. CASE EraseOk(b)
  BY <1>1, ChipTypes DEF EraseOk, TypeOK, MarkPages
<1>2. CASE EraseFail(b)
  <2>1. PICK c \in {cell[b], JunkBlock} : cell' = [cell EXCEPT ![b] = c]
    BY <1>2 DEF EraseFail
  <2>2. PICK m \in MarkOutcomes(marks[b]) : marks' = [marks EXCEPT ![b] = m]
    BY <1>2 DEF EraseFail
  <2>3. c \in [Pages -> Contents]
    BY ChipTypes DEF TypeOK
  <2>4. m \in 0 .. MarkPages
    BY ChipTypes DEF TypeOK
  <2> QED
    BY <2>1, <2>2, <2>3, <2>4 DEF TypeOK
<1> QED
  BY <1>1, <1>2

-----------------------------------------------------------------------------
(* Type correctness and the bookkeeping of curaddr and realbytes *)

TypeInv ==
    /\ TypeOK /\ BookInv
    /\ rpc = "idle" => rcnt = 0
    /\ rpc \in {"skip", "read"} => rcnt < ImagePages

LEMMA InitType == Init => TypeInv
<1> SUFFICES ASSUME Init PROVE TypeInv
  OBVIOUS
<1>1. cell \in [Blocks -> [Pages -> Contents]]
  <2> SUFFICES ASSUME NEW b \in Blocks, NEW p \in Pages
               PROVE  OldCell(marks, b, p) \in Contents
    BY DEF Init
  <2> DEFINE n == Cardinality(GoodIn(marks, PtnStart .. b - 1))
             k == n * PagesPerBlock + p + 1
  <2>1. n \in Nat
    <3>1. b \in Int /\ PtnStart \in Int
      BY GeometryAssumption DEF Blocks
    <3>2. IsFiniteSet(PtnStart .. b - 1)
      BY <3>1, FS_Interval
    <3>3. GoodIn(marks, PtnStart .. b - 1) \subseteq PtnStart .. b - 1
      BY DEF GoodIn
    <3>4. IsFiniteSet(GoodIn(marks, PtnStart .. b - 1))
      BY <3>2, <3>3, FS_Subset
    <3> QED
      BY <3>4, FS_CardinalityType
  <2>2. p \in Nat
    BY DEF Pages
  <2>3. k \in Nat /\ k >= 1
    BY <2>1, <2>2, GeometryAssumption
  <2>4. k <= ImagePages => ImagePages + k \in Contents
    BY <2>3, GeometryAssumption DEF Contents
  <2> HIDE DEF k, n
  <2> QED
    BY <2>4, Ranges DEF OldCell, k, n
<1>2. marks \in [Blocks -> 0 .. MarkPages]
  BY DEF Init, MarkPages
<1>3. src \in [Image -> Contents] /\ dst \in [Image -> Contents]
  BY Ranges DEF Init
<1>4. at \in [Image -> Blocks \X Pages]
  BY Ranges DEF Init
<1>5. BookInv
  BY GeometryAssumption DEF Init, BookInv, Partition
<1>6. /\ curblk \in 0 .. NBlocks /\ pagecnt \in Pages
      /\ cur \in 0 .. ImagePages /\ rem \in 0 .. ImagePages
      /\ rblk \in 0 .. NBlocks /\ rpg \in Pages /\ rcnt \in 0 .. ImagePages
  BY GeometryAssumption DEF Init, Pages
<1>7. TypeOK
  BY <1>1, <1>2, <1>3, <1>4, <1>6 DEF Init, TypeOK
<1> QED
  BY <1>5, <1>7 DEF TypeInv, Init

\* One step keeps the types and the bookkeeping: one case per action.
LEMMA StepType == TypeInv /\ [Next]_vars => TypeInv'
<1> SUFFICES ASSUME TypeInv, [Next]_vars PROVE TypeInv'
  OBVIOUS
<1> USE DEF TypeInv
<1>t. TypeOK /\ BookInv /\ curblk \in Int /\ pagecnt \in Int /\ cur \in Int
      /\ rem \in Int /\ rblk \in Int /\ rpg \in Int /\ rcnt \in Int
  BY Ranges, GeometryAssumption DEF TypeOK, Pages
<1>1. CASE FlashErase
  <2>1. curblk \in Blocks
    BY <1>1, <1>t, Ranges DEF FlashErase, BookInv
  <2>2. cell' \in [Blocks -> [Pages -> Contents]] /\ marks' \in [Blocks -> 0 .. MarkPages]
    BY <1>1, <1>t, <2>1, EraseTypes DEF FlashErase
  <2>3. unerased' \subseteq Blocks
    BY <1>1, <1>t, <2>1 DEF FlashErase, TypeOK
  <2>4. /\ pc' \in {"erase", "check"}
        /\ curblk' \in 0 .. NBlocks
        /\ pc' = "erase" => curblk' \in Partition
        /\ curblk' >= PtnStart
    BY <1>1, <1>t, GeometryAssumption DEF FlashErase, BookInv, Partition
  <2> QED
    BY <1>1, <1>t, <2>2, <2>3, <2>4 DEF FlashErase, TypeOK, BookInv, reader
<1>2. CASE SkipBadBlock
  BY <1>2, <1>t, GeometryAssumption DEF SkipBadBlock, TypeOK, BookInv, chip, reader
<1>3. CASE EnterBlock
  BY <1>3, <1>t, Ranges, GeometryAssumption DEF EnterBlock, TypeOK, BookInv, chip, reader
<1>4. CASE RunOffChip
  BY <1>4, <1>t DEF RunOffChip, TypeOK, BookInv, chip, reader
<1>5. CASE ProgramPage
  <2>1. curblk \in Blocks /\ cur + 1 \in Image
    BY <1>5, <1>t, GeometryAssumption DEF ProgramPage, BookInv, TypeOK, Blocks, Image
  <2>2. PICK v \in {Programmed(cell[curblk][pagecnt], src[cur + 1])} \cup
                   (IF "uncor" \in Faults THEN {Junk} ELSE {}) :
               /\ cell' = [cell EXCEPT ![curblk][pagecnt] = v]
               /\ src'  = [src EXCEPT ![cur + 1] = v]
    BY <1>5 DEF ProgramPage
  <2>3. v \in Contents
    <3>1. cell[curblk][pagecnt] \in Contents /\ src[cur + 1] \in Contents
      BY <2>1, <1>t DEF TypeOK
    <3>2. Programmed(cell[curblk][pagecnt], src[cur + 1]) \in Contents
      BY <3>1, ChipTypes
    <3> QED
      BY <2>2, <3>2, Ranges
  <2>4. cell' \in [Blocks -> [Pages -> Contents]] /\ src' \in [Image -> Contents]
    BY <2>1, <2>2, <2>3, <1>t DEF TypeOK
  <2>5. at' \in [Image -> Blocks \X Pages]
    BY <1>5, <2>1, <1>t DEF ProgramPage, PageWritten, TypeOK
  <2>6. /\ pc' \in {"done", "prog", "check"} /\ curblk' \in 0 .. NBlocks
        /\ pagecnt' \in Pages /\ try' \in {0, 1}
        /\ cur' \in 0 .. ImagePages /\ rem' \in 0 .. ImagePages
    <3>1. pc = "prog" /\ rem > 0 /\ curblk + 1 \in 0 .. NBlocks
      BY <1>5, <2>1, <1>t, GeometryAssumption DEF ProgramPage, BookInv, Blocks
    <3>2. pc' \in {"done", "prog", "check"} /\ curblk' \in 0 .. NBlocks
      BY <1>5, <3>1, <1>t DEF ProgramPage, PageWritten, TypeOK
    <3>3. pagecnt' \in Pages /\ try' \in {0, 1}
      BY <1>5, <3>1, <1>t, GeometryAssumption DEF ProgramPage, PageWritten, TypeOK, Pages
    <3>4. cur' \in 0 .. ImagePages /\ rem' \in 0 .. ImagePages
      BY <1>5, <3>1, <1>t, GeometryAssumption
         DEF ProgramPage, PageWritten, TypeOK, BookInv
    <3> QED
      BY <3>2, <3>3, <3>4
  <2>7. BookInv'
    BY <1>5, <2>1, <1>t, GeometryAssumption
       DEF ProgramPage, PageWritten, TypeOK, BookInv, Pages
  <2> QED
    BY <1>5, <1>t, <2>4, <2>5, <2>6, <2>7 DEF ProgramPage, TypeOK, reader
<1>6. CASE ProgramFail
  <2>1. cell' \in [Blocks -> [Pages -> Contents]]
    BY <1>6, <1>t, Ranges DEF ProgramFail, TypeOK
  <2> QED
    BY <1>6, <1>t, <2>1, GeometryAssumption
       DEF ProgramFail, RewindBlock, TypeOK, BookInv, Pages, reader
<1>7. CASE ProgramReadsBlank
  <2>1. src' \in [Image -> Contents]
    BY <1>7, <1>t, ChipTypes, Ranges DEF ProgramReadsBlank, TypeOK
  <2> QED
    BY <1>7, <1>t, <2>1, GeometryAssumption
       DEF ProgramReadsBlank, RewindBlock, TypeOK, BookInv, Pages, reader
<1>8. CASE GiveUpErase
  <2>1. curblk \in Blocks
    BY <1>8, <1>t, GeometryAssumption DEF GiveUpErase, BookInv, Blocks
  <2>2. cell' \in [Blocks -> [Pages -> Contents]] /\ marks' \in [Blocks -> 0 .. MarkPages]
    BY <1>8, <1>t, <2>1, EraseTypes DEF GiveUpErase
  <2> QED
    BY <1>8, <1>t, <2>1, <2>2, GeometryAssumption
       DEF GiveUpErase, TypeOK, BookInv, reader, Blocks
<1>9. CASE TryAgain
  <2>1. curblk \in Blocks
    BY <1>9, <1>t, GeometryAssumption DEF TryAgain, BookInv, Blocks
  <2>2. cell' \in [Blocks -> [Pages -> Contents]] /\ marks' \in [Blocks -> 0 .. MarkPages]
    BY <1>9, <1>t, <2>1, EraseTypes DEF TryAgain
  <2> QED
    BY <1>9, <1>t, <2>2 DEF TryAgain, TypeOK, BookInv, reader
<1>10. CASE GiveUpBlock
  <2>1. curblk \in Blocks
    BY <1>10, <1>t, GeometryAssumption DEF GiveUpBlock, BookInv, Blocks
  <2>2. cell' \in [Blocks -> [Pages -> Contents]]
    BY <1>10, <1>t, ChipTypes DEF GiveUpBlock, TypeOK
  <2>3. marks' \in [Blocks -> 0 .. MarkPages]
    <3>1. PICK m \in MarkOutcomes(0) : marks' = [marks EXCEPT ![curblk] = m]
      BY <1>10 DEF GiveUpBlock
    <3>2. 0 \in 0 .. MarkPages
      BY DEF MarkPages
    <3>3. m \in 0 .. MarkPages
      BY <3>2, ChipTypes
    <3> QED
      BY <3>1, <3>3, <1>t DEF TypeOK
  <2> QED
    BY <1>10, <1>t, <2>1, <2>2, <2>3, GeometryAssumption
       DEF GiveUpBlock, TypeOK, BookInv, reader, Blocks
<1>11. CASE PowerCut
  BY <1>11, <1>t DEF PowerCut, TypeOK, BookInv, chip, reader
<1>12. CASE StartHeader
  BY <1>12, <1>t, Ranges, GeometryAssumption
     DEF StartHeader, TypeOK, BookInv, chip, writer
<1>13. CASE SkipLoop
  BY <1>13, <1>t, GeometryAssumption DEF SkipLoop, TypeOK, BookInv, chip, writer
<1>14. CASE ReadSkipsBlock
  BY <1>14, <1>t, GeometryAssumption DEF ReadSkipsBlock, TypeOK, BookInv, chip, writer
<1>15. CASE ReadPage
  <2>1. rcnt < ImagePages /\ rcnt + 1 \in Image /\ rblk \in Blocks
    BY <1>15, <1>t, GeometryAssumption DEF ReadPage, TypeOK, Image, Blocks
  <2>2. dst' \in [Image -> Contents]
    BY <1>15, <1>t, <2>1, ChipTypes DEF ReadPage, TypeOK
  <2>3. /\ rpc' \in {"kernel", "magic", "skip", "read"}
        /\ rpc' \in {"skip", "read"} => rcnt' < ImagePages
        /\ rblk' \in 0 .. NBlocks /\ rpg' \in Pages /\ rcnt' \in 0 .. ImagePages
    <3>1. rcnt' = rcnt + 1 /\ rpc = "read" /\ rblk + 1 \in 0 .. NBlocks
      BY <1>15, <2>1, <1>t, GeometryAssumption DEF ReadPage, Blocks
    <3>2. BootOutcome(dst') \in {"kernel", "magic"}
      BY DEF BootOutcome
    <3>3. CASE rcnt + 1 = ImagePages
      BY <1>15, <3>1, <3>2, <3>3, <1>t DEF ReadPage, TypeOK
    <3>4. CASE rcnt + 1 # ImagePages /\ rcnt = 0
      BY <1>15, <3>1, <3>4, <2>1, <1>t, Ranges, GeometryAssumption DEF ReadPage, TypeOK, Pages, Image
    <3>5. CASE rcnt + 1 # ImagePages /\ rcnt # 0
      <4>0. rpc' = "read"
        BY <1>15, <3>1, <3>5 DEF ReadPage
      <4>1. rcnt' < ImagePages /\ rcnt' \in 0 .. ImagePages
        BY <3>1, <3>5, <2>1, <1>t, GeometryAssumption DEF TypeOK
      <4>2. rblk' \in 0 .. NBlocks /\ rpg' \in Pages
        BY <1>15, <3>1, <3>5, <1>t, GeometryAssumption DEF ReadPage, TypeOK, Pages
      <4> QED
        BY <4>0, <4>1, <4>2
    <3> QED
      BY <3>3, <3>4, <3>5
  <2> QED
    BY <1>15, <1>t, <2>2, <2>3 DEF ReadPage, TypeOK, BookInv, chip, writer
<1>16. CASE UNCHANGED vars
  BY <1>16, <1>t DEF TypeOK, BookInv, vars
<1> QED
  BY <1>1, <1>2, <1>3, <1>4, <1>5, <1>6, <1>7, <1>8, <1>9, <1>10, <1>11, <1>12,
     <1>13, <1>14, <1>15, <1>16 DEF Next, Write, Read

\* Every variable keeps its type, for every geometry and fault set.
THEOREM TypeCorrect == Spec => []TypeOK
<1>1. TypeInv => TypeOK
  BY DEF TypeInv
<1> QED
  BY <1>1, InitType, StepType, PTL DEF Spec

-----------------------------------------------------------------------------
(* do_nand finds the image where nand_write_nooob put it *)

\* The conjuncts of IInv that speak of the writer only.
WriterInv == ChainInv /\ FrontierInv

\* Facts about the numbers of a state, for the arithmetic of the proofs below.
LEMMA Numbers ==
    ASSUME TypeInv
    PROVE  /\ curblk \in Int /\ pagecnt \in Int /\ cur \in Int /\ rem \in Int
           /\ rblk \in Int /\ rpg \in Int /\ rcnt \in Int /\ Settled \in Int
           /\ PtnStart \in Int /\ PagesPerBlock \in Int /\ ImagePages \in Int
           /\ pagecnt >= 0 /\ cur >= 0 /\ rpg >= 0 /\ rcnt >= 0
           /\ pagecnt < PagesPerBlock /\ rpg < PagesPerBlock
           /\ cur <= ImagePages /\ rcnt <= ImagePages
           /\ pc = "prog" => pagecnt <= cur /\ cur < ImagePages
BY GeometryAssumption DEF TypeInv, TypeOK, Settled, Pages, BookInv

\* Places are pairs of a block and a page number.
LEMMA Places ==
    ASSUME TypeInv, NEW k \in 1 .. ImagePages
    PROVE  /\ at[k] = <<at[k][1], at[k][2]>>
           /\ at[k][1] \in Int /\ at[k][2] \in Int
           /\ at[k][1] \in Blocks /\ at[k][2] \in Pages
           /\ at[k][2] >= 0 /\ at[k][2] < PagesPerBlock
<1>1. at[k] \in Blocks \X Pages
  BY GeometryAssumption DEF TypeInv, TypeOK, Image
<1>2. /\ at[k] = <<at[k][1], at[k][2]>>
      /\ at[k][1] \in Blocks /\ at[k][2] \in Pages
  BY <1>1
<1> QED
  BY <1>2, GeometryAssumption DEF Blocks, Pages

LEMMA InitInv == Init => WriterInv /\ ReaderInv
<1> SUFFICES ASSUME Init PROVE WriterInv /\ ReaderInv
  OBVIOUS
<1>1. \A k \in Image : src[k] # Blank
  BY GeometryAssumption DEF Init, Image, Blank
<1> QED
  BY <1>1, GeometryAssumption
     DEF Init, WriterInv, ChainInv, FrontierInv, ReaderInv, Writing

\* Steps that leave the chip and the writer alone keep the writer's invariant.
LEMMA WriterStutters ==
    ASSUME WriterInv, UNCHANGED chip, UNCHANGED writer
    PROVE  WriterInv'
BY DEF WriterInv, ChainInv, FrontierInv, Follows, Frontier, Skipped, IsBad, Settled,
       chip, writer

\* Programming a page of a good block adds the next place to the chain.
LEMMA ProgramInv ==
    ASSUME TypeInv, WriterInv, ProgramPage
    PROVE  WriterInv'
<1> DEFINE n == cur + 1
           here == <<curblk, pagecnt>>
<1>1. /\ pc = "prog" /\ n \in Image /\ curblk \in Blocks /\ pagecnt \in Pages
      /\ Settled = cur - pagecnt /\ Settled >= 0 /\ Settled < n /\ n \in Int
  <2>1. pc = "prog" /\ pagecnt \in Pages /\ curblk \in 0 .. NBlocks /\ curblk < NBlocks
    BY DEF ProgramPage, TypeInv, BookInv, TypeOK
  <2>2. curblk \in Blocks
    BY <2>1, GeometryAssumption DEF Blocks
  <2>3. Settled = cur - pagecnt
    BY <2>1 DEF Settled
  <2> QED
    BY <2>1, <2>2, <2>3, Numbers DEF Image
<1>2. PICK v \in {Programmed(cell[curblk][pagecnt], src[n])} \cup
                 (IF "uncor" \in Faults THEN {Junk} ELSE {}) :
             /\ cell' = [cell EXCEPT ![curblk][pagecnt] = v]
             /\ src'  = [src EXCEPT ![n] = v]
  BY DEF ProgramPage
<1>3. v # Blank
  <2>1. src[n] # Blank
    BY <1>1 DEF WriterInv, ChainInv
  <2> QED
    BY <1>2, <2>1 DEF Programmed, Junk, Blank
<1>4. /\ cur' = n /\ at' = [at EXCEPT ![n] = here]
      /\ UNCHANGED <<marks, abandoned>>
  BY DEF ProgramPage, PageWritten
<1>5. /\ \A k \in 1 .. cur : k \in Image /\ k # n /\ at'[k] = at[k] /\ src'[k] = src[k]
      /\ at'[n] = here /\ src'[n] = v /\ cell'[curblk][pagecnt] = v
  <2>1. \A k \in 1 .. cur : k \in Image /\ k # n
    BY <1>1, Numbers DEF Image
  <2>2. /\ \A k \in Image : k # n => at'[k] = at[k] /\ src'[k] = src[k]
        /\ at'[n] = here /\ src'[n] = v
    BY <1>1, <1>2, <1>4 DEF TypeInv, TypeOK
  <2>3. cell'[curblk][pagecnt] = v
    BY <1>1, <1>2 DEF TypeInv, TypeOK
  <2> QED
    BY <2>1, <2>2, <2>3
<1>6. \A b : Skipped(b)' <=> Skipped(b)
  BY <1>4 DEF Skipped, IsBad
<1>7. ~Skipped(curblk)
  BY <1>1, Numbers DEF WriterInv, FrontierInv, Skipped
<1>8. Frontier(Settled, curblk)
  BY <1>1 DEF WriterInv, FrontierInv
<1>9. curblk >= PtnStart
  BY DEF TypeInv, BookInv
\* the pages of this block so far
<1>10. \A k \in Settled + 1 .. cur : at[k] = <<curblk, k - Settled - 1>>
  <2> SUFFICES ASSUME NEW k \in Settled + 1 .. cur
               PROVE  at[k] = <<curblk, k - Settled - 1>>
    OBVIOUS
  <2>1. k - Settled \in 1 .. pagecnt /\ Settled + (k - Settled) = k /\ k \in Int
    BY <1>1, Numbers
  <2>2. \A i \in 1 .. pagecnt : at[Settled + i] = <<curblk, i - 1>>
    BY <1>1 DEF WriterInv, FrontierInv
  <2> QED
    BY <2>1, <2>2
<1>11. \A k \in 1 .. cur : at[k][1] <= curblk /\ (at[k][1] = curblk => at[k][2] # pagecnt)
  <2> SUFFICES ASSUME NEW k \in 1 .. cur
               PROVE  at[k][1] <= curblk /\ (at[k][1] = curblk => at[k][2] # pagecnt)
    OBVIOUS
  <2>1. CASE k <= Settled
    <3>1. at[k][1] < curblk
      BY <2>1, <1>1, Numbers DEF WriterInv, FrontierInv
    <3> QED
      BY <3>1, <1>1, Numbers, Places
  <2>2. CASE k > Settled
    BY <2>2, <1>1, <1>10, Numbers
  <2> QED
    BY <2>1, <2>2, <1>1, Numbers
<1>12. ChainInv'
  <2>1. \A k \in Image : src'[k] # Blank
    BY <1>2, <1>3, <1>1 DEF WriterInv, ChainInv, TypeInv, TypeOK
  <2>2. ASSUME NEW k \in 1 .. n
        PROVE  /\ cell'[at'[k][1]][at'[k][2]] = src'[k]
               /\ at'[k][1] >= PtnStart /\ ~Skipped(at'[k][1])
    <3>1. CASE k = n
      BY <3>1, <1>5, <1>7, <1>9
    <3>2. CASE k # n
      <4>1. k \in 1 .. cur /\ k \in 1 .. ImagePages
        BY <3>2, <1>1, Numbers
      <4>2. cell'[at[k][1]][at[k][2]] = cell[at[k][1]][at[k][2]]
        BY <4>1, <1>2, <1>11, Places DEF TypeInv, TypeOK
      <4> QED
        BY <4>1, <4>2, <1>5 DEF WriterInv, ChainInv
    <3> QED
      BY <3>1, <3>2
  <2>3. at'[1][2] = 0 /\ \A b \in PtnStart .. at'[1][1] - 1 : Skipped(b)
    <3>1. CASE cur = 0
      <4>1. Settled = 0 /\ pagecnt = 0 /\ n = 1
        BY <3>1, <1>1, Numbers
      <4> QED
        BY <4>1, <1>5, <1>8 DEF Frontier
    <3>2. CASE cur > 0
      <4>1. at'[1] = at[1]
        BY <3>2, <1>5, Numbers
      <4> QED
        BY <3>2, <4>1 DEF WriterInv, ChainInv
    <3> QED
      BY <3>1, <3>2, Numbers
  <2>4. ASSUME NEW k \in 1 .. n - 1
        PROVE  Follows(at'[k], at'[k + 1])
    <3>0. k \in 1 .. cur /\ k \in Int
      BY <1>1, Numbers
    <3>1. CASE k < cur
      <4>1. k + 1 \in 1 .. cur /\ k \in 1 .. cur - 1
        BY <3>0, <3>1, Numbers
      <4>2. at'[k] = at[k] /\ at'[k + 1] = at[k + 1]
        BY <3>0, <4>1, <1>5
      <4> QED
        BY <4>1, <4>2 DEF WriterInv, ChainInv
    <3>2. CASE k = cur /\ pagecnt > 0
      <4>1. at[cur] = <<curblk, pagecnt - 1>>
        <5>1. cur \in Settled + 1 .. cur /\ cur - Settled - 1 = pagecnt - 1
          BY <3>2, <1>1, Numbers
        <5> QED
          BY <5>1, <1>10
      <4>2. at'[k] = <<curblk, pagecnt - 1>> /\ at'[k + 1] = <<curblk, pagecnt>>
        BY <3>0, <3>2, <4>1, <1>5
      <4> QED
        BY <4>2, Numbers DEF Follows
    <3>3. CASE k = cur /\ pagecnt = 0
      <4>1. Settled = cur /\ cur # 0
        BY <3>0, <3>3, <1>1, Numbers
      <4>2. /\ at[cur][2] + 1 = PagesPerBlock /\ at[cur][1] < curblk
            /\ \A x \in at[cur][1] + 1 .. curblk - 1 : Skipped(x)
        BY <4>1, <1>8 DEF Frontier
      <4>3. at'[k] = at[cur] /\ at'[k + 1] = <<curblk, 0>>
        BY <3>0, <3>3, <1>5
      <4> QED
        BY <4>2, <4>3, Numbers DEF Follows
    <3> QED
      BY <3>0, <3>1, <3>2, <3>3, Numbers
  <2>5. \A p, q : Follows(p, q)' <=> Follows(p, q)
    BY <1>6 DEF Follows
  <2> QED
    BY <2>1, <2>2, <2>3, <2>4, <2>5, <1>4, <1>6 DEF ChainInv
<1>13. ASSUME pc' = "done" PROVE WriterInv'
  <2>1. pc' \notin {"check", "prog", "recover"} /\ pc' # "erase" /\ pc' # "prog"
        /\ pc' \notin {"prog", "recover"}
    BY <1>13
  <2> QED
    BY <1>12, <2>1 DEF WriterInv, FrontierInv
<1>14. ASSUME pc' = "prog" PROVE WriterInv'
  <2>1. pagecnt' = pagecnt + 1 /\ curblk' = curblk
    BY <1>14, <1>1 DEF ProgramPage, PageWritten
  <2>2. Settled' = Settled
    BY <2>1, <1>1, <1>4, <1>14, Numbers DEF Settled
  <2>3. \A k \in 1 .. Settled : at'[k] = at[k] /\ at[k][1] < curblk
    BY <1>1, <1>5, Numbers DEF WriterInv, FrontierInv
  <2>4. Frontier(Settled, curblk)'
    <3>1. CASE Settled = 0
      BY <3>1, <2>1, <2>2, <1>6, <1>8 DEF Frontier
    <3>2. CASE Settled # 0
      <4>1. at'[Settled] = at[Settled]
        BY <3>2, <2>3, <1>1, Numbers
      <4> QED
        BY <3>2, <4>1, <2>1, <2>2, <1>6, <1>8 DEF Frontier
    <3> QED
      BY <3>1, <3>2
  <2>5. \A i \in 1 .. pagecnt' : at'[cur' - pagecnt' + i] = <<curblk', i - 1>>
    <3> SUFFICES ASSUME NEW i \in 1 .. pagecnt + 1
                 PROVE  at'[Settled + i] = <<curblk, i - 1>>
      <4>1. cur' - pagecnt' = Settled /\ pagecnt' = pagecnt + 1 /\ curblk' = curblk
        BY <2>1, <1>1, <1>4, Numbers
      <4> QED
        BY <4>1
    <3>1. CASE i = pagecnt + 1
      BY <3>1, <1>1, <1>5, Numbers
    <3>2. CASE i # pagecnt + 1
      <4>1. i \in 1 .. pagecnt /\ Settled + i \in 1 .. cur
        BY <3>2, <1>1, Numbers
      <4>2. at[Settled + i] = <<curblk, i - 1>>
        BY <4>1, <1>1 DEF WriterInv, FrontierInv
      <4> QED
        BY <4>1, <4>2, <1>5
    <3> QED
      BY <3>1, <3>2
  <2>6. ~IsBad(curblk)' /\ \A b \in abandoned' : b < curblk'
    BY <2>1, <1>1, <1>4 DEF WriterInv, FrontierInv, IsBad
  <2> QED
    BY <1>12, <1>14, <2>1, <2>2, <2>3, <2>4, <2>5, <2>6 DEF WriterInv, FrontierInv
<1>15. ASSUME pc' = "check" PROVE WriterInv'
  <2>1. /\ pagecnt + 1 = PagesPerBlock /\ curblk' = curblk + 1
    BY <1>15, <1>1, Numbers DEF ProgramPage, PageWritten
  <2>2. Settled' = n
    BY <1>15, <1>4 DEF Settled
  <2>3. Frontier(Settled, curblk)'
    <3>1. n # 0 /\ at'[n] = <<curblk, pagecnt>>
      BY <1>1, <1>5, Numbers
    <3> QED
      BY <3>1, <2>1, <2>2, Numbers DEF Frontier
  <2>4. \A k \in 1 .. n : at'[k][1] < curblk'
    <3> SUFFICES ASSUME NEW k \in 1 .. n PROVE at'[k][1] < curblk + 1
      BY <2>1
    <3>1. CASE k = n
      BY <3>1, <1>5, Numbers
    <3>2. CASE k # n
      <4>1. k \in 1 .. cur /\ k \in 1 .. ImagePages
        BY <3>2, <1>1, Numbers
      <4> QED
        BY <4>1, <1>5, <1>11, Numbers, Places
    <3> QED
      BY <3>1, <3>2
  <2>5. \A b \in abandoned' : b < curblk'
    <3>1. \A b \in abandoned : b < curblk /\ b \in Int
      BY <1>1, Ranges DEF WriterInv, FrontierInv, TypeInv, TypeOK
    <3> QED
      BY <3>1, <2>1, <1>4, Numbers
  <2> QED
    BY <1>12, <1>15, <2>2, <2>3, <2>4, <2>5 DEF WriterInv, FrontierInv
<1>16. pc' \in {"done", "prog", "check"}
  BY <1>1 DEF ProgramPage, PageWritten
<1> QED
  BY <1>13, <1>14, <1>15, <1>16

\* Going back to the first page of the block: the settled pages remain.
LEMMA RewindInv ==
    ASSUME TypeInv, WriterInv, ProgramFail \/ ProgramReadsBlank
    PROVE  WriterInv'
<1>1. /\ pc = "prog" /\ pc' = "recover" /\ cur' = Settled
      /\ UNCHANGED <<curblk, at, marks, abandoned>>
  BY DEF ProgramFail, ProgramReadsBlank, RewindBlock, Settled
<1>2. /\ Settled' = Settled /\ Settled \in Int /\ Settled >= 0 /\ Settled <= cur
      /\ cur + 1 \in Image
  BY <1>1, Numbers DEF Settled, Image
<1>3. \A k \in 1 .. Settled : k \in 1 .. cur /\ k \in 1 .. ImagePages
  BY <1>2, Numbers
<1>4. \A k \in 1 .. Settled : at[k][1] < curblk
  BY <1>1 DEF WriterInv, FrontierInv
<1>5. \A k \in 1 .. Settled :
          cell'[at[k][1]][at[k][2]] = cell[at[k][1]][at[k][2]] /\ src'[k] = src[k]
  <2> SUFFICES ASSUME NEW k \in 1 .. Settled
               PROVE  cell'[at[k][1]][at[k][2]] = cell[at[k][1]][at[k][2]] /\ src'[k] = src[k]
    OBVIOUS
  <2>1. at[k][1] # curblk /\ k # cur + 1 /\ k \in Image
    BY <1>2, <1>3, <1>4, Numbers, Places DEF Image
  <2>2. CASE ProgramFail
    BY <2>1, <2>2, <1>3, Places DEF ProgramFail, TypeInv, TypeOK
  <2>3. CASE ProgramReadsBlank
    BY <2>1, <2>3, <1>2 DEF ProgramReadsBlank, TypeInv, TypeOK
  <2> QED
    BY <2>2, <2>3
<1>6. \A k \in Image : src'[k] # Blank
  <2>1. CASE ProgramFail
    BY <2>1 DEF ProgramFail, WriterInv, ChainInv
  <2>2. CASE ProgramReadsBlank
    <3>1. src' = [src EXCEPT ![cur + 1] = FF] /\ FF # Blank
      BY <2>2 DEF ProgramReadsBlank, Decode, FF, Blank
    <3> QED
      BY <3>1 DEF WriterInv, ChainInv, TypeInv, TypeOK
  <2> QED
    BY <2>1, <2>2
<1>7. \A b : Skipped(b)' <=> Skipped(b)
  BY <1>1 DEF Skipped, IsBad
<1>8. \A p, q : Follows(p, q)' <=> Follows(p, q)
  BY <1>7 DEF Follows
<1>9. ChainInv'
  <2>1. \A k \in 1 .. Settled : /\ cell'[at'[k][1]][at'[k][2]] = src'[k]
                                /\ at'[k][1] >= PtnStart /\ ~Skipped(at'[k][1])
    BY <1>1, <1>3, <1>5 DEF WriterInv, ChainInv
  <2>2. Settled > 0 => at'[1][2] = 0 /\ \A b \in PtnStart .. at'[1][1] - 1 : Skipped(b)
    BY <1>1, <1>2, Numbers DEF WriterInv, ChainInv
  <2>3. \A k \in 1 .. Settled - 1 : Follows(at'[k], at'[k + 1])
    <3>1. \A k \in 1 .. Settled - 1 : k \in 1 .. cur - 1
      BY <1>2, Numbers
    <3> QED
      BY <3>1, <1>1 DEF WriterInv, ChainInv
  <2> QED
    BY <1>1, <1>6, <1>7, <1>8, <2>1, <2>2, <2>3 DEF ChainInv
<1>10. Frontier(Settled, curblk)'
  <2>1. Frontier(Settled, curblk)
    BY <1>1 DEF WriterInv, FrontierInv
  <2> QED
    BY <2>1, <1>1, <1>2, <1>7 DEF Frontier
<1>11. ~IsBad(curblk)'
  BY <1>1 DEF WriterInv, FrontierInv, IsBad
<1>12. \A b \in abandoned' : b < curblk'
  BY <1>1 DEF WriterInv, FrontierInv
<1> QED
  BY <1>1, <1>2, <1>4, <1>9, <1>10, <1>11, <1>12 DEF WriterInv, FrontierInv

\* Giving up a block, or erasing it for another try: only the block at the
\* frontier changes, and a block given up counts as skipped.
LEMMA RecoverInv ==
    ASSUME TypeInv, WriterInv, GiveUpErase \/ TryAgain \/ GiveUpBlock
    PROVE  WriterInv'
<1>1. /\ pc = "recover" /\ pc' = "check" /\ Settled = cur /\ Settled' = cur
      /\ UNCHANGED <<cur, at, src>>
      /\ \/ curblk' = curblk + 1 /\ abandoned' = abandoned \cup {curblk}
         \/ curblk' = curblk /\ abandoned' = abandoned
  BY DEF GiveUpErase, TryAgain, GiveUpBlock, Settled
<1>2. \A b \in Blocks : b # curblk => cell'[b] = cell[b] /\ marks'[b] = marks[b]
  BY DEF GiveUpErase, TryAgain, GiveUpBlock, EraseOk, EraseFail, TypeInv, TypeOK
<1>3. curblk \in Blocks /\ \A b \in Int : b < curblk /\ b >= PtnStart => b \in Blocks
  BY <1>1, Numbers, GeometryAssumption DEF TypeInv, BookInv, Blocks
<1>4. \A b \in Int : b < curblk /\ b >= PtnStart => (Skipped(b)' <=> Skipped(b))
  <2> SUFFICES ASSUME NEW b \in Int, b < curblk, b >= PtnStart
               PROVE  Skipped(b)' <=> Skipped(b)
    OBVIOUS
  <2>1. b # curblk /\ marks'[b] = marks[b]
    BY <1>2, <1>3, Numbers
  <2> QED
    BY <2>1, <1>1 DEF Skipped, IsBad
<1>5. \A k \in 1 .. cur : /\ at[k][1] < curblk /\ at[k][1] >= PtnStart
                          /\ at[k][1] \in Int /\ at[k][1] \in Blocks /\ k \in 1 .. ImagePages
  BY <1>1, Numbers, Places DEF WriterInv, FrontierInv, ChainInv
<1>6. \A k \in 1 .. cur - 1 : k \in 1 .. cur /\ k + 1 \in 1 .. cur /\ k \in Int
  BY Numbers
<1>7. ChainInv'
  <2>1. \A k \in 1 .. cur : /\ cell'[at[k][1]][at[k][2]] = src[k]
                            /\ at[k][1] >= PtnStart /\ ~Skipped(at[k][1])'
    <3> SUFFICES ASSUME NEW k \in 1 .. cur
                 PROVE  cell'[at[k][1]][at[k][2]] = src[k] /\ ~Skipped(at[k][1])'
      BY <1>5
    <3>1. cell[at[k][1]][at[k][2]] = src[k] /\ ~Skipped(at[k][1])
      BY DEF WriterInv, ChainInv
    <3>2. at[k][1] # curblk /\ at[k][1] \in Blocks
      BY <1>5, Numbers
    <3>3. cell'[at[k][1]] = cell[at[k][1]] /\ marks'[at[k][1]] = marks[at[k][1]]
      BY <1>2, <3>2
    <3>4. at[k][1] \in abandoned' => at[k][1] \in abandoned
      BY <1>1, <3>2
    <3> QED
      BY <1>1, <3>1, <3>3, <3>4 DEF Skipped, IsBad
  <2>2. cur > 0 => at[1][2] = 0 /\ \A b \in PtnStart .. at[1][1] - 1 : Skipped(b)'
    <3> SUFFICES ASSUME cur > 0, NEW b \in PtnStart .. at[1][1] - 1
                 PROVE  at[1][2] = 0 /\ Skipped(b)'
      BY DEF WriterInv, ChainInv
    <3>1. at[1][2] = 0 /\ Skipped(b)
      BY DEF WriterInv, ChainInv
    <3>2. at[1][1] < curblk /\ at[1][1] \in Int
      BY <1>5, Numbers
    <3>3. b \in Int /\ b < curblk /\ b >= PtnStart
      BY <3>2, Numbers
    <3> QED
      BY <3>1, <3>3, <1>4
  <2>3. \A k \in 1 .. cur - 1 : Follows(at[k], at[k + 1])'
    <3> SUFFICES ASSUME NEW k \in 1 .. cur - 1
                 PROVE  Follows(at[k], at[k + 1])'
      OBVIOUS
    <3>1. Follows(at[k], at[k + 1])
      BY DEF WriterInv, ChainInv
    <3>2. /\ at[k][1] >= PtnStart /\ at[k][1] \in Int
          /\ at[k + 1][1] < curblk /\ at[k + 1][1] \in Int
      BY <1>5, <1>6
    <3>3. \A b \in at[k][1] + 1 .. at[k + 1][1] - 1 : Skipped(b)' <=> Skipped(b)
      BY <3>2, <1>4, Numbers
    <3>4. at'[k] = at[k] /\ at'[k + 1] = at[k + 1]
      BY <1>1
    <3> QED
      BY <3>1, <3>3, <3>4 DEF Follows
  <2> QED
    BY <1>1, <2>1, <2>2, <2>3 DEF WriterInv, ChainInv
<1>8. \A b \in Int : b < curblk' /\ b >= PtnStart /\ b >= curblk => Skipped(b)'
  BY <1>1, Numbers DEF Skipped
<1>9. \A b \in Int : b < curblk' /\ b >= PtnStart /\ (b < curblk => Skipped(b)) => Skipped(b)'
  BY <1>4, <1>8, Numbers
<1>10. Frontier(Settled, curblk)'
  <2>1. Frontier(cur, curblk)
    BY <1>1 DEF WriterInv, FrontierInv
  <2>2. CASE cur = 0
    <3>1. \A x \in PtnStart .. curblk' - 1 : Skipped(x)'
      BY <2>1, <2>2, <1>1, <1>9, Numbers DEF Frontier
    <3> QED
      BY <2>2, <3>1, <1>1 DEF Frontier
  <2>3. CASE cur # 0
    <3>1. /\ at[cur][2] + 1 = PagesPerBlock /\ at[cur][1] < curblk
          /\ \A x \in at[cur][1] + 1 .. curblk - 1 : Skipped(x)
      BY <2>1, <2>3 DEF Frontier
    <3>2. at[cur][1] >= PtnStart /\ at[cur][1] \in Int
      BY <1>5, <2>3, Numbers
    <3>3. \A x \in at[cur][1] + 1 .. curblk' - 1 : Skipped(x)'
      BY <3>1, <3>2, <1>1, <1>9, Numbers
    <3>4. at[cur][1] < curblk'
      BY <3>1, <3>2, <1>1, Numbers
    <3> QED
      BY <2>3, <3>1, <3>3, <3>4, <1>1 DEF Frontier
  <2> QED
    BY <2>2, <2>3
<1>11. (\A k \in 1 .. cur : at[k][1] < curblk') /\ \A b \in abandoned' : b < curblk'
  <2>1. \A k \in 1 .. cur : at[k][1] < curblk'
    BY <1>1, <1>5, Numbers
  <2>2. \A b \in abandoned : b < curblk /\ b \in Int
    BY <1>1, Ranges DEF WriterInv, FrontierInv, TypeInv, TypeOK
  <2> QED
    BY <1>1, <2>1, <2>2, Numbers
<1> QED
  BY <1>1, <1>7, <1>10, <1>11 DEF WriterInv, FrontierInv

\* A block that reads as bad when the writer comes to it is passed over.
LEMMA SkipInv ==
    ASSUME TypeInv, WriterInv, SkipBadBlock
    PROVE  WriterInv'
<1>1. /\ pc = "check" /\ pc' = "check" /\ Settled = cur /\ Settled' = cur
      /\ curblk' = curblk + 1 /\ IsBad(curblk)
      /\ UNCHANGED <<cell, marks, src, cur, at, abandoned>>
  BY DEF SkipBadBlock, Settled, chip
<1>2. \A b : Skipped(b)' <=> Skipped(b)
  BY <1>1 DEF Skipped, IsBad
<1>3. ChainInv'
  BY <1>1, <1>2 DEF WriterInv, ChainInv, Follows
<1>4. Frontier(cur, curblk) /\ Skipped(curblk)
  BY <1>1 DEF WriterInv, FrontierInv, Skipped
<1>5. \A k \in 1 .. cur : at[k][1] < curblk /\ at[k][1] \in Int
  BY <1>1, Numbers, Places DEF WriterInv, FrontierInv
<1>6. Frontier(cur, curblk + 1)
  <2>1. CASE cur = 0
    BY <2>1, <1>4, Numbers DEF Frontier
  <2>2. CASE cur # 0
    <3>1. at[cur][1] < curblk + 1 /\ at[cur][1] \in Int
      BY <2>2, <1>5, Numbers
    <3>2. \A x \in at[cur][1] + 1 .. curblk + 1 - 1 : Skipped(x)
      BY <2>2, <3>1, <1>4, Numbers DEF Frontier
    <3>3. at[cur][2] + 1 = PagesPerBlock
      BY <2>2, <1>4 DEF Frontier
    <3> QED
      BY <2>2, <3>1, <3>2, <3>3, Numbers DEF Frontier
  <2> QED
    BY <2>1, <2>2
<1>7. Frontier(Settled, curblk)'
  BY <1>1, <1>2, <1>6 DEF Frontier
<1>8. \A k \in 1 .. cur : at[k][1] < curblk + 1
  BY <1>5, Numbers
<1>9. \A b \in abandoned : b < curblk + 1
  <2>1. \A b \in abandoned : b < curblk /\ b \in Int
    BY <1>1, Ranges DEF WriterInv, FrontierInv, TypeInv, TypeOK
  <2> QED
    BY <2>1, Numbers
<1> QED
  BY <1>1, <1>3, <1>7, <1>8, <1>9 DEF WriterInv, FrontierInv

\* The writer's invariant is inductive.
LEMMA WriterStep ==
    ASSUME TypeInv, WriterInv, [Next]_vars
    PROVE  WriterInv'
<1>1. CASE FlashErase
  <2>1. /\ pc = "erase" /\ pc' \in {"erase", "check"}
        /\ pc' = "check" => curblk' = PtnStart
        /\ cur = 0 /\ abandoned = {}
        /\ UNCHANGED <<src, cur, at, abandoned>>
    BY <1>1 DEF FlashErase, TypeInv, BookInv, WriterInv, FrontierInv
  <2>2. ChainInv'
    BY <2>1 DEF WriterInv, ChainInv
  <2>3. pc' = "check" => Frontier(Settled, curblk)'
    BY <2>1, Numbers DEF Settled, Frontier
  <2>4. pc' = "check" => Settled' = 0
    BY <2>1 DEF Settled
  <2> QED
    BY <2>1, <2>2, <2>3, <2>4 DEF WriterInv, FrontierInv
<1>2. CASE EnterBlock
  <2>1. /\ pc = "check" /\ pc' = "prog" /\ pagecnt' = 0 /\ ~IsBad(curblk)
        /\ UNCHANGED <<cell, marks, src, curblk, cur, at, abandoned>>
    BY <1>2 DEF EnterBlock, chip
  <2>2. Settled = cur /\ Settled' = Settled
    BY <2>1, Numbers DEF Settled
  <2>3. \A b : (Skipped(b)' <=> Skipped(b)) /\ (IsBad(b)' <=> IsBad(b))
    BY <2>1 DEF Skipped, IsBad
  <2>4. ChainInv'
    BY <2>1, <2>3 DEF WriterInv, ChainInv, Follows
  <2>5. Frontier(Settled, curblk)'
    BY <2>1, <2>2, <2>3 DEF WriterInv, FrontierInv, Frontier
  <2>6. ~IsBad(curblk)'
    BY <2>1 DEF IsBad
  <2> QED
    BY <2>1, <2>2, <2>4, <2>5, <2>6 DEF WriterInv, FrontierInv
<1>3. CASE RunOffChip \/ PowerCut
  <2>1. /\ pc' \notin {"check", "prog", "recover"} /\ pc' # "erase" /\ pc' # "prog"
        /\ pc' \notin {"prog", "recover"}
        /\ UNCHANGED <<cell, marks, src, cur, at, abandoned>>
    BY <1>3 DEF RunOffChip, PowerCut, chip
  <2> QED
    BY <2>1 DEF WriterInv, FrontierInv, ChainInv, Follows, Skipped, IsBad
<1>4. CASE Read
  BY <1>4, WriterStutters DEF Read, StartHeader, SkipLoop, ReadSkipsBlock, ReadPage
<1>5. CASE UNCHANGED vars
  BY <1>5, WriterStutters DEF vars, chip, writer
<1> QED
  BY <1>1, <1>2, <1>3, <1>4, <1>5, SkipInv, ProgramInv, RewindInv, RecoverInv
     DEF Next, Write

\* While the writer works the reader has not started: nothing was read.
LEMMA ReaderWaits ==
    ASSUME TypeInv, ReaderInv, Write \/ PowerCut
    PROVE  ReaderInv'
<1>1. Writing /\ UNCHANGED <<rpc, rblk, rpg, rcnt, dst>>
  BY DEF Write, PowerCut, FlashErase, SkipBadBlock, EnterBlock, RunOffChip, ProgramPage,
         ProgramFail, ProgramReadsBlank, GiveUpErase, TryAgain, GiveUpBlock, Writing, reader
<1>2. rpc = "idle" /\ rpc' = "idle" /\ rcnt = 0 /\ rcnt' = 0
  BY <1>1 DEF ReaderInv
<1>3. rpc' \notin {"skip", "read"} /\ rpc' # "skip" /\ rpc' # "read"
  BY <1>2
<1>4. \A k \in 1 .. rcnt' : dst'[k] = src'[k]
  BY <1>2
<1> QED
  BY <1>2, <1>3, <1>4 DEF ReaderInv

\* Once every abandoned block reads as bad, the reader skips what the writer
\* skipped.
Readable == pc = "done" /\ \A b \in abandoned : IsBad(b)

\* The next page the reader copies is the next page of the writer's chain.
LEMMA ReaderAtNextPage ==
    ASSUME TypeInv, WriterInv, ReaderInv, Readable, ReadPage
    PROVE  <<rblk, rpg>> = at[rcnt + 1] /\ rcnt + 1 \in 1 .. cur
<1>1. /\ rpc = "read" /\ rcnt \in Int /\ rcnt >= 0 /\ rcnt + 1 \in 1 .. cur
      /\ rcnt + 1 \in 1 .. ImagePages /\ cur = ImagePages
  BY Numbers DEF ReadPage, Readable, TypeInv, BookInv
<1>2. \A b : Skipped(b) <=> IsBad(b)
  BY DEF Readable, Skipped
<1>c. rcnt > 0 => Follows(at[rcnt], at[rcnt + 1])
  <2>1. rcnt > 0 => rcnt \in 1 .. cur - 1
    BY <1>1, Numbers
  <2> QED
    BY <2>1 DEF WriterInv, ChainInv
<1>3. CASE rpg > 0
  <2>1. rcnt > 0 /\ at[rcnt] = <<rblk, rpg - 1>>
    BY <1>1, <1>3 DEF ReaderInv, Readable
  <2>2. Follows(at[rcnt], at[rcnt + 1])
    BY <2>1, <1>c
  <2>3. at[rcnt][1] = rblk /\ at[rcnt][2] = rpg - 1 /\ at[rcnt][2] + 1 = rpg
        /\ rpg < PagesPerBlock
    BY <2>1, Numbers
  <2>4. at[rcnt + 1] = <<at[rcnt][1], at[rcnt][2] + 1>>
    BY <2>2, <2>3 DEF Follows
  <2> QED
    BY <2>3, <2>4, <1>1
<1>4. CASE rpg = 0
  <2> DEFINE q == at[rcnt + 1]
  <2>1. Frontier(rcnt, rblk) /\ rblk >= PtnStart /\ ~Skipped(rblk)
    BY <1>1, <1>2, <1>4 DEF ReaderInv, Readable, ReadPage
  <2>2. /\ q = <<q[1], q[2]>> /\ q[1] \in Int /\ q[1] >= PtnStart
        /\ ~Skipped(q[1])
    BY <1>1, Places DEF WriterInv, ChainInv
  <2>3. CASE rcnt = 0
    <3>1. \A x \in PtnStart .. rblk - 1 : Skipped(x)
      BY <2>1, <2>3 DEF Frontier
    <3>2. q[2] = 0 /\ \A x \in PtnStart .. q[1] - 1 : Skipped(x)
      BY <2>3, <1>1, Numbers DEF WriterInv, ChainInv
    <3>3. ~(q[1] < rblk) /\ ~(rblk < q[1])
      BY <2>1, <2>2, <3>1, <3>2, Numbers
    <3> QED
      BY <2>2, <3>2, <3>3, <1>1, <1>4, Numbers
  <2>4. CASE rcnt > 0
    <3>1. /\ at[rcnt][2] + 1 = PagesPerBlock /\ at[rcnt][1] < rblk
          /\ \A x \in at[rcnt][1] + 1 .. rblk - 1 : Skipped(x)
      BY <2>1, <2>4 DEF Frontier
    <3>2. at[rcnt][1] \in Int
      BY <2>4, <1>1, Places, Numbers
    <3>3. Follows(at[rcnt], q)
      BY <2>4, <1>c
    <3>4. ~(at[rcnt][2] + 1 < PagesPerBlock)
      BY <3>1, Numbers
    <3>5. /\ q[2] = 0 /\ q[1] > at[rcnt][1]
          /\ \A x \in at[rcnt][1] + 1 .. q[1] - 1 : Skipped(x)
      BY <3>3, <3>4 DEF Follows
    <3>6. ~(q[1] < rblk) /\ ~(rblk < q[1])
      BY <2>1, <2>2, <3>1, <3>2, <3>5, Numbers
    <3>7. q[1] = rblk
      BY <3>6, <2>2, Numbers
    <3> QED
      BY <2>2, <3>5, <3>7, <1>1, <1>4
  <2> QED
    BY <2>3, <2>4, <1>1
<1> QED
  BY <1>3, <1>4, Numbers

\* Steps of the reader before it copies a page.
LEMMA ReaderSkips ==
    ASSUME TypeInv, WriterInv, ReaderInv, StartHeader \/ SkipLoop \/ ReadSkipsBlock
    PROVE  ReaderInv'
<1>1. /\ UNCHANGED <<src, at, marks, pc, abandoned, rcnt, dst>> /\ ~Writing
      /\ \A b : IsBad(b)' <=> IsBad(b)
  BY DEF StartHeader, SkipLoop, ReadSkipsBlock, chip, writer, ReaderInv, IsBad
<1>2. /\ ~Writing' /\ rpc' # "idle" /\ rpc' \in {"skip", "read"} /\ rcnt < ImagePages
      /\ Readable' <=> Readable
  BY <1>1, GeometryAssumption
     DEF StartHeader, SkipLoop, ReadSkipsBlock, Writing, TypeInv, Readable
<1>3. ASSUME Readable PROVE \A b : Skipped(b)' <=> IsBad(b)
  BY <1>1, <1>3 DEF Skipped, Readable
<1>4. ASSUME Readable PROVE \A k \in 1 .. rcnt : dst[k] = src[k]
  BY <1>4 DEF Readable, ReaderInv
<1>5. ASSUME Readable, StartHeader PROVE ReaderInv'
  <2>1. rpc' = "skip" /\ rblk' = PtnStart /\ rpg' = 0 /\ rcnt = 0
    BY <1>5 DEF StartHeader, TypeInv
  <2> QED
    BY <1>1, <1>2, <2>1, Numbers DEF ReaderInv, Readable
<1>6. ASSUME Readable, SkipLoop PROVE ReaderInv'
  <2>1. /\ rpc = "skip" /\ rpg' = rpg /\ rpg = rcnt /\ rcnt <= 1 /\ rblk >= PtnStart
        /\ \A b \in PtnStart .. rblk - 1 : IsBad(b)
    BY <1>6 DEF SkipLoop, ReaderInv, Readable
  <2>2. CASE IsBad(rblk)
    <3>1. rpc' = "skip" /\ rblk' = rblk + 1
      BY <1>6, <2>1, <2>2 DEF SkipLoop
    <3>2. \A b \in PtnStart .. rblk' - 1 : IsBad(b)
      BY <2>1, <2>2, <3>1, Numbers
    <3>3. rblk' >= PtnStart
      BY <2>1, <3>1, Numbers
    <3> QED
      BY <1>1, <1>2, <1>4, <1>6, <2>1, <3>1, <3>2, <3>3 DEF ReaderInv, Readable
  <2>3. CASE ~IsBad(rblk)
    <3>1. rpc' = "read" /\ rblk' = rblk
      BY <1>6, <2>3 DEF SkipLoop
    <3>2. rpg = 0 => Frontier(rcnt, rblk)'
      BY <1>1, <1>3, <1>6, <2>1, <3>1 DEF Frontier
    <3>3. ASSUME rpg > 0 PROVE rcnt > 0 /\ at[rcnt] = <<rblk, rpg - 1>>
      <4>1. rcnt = 1 /\ rpg = 1 /\ cur > 0 /\ 1 \in 1 .. ImagePages /\ 1 \in 1 .. cur
        BY <3>3, <2>1, <1>2, <1>6, Numbers DEF Readable, TypeInv, BookInv
      <4>2. /\ at[1][2] = 0 /\ at[1][1] >= PtnStart /\ ~Skipped(at[1][1])
            /\ \A b \in PtnStart .. at[1][1] - 1 : Skipped(b)
        BY <4>1 DEF WriterInv, ChainInv
      <4>3. \A b : Skipped(b) <=> IsBad(b)
        BY <1>6 DEF Skipped, Readable
      <4>4. at[1] = <<at[1][1], at[1][2]>> /\ at[1][1] \in Int
        BY <4>1, Places
      <4>5. ~(at[1][1] < rblk) /\ ~(rblk < at[1][1])
        BY <4>2, <4>3, <4>4, <2>1, <2>3, Numbers
      <4>6. at[1][1] = rblk
        BY <4>4, <4>5, Numbers
      <4> QED
        BY <4>1, <4>2, <4>4, <4>6
    <3> QED
      BY <1>1, <1>2, <1>4, <1>6, <2>1, <3>1, <3>2, <3>3 DEF ReaderInv, Readable
  <2> QED
    BY <2>2, <2>3

<1>7. ASSUME Readable, ReadSkipsBlock PROVE ReaderInv'
  <2>1. /\ rpc = "read" /\ rpc' = "read" /\ rpg = 0 /\ rpg' = 0 /\ rblk' = rblk + 1
        /\ IsBad(rblk) /\ rblk >= PtnStart /\ Frontier(rcnt, rblk)
    BY <1>7 DEF ReadSkipsBlock, ReaderInv, Readable
  <2>2. Skipped(rblk)
    BY <2>1 DEF Skipped
  <2>3. Frontier(rcnt, rblk + 1)
    <3>1. CASE rcnt = 0
      BY <2>1, <2>2, <3>1, Numbers DEF Frontier
    <3>2. CASE rcnt # 0
      <4>1. /\ at[rcnt][2] + 1 = PagesPerBlock /\ at[rcnt][1] < rblk
            /\ \A x \in at[rcnt][1] + 1 .. rblk - 1 : Skipped(x)
        BY <2>1, <3>2 DEF Frontier
      <4>2. at[rcnt][1] \in Int
        BY <3>2, <1>2, Places, Numbers
      <4>3. \A x \in at[rcnt][1] + 1 .. rblk + 1 - 1 : Skipped(x)
        BY <4>1, <4>2, <2>2, Numbers
      <4>4. at[rcnt][1] < rblk + 1
        BY <4>1, <4>2, Numbers
      <4> QED
        BY <3>2, <4>1, <4>3, <4>4, Numbers DEF Frontier
    <3> QED
      BY <3>1, <3>2
  <2>4. Frontier(rcnt, rblk)'
    BY <2>1, <2>3, <1>1, <1>3, <1>7 DEF Frontier, Readable, Skipped
  <2>5. rblk' >= PtnStart
    BY <2>1, Numbers
  <2> QED
    BY <1>1, <1>2, <1>4, <1>7, <2>1, <2>4, <2>5 DEF ReaderInv, Readable
<1>8. ASSUME ~Readable PROVE ReaderInv'
  BY <1>8, <1>1, <1>2 DEF ReaderInv, Readable
<1> QED
  BY <1>5, <1>6, <1>7, <1>8

\* A page the reader copies is the page of the buffer of the same number.
LEMMA ReaderCopies ==
    ASSUME TypeInv, WriterInv, ReaderInv, ReadPage
    PROVE  ReaderInv'
<1>1. /\ UNCHANGED <<cell, src, at, marks, pc, abandoned, cur>> /\ ~Writing
      /\ rpc = "read" /\ rcnt' = rcnt + 1
  BY DEF ReadPage, chip, writer, ReaderInv
<1>2. ~Writing' /\ (Readable' <=> Readable) /\ rpc' # "idle"
  BY <1>1 DEF ReadPage, Writing, Readable, BootOutcome, IsBad
<1>3. ASSUME Readable PROVE ReaderInv'
  <2>0. \A b : Skipped(b)' <=> Skipped(b)
    BY <1>1 DEF Skipped, IsBad
  <2>1. <<rblk, rpg>> = at[rcnt + 1] /\ rcnt + 1 \in 1 .. cur
    BY <1>3, ReaderAtNextPage
  <2>2. rcnt + 1 \in Image /\ cell[rblk][rpg] = src[rcnt + 1] /\ src[rcnt + 1] # Blank
    <3>1. at[rcnt + 1][1] = rblk /\ at[rcnt + 1][2] = rpg /\ rcnt + 1 \in Image
      BY <2>1, Numbers DEF Image
    <3> QED
      BY <2>1, <3>1 DEF WriterInv, ChainInv
  <2>3. \A k \in 1 .. rcnt + 1 : dst'[k] = src[k]
    <3>1. dst' = [dst EXCEPT ![rcnt + 1] = src[rcnt + 1]]
      BY <2>2 DEF ReadPage, Decode
    <3>2. \A k \in 1 .. rcnt : dst[k] = src[k]
      BY <1>3 DEF ReaderInv, Readable
    <3>3. dst \in [Image -> Contents]
      BY DEF TypeInv, TypeOK
    <3> QED
      BY <3>1, <3>2, <3>3, <2>2, Numbers DEF Image
  <2>4. CASE rcnt + 1 = ImagePages
    <3>1. rpc' \notin {"skip", "read"} /\ rpc' # "skip" /\ rpc' # "read"
      BY <2>4 DEF ReadPage, BootOutcome
    <3> QED
      BY <1>1, <1>2, <2>3, <3>1 DEF ReaderInv
  <2>5. rcnt + 1 # ImagePages => rcnt' < ImagePages
    BY <1>1, <2>2, Numbers DEF Image
  <2>6. CASE rcnt + 1 # ImagePages /\ rcnt = 0
    <3>1. rpc' = "skip" /\ rblk' = PtnStart /\ rpg' = 1 /\ rcnt' = 1
      BY <2>6, <1>1 DEF ReadPage
    <3> QED
      BY <1>1, <1>2, <2>3, <2>5, <2>6, <3>1, Numbers DEF ReaderInv
  <2>7. CASE rcnt + 1 # ImagePages /\ rcnt # 0 /\ rpg + 1 < PagesPerBlock
    <3>1. rpc' = "read" /\ rblk' = rblk /\ rpg' = rpg + 1 /\ rpg' > 0 /\ rcnt' > 0
          /\ rpg' - 1 = rpg
      BY <2>7, <1>1, Numbers DEF ReadPage
    <3>2. at'[rcnt'] = <<rblk', rpg' - 1>>
      BY <1>1, <2>1, <3>1
    <3> QED
      BY <1>1, <1>2, <2>3, <2>5, <2>7, <3>1, <3>2 DEF ReaderInv
  <2>8. CASE rcnt + 1 # ImagePages /\ rcnt # 0 /\ ~(rpg + 1 < PagesPerBlock)
    <3>1. rpc' = "read" /\ rblk' = rblk + 1 /\ rpg' = 0 /\ rcnt' # 0
          /\ rpg + 1 = PagesPerBlock
      BY <2>8, <1>1, Numbers DEF ReadPage
    <3>2. at[rcnt + 1][1] = rblk /\ at[rcnt + 1][2] = rpg
      BY <2>1
    <3>3. rblk' >= PtnStart
      BY <2>1, <3>1, <3>2, Numbers DEF WriterInv, ChainInv
    <3>4. Frontier(rcnt, rblk)'
      <4>1. at'[rcnt'][1] = rblk /\ at'[rcnt'][2] = rpg
        BY <1>1, <3>2
      <4>2. rblk < rblk' /\ \A x : x \notin rblk + 1 .. rblk' - 1
        BY <3>1, Numbers
      <4> QED
        BY <3>1, <4>1, <4>2 DEF Frontier
    <3> QED
      BY <1>1, <1>2, <2>3, <2>5, <2>8, <3>1, <3>3, <3>4 DEF ReaderInv
  <2> QED
    BY <2>4, <2>6, <2>7, <2>8
<1>4. ASSUME ~Readable PROVE ReaderInv'
  <2>1. rpc' \in {"skip", "read"} => rcnt' < ImagePages
    BY StepType DEF Next, Read, TypeInv
  <2> QED
    BY <1>2, <1>4, <2>1 DEF ReaderInv, Readable
<1> QED
  BY <1>3, <1>4

LEMMA InductiveStep == IInv /\ [Next]_vars => IInv'
<1> SUFFICES ASSUME IInv, [Next]_vars PROVE IInv'
  OBVIOUS
<1>1. TypeInv /\ WriterInv /\ ReaderInv
  BY DEF IInv, TypeInv, WriterInv, ReaderInv
<1>2. TypeInv' /\ WriterInv'
  BY <1>1, StepType, WriterStep
<1>3. ReaderInv'
  <2>1. CASE UNCHANGED vars
    BY <2>1, <1>1 DEF vars, ReaderInv, Writing, Frontier, Skipped, IsBad
  <2> QED
    BY <2>1, <1>1, ReaderWaits, ReaderSkips, ReaderCopies DEF Next, Read
<1> QED
  BY <1>2, <1>3 DEF IInv, TypeInv, WriterInv

\* do_nand reads back the image that nand_write_nooob wrote, for every geometry,
\* image size, pattern of bad blocks and fault: the two sides agree on the blocks
\* to skip as long as every block given up reads as bad.
THEOREM ReaderCorrect == Spec => []ReaderFindsImage
<1>1. Init => IInv
  BY InitType, InitInv DEF IInv, TypeInv, WriterInv
<1>2. IInv => ReaderFindsImage
  BY DEF IInv, ReaderInv, ReaderFindsImage
<1> QED
  BY <1>1, <1>2, InductiveStep, PTL DEF Spec

\* Once the partition has been erased, no step programs or erases a block that
\* nand_block_is_bad reports: the block at hand was checked, and nothing marks it
\* before its own recovery.
THEOREM BadBlocksSafe == Spec => BadBlocksUntouched
<1>1. ASSUME IInv, [Next]_vars
      PROVE  [pc # "erase" => \A b \in Blocks : IsBad(b) => cell'[b] = cell[b]]_vars
  <2> SUFFICES ASSUME Next, pc # "erase", NEW b \in Blocks, IsBad(b)
               PROVE  cell'[b] = cell[b]
    BY <1>1
  <2>1. cell \in [Blocks -> [Pages -> Contents]]
    BY <1>1 DEF IInv, TypeOK
  <2>2. pc \in {"prog", "recover"} => b # curblk
    BY <1>1 DEF IInv, FrontierInv
  <2>3. CASE ProgramPage \/ ProgramFail \/ ProgramReadsBlank
    BY <2>1, <2>2, <2>3 DEF ProgramPage, ProgramFail, ProgramReadsBlank
  <2>4. CASE GiveUpErase \/ TryAgain \/ GiveUpBlock
    BY <2>1, <2>2, <2>4 DEF GiveUpErase, TryAgain, GiveUpBlock, EraseOk, EraseFail
  <2>5. CASE UNCHANGED chip
    BY <2>5 DEF chip
  <2> QED
    BY <2>3, <2>4, <2>5
       DEF Next, Write, Read, FlashErase, SkipBadBlock, EnterBlock, RunOffChip,
           StartHeader, SkipLoop, ReadSkipsBlock, ReadPage, PowerCut
<1>2. Init => IInv
  BY InitType, InitInv DEF IInv, TypeInv, WriterInv
<1> QED
  BY <1>1, <1>2, InductiveStep, PTL DEF Spec, BadBlocksUntouched

-----------------------------------------------------------------------------
(* What a write does to the blocks around its partition *)

\* Every state the program reaches satisfies the invariant of which the reader's
\* correctness is a part: the types, the bookkeeping of curaddr and realbytes
\* through every rewind, the chain of pages written and where both sides stand on it.
THEOREM InvariantCorrect == Spec => []IInv
<1>1. Init => IInv
  BY InitType, InitInv DEF IInv, TypeInv, WriterInv
<1> QED
  BY <1>1, InductiveStep, PTL DEF Spec

-----------------------------------------------------------------------------
(* The partition is left only when it is used up *)

\* A block that can take no more pages.
Full(b) == Skipped(b) \/ \E k \in 1 .. Settled : at[k][1] = b

Touched(x) == \E p \in Pages : cell[x][p] # Other

Busy == pc \in {"check", "prog", "recover"}

\* The writer has used up what is below it, and has not been above.
SpillInv ==
    /\ pc = "erase" => \A x \in Blocks \ Partition : ~Touched(x)
    /\ Busy => \A b \in Partition : b < curblk => Full(b)
    /\ \A x \in Blocks \ Partition : Touched(x) =>
          /\ x >= PtnStart
          /\ Busy => x <= curblk
          /\ \A b \in Partition : Full(b)

LEMMA SpillInit == Init => SpillInv
<1> SUFFICES ASSUME Init PROVE SpillInv
  OBVIOUS
<1>1. ASSUME NEW x \in Blocks \ Partition PROVE ~Touched(x)
  <2>1. ASSUME NEW p \in Pages PROVE OldCell(marks, x, p) = Other
    BY DEF OldCell, GoodIn
  <2> QED
    BY <2>1 DEF Init, Touched
<1>2. pc = "erase"
  BY DEF Init
<1> QED
  BY <1>1, <1>2 DEF SpillInv, Busy

\* A full block below the writer stays full, whatever the writer does.
LEMMA FullStays ==
    ASSUME TypeInv, TypeInv', Next, pc # "erase", NEW b \in Partition, Full(b),
           Busy => b < curblk
    PROVE  Full(b)'
<1>1. b \in Blocks /\ b \in Int
  BY Ranges
<1>2. CASE Write
  <2>0. Busy /\ b # curblk /\ curblk \in Int
    BY <1>2, <1>1, Numbers
       DEF Busy, Write, FlashErase, SkipBadBlock, EnterBlock, RunOffChip, ProgramPage,
           ProgramFail, ProgramReadsBlank, GiveUpErase, TryAgain, GiveUpBlock
  <2>1. marks'[b] = marks[b]
    BY <1>1, <1>2, <2>0
       DEF Write, FlashErase, SkipBadBlock, EnterBlock, RunOffChip, ProgramPage, chip,
           ProgramFail, ProgramReadsBlank, GiveUpErase, TryAgain, GiveUpBlock,
           EraseOk, EraseFail, TypeInv, TypeOK
  <2>2. abandoned \subseteq abandoned'
    BY <1>2
       DEF Write, FlashErase, SkipBadBlock, EnterBlock, RunOffChip, ProgramPage,
           ProgramFail, ProgramReadsBlank, GiveUpErase, TryAgain, GiveUpBlock
  <2>3. CASE Skipped(b)
    BY <2>1, <2>2, <2>3 DEF Full, Skipped, IsBad
  <2>4. CASE \E k \in 1 .. Settled : at[k][1] = b
    <3>1. PICK k \in 1 .. Settled : at[k][1] = b
      BY <2>4
    <3>2. Settled' >= Settled /\ Settled' \in Int
      BY <1>2, <2>0, Numbers
         DEF Busy, Write, FlashErase, SkipBadBlock, EnterBlock, RunOffChip, ProgramPage,
             PageWritten, ProgramFail, ProgramReadsBlank, RewindBlock, GiveUpErase,
             TryAgain, GiveUpBlock, Settled
    <3>3. at'[k] = at[k]
      <4>1. CASE ProgramPage
        <5>1. k # cur + 1 /\ k \in Image /\ cur + 1 \in Image
          BY <4>1, Numbers DEF ProgramPage, Settled, Image
        <5> QED
          BY <4>1, <5>1 DEF ProgramPage, PageWritten, TypeInv, TypeOK
      <4>2. CASE at' = at
        BY <4>2
      <4> QED
        BY <1>2, <4>1, <4>2
           DEF Write, FlashErase, SkipBadBlock, EnterBlock, RunOffChip, ProgramFail,
               ProgramReadsBlank, RewindBlock, GiveUpErase, TryAgain, GiveUpBlock
    <3>4. k \in 1 .. Settled'
      BY <3>2, Numbers
    <3> QED
      BY <3>1, <3>3, <3>4 DEF Full
  <2> QED
    BY <2>3, <2>4 DEF Full
<1>3. CASE Read
  BY <1>3 DEF Read, StartHeader, SkipLoop, ReadSkipsBlock, ReadPage, chip, writer,
              Full, Skipped, IsBad, Settled
<1>4. CASE PowerCut
  <2>1. marks' = marks /\ abandoned' = abandoned /\ at' = at /\ Settled' >= Settled
    BY <1>4, Numbers DEF PowerCut, chip, Settled
  <2>2. Settled' \in Int /\ Settled \in Int
    BY <1>4, Numbers DEF PowerCut, Settled
  <2> QED
    BY <2>1, <2>2 DEF Full, Skipped, IsBad
<1> QED
  BY <1>2, <1>3, <1>4 DEF Next

\* The writer goes on to the next block only from a block that is full.
LEMMA BlockLeft ==
    ASSUME TypeInv, TypeInv', Next, Busy, Busy', curblk' = curblk + 1,
           NEW b \in Partition, b = curblk
    PROVE  Full(b)'
<1>n. curblk \in Int /\ cur \in Int /\ curblk # curblk + 1
  BY Numbers
<1>1. CASE SkipBadBlock
  BY <1>1 DEF SkipBadBlock, chip, Full, Skipped, IsBad
<1>2. CASE GiveUpErase \/ GiveUpBlock
  <2>1. b \in abandoned'
    BY <1>2 DEF GiveUpErase, GiveUpBlock
  <2> QED
    BY <2>1 DEF Full, Skipped
<1>3. CASE ProgramPage
  <2>1. /\ at' = [at EXCEPT ![cur + 1] = <<curblk, pagecnt>>]
        /\ pc' = "check" /\ cur' = cur + 1
    BY <1>3, <1>n DEF ProgramPage, PageWritten, Busy
  <2>2. cur + 1 \in Image /\ at \in [Image -> Blocks \X Pages]
    BY <1>3, Numbers DEF ProgramPage, Image, TypeInv, TypeOK
  <2>3. at'[cur + 1][1] = b /\ Settled' = cur + 1
    BY <2>1, <2>2 DEF Settled
  <2>4. cur + 1 \in 1 .. Settled'
    BY <2>2, <2>3 DEF Image
  <2> QED
    BY <2>3, <2>4 DEF Full
<1>4. CASE curblk' = curblk
  BY <1>4, <1>n
<1> QED
  BY <1>1, <1>2, <1>3, <1>4
     DEF Next, Write, Read, EnterBlock, RunOffChip, ProgramFail, ProgramReadsBlank,
         RewindBlock, TryAgain, FlashErase, PowerCut, StartHeader, SkipLoop,
         ReadSkipsBlock, ReadPage, Busy, writer

\* Each step keeps the invariant. and the writer between two blocks.
LEMMA SpillStep ==
    ASSUME TypeInv, TypeInv', FrontierInv, SpillInv, Next
    PROVE  SpillInv'
<1> DEFINE Outside == Blocks \ Partition
<1>n. curblk \in Int /\ curblk >= PtnStart /\ curblk' \in Int
      /\ Partition \subseteq Int /\ Blocks \subseteq Int
  BY Numbers, Ranges DEF TypeInv, BookInv, TypeOK
<1>1. CASE FlashErase
  <2>1. curblk \in Partition
    BY <1>1 DEF FlashErase, TypeInv, BookInv
  <2>2. ASSUME NEW x \in Outside PROVE ~Touched(x)'
    <3>1. x \in Blocks /\ x # curblk /\ ~Touched(x)
      BY <1>1, <2>1, <2>2 DEF SpillInv, FlashErase
    <3>2. cell'[x] = cell[x]
      BY <1>1, <3>1 DEF FlashErase, EraseOk, EraseFail, TypeInv, TypeOK
    <3> QED
      BY <3>1, <3>2 DEF Touched
  <2>3. pc' = "check" => curblk' = PtnStart
    BY <1>1 DEF FlashErase
  <2>4. \A b \in Partition : b >= PtnStart
    BY <1>n, GeometryAssumption DEF Partition
  <2>5. pc' \in {"erase", "check"}
    BY <1>1 DEF FlashErase
  <2>6. PtnStart \in Int
    BY GeometryAssumption
  <2> QED
    BY <2>2, <2>3, <2>4, <2>5, <2>6, <1>n DEF SpillInv, Busy
<1>2. CASE Read
  <2>1. UNCHANGED <<cell, marks, pc, curblk, pagecnt, cur, at, abandoned>>
    BY <1>2 DEF Read, StartHeader, SkipLoop, ReadSkipsBlock, ReadPage, chip, writer
  <2> QED
    BY <2>1 DEF SpillInv, Busy, Touched, Full, Skipped, IsBad, Settled
<1>3. CASE ~FlashErase /\ ~Read
  <2>1. CASE pc = "erase"
    <3>1. /\ UNCHANGED <<cell, marks, at, abandoned>>
          /\ pc' = "cut"
      BY <1>3, <2>1
         DEF Next, Write, SkipBadBlock, EnterBlock, RunOffChip, ProgramPage, ProgramFail,
             ProgramReadsBlank, GiveUpErase, TryAgain, GiveUpBlock, PowerCut, chip
    <3> QED
      BY <2>1, <3>1 DEF SpillInv, Busy, Touched
  <2>2. CASE pc # "erase"
    <3>1. Busy /\ pc' # "erase" /\ curblk' \in {curblk, curblk + 1}
      BY <1>3, <2>2
         DEF Next, Write, SkipBadBlock, EnterBlock, RunOffChip, ProgramPage, PageWritten,
             ProgramFail, ProgramReadsBlank, RewindBlock, GiveUpErase, TryAgain, GiveUpBlock,
             PowerCut, Busy
    <3>2. ASSUME NEW b \in Partition, b < curblk PROVE Full(b)'
      BY <2>2, <3>1, <3>2, FullStays DEF SpillInv
    <3>3. ASSUME Busy', curblk' = curblk + 1, NEW b \in Partition, b = curblk PROVE Full(b)'
      BY <1>1, <1>3, <2>2, <3>1, <3>3, BlockLeft
    <3>4. ASSUME NEW x \in Outside, Touched(x)'
          PROVE  x <= curblk /\ x >= PtnStart
      <4>1. CASE Touched(x)
        BY <3>1, <4>1 DEF SpillInv
      <4>2. CASE ~Touched(x)
        <5>1. x = curblk
          <6>1. cell'[x] # cell[x]
            BY <3>4, <4>2 DEF Touched
          <6> QED
            BY <1>3, <2>2, <6>1
               DEF Next, Write, SkipBadBlock, EnterBlock, RunOffChip, ProgramPage,
                   ProgramFail, ProgramReadsBlank, GiveUpErase, TryAgain, GiveUpBlock,
                   PowerCut, EraseOk, EraseFail, chip, TypeInv, TypeOK
        <5> QED
          BY <5>1, <1>n
      <4> QED
        BY <4>1, <4>2
    <3>5. ASSUME NEW x \in Outside, Touched(x)', NEW b \in Partition
          PROVE  Full(b)'
      <4>1. b < x
        BY <3>4, <3>5, <1>n, GeometryAssumption DEF Partition
      <4> QED
        BY <3>2, <3>4, <3>5, <4>1, <1>n
    <3>6. ASSUME Busy', NEW b \in Partition, b < curblk' PROVE Full(b)'
      <4>1. b < curblk \/ (b = curblk /\ curblk' = curblk + 1)
        BY <3>1, <3>6, <1>n
      <4> QED
        BY <3>2, <3>3, <3>6, <4>1
    <3>7. ASSUME NEW x \in Outside, Touched(x)' PROVE x <= curblk'
      <4>1. x <= curblk /\ x \in Int
        BY <3>4, <3>7, <1>n
      <4> QED
        BY <3>1, <4>1, <1>n
    <3> QED
      BY <3>1, <3>4, <3>5, <3>6, <3>7 DEF SpillInv
  <2> QED
    BY <2>1, <2>2
<1> QED
  BY <1>1, <1>2, <1>3

\* The write leaves its partition only when the partition is used up: nothing below
\* it is ever touched, and once a block above it is, every block of the partition is
\* bad, was given up, or holds pages of the image; for every chip, image, pattern of
\* bad blocks and failure.
THEOREM SpillCorrect == Spec => []SpillOnlyWhenFull
<1>1. Init => TypeInv /\ WriterInv /\ SpillInv
  BY InitType, InitInv, SpillInit
<1>2. TypeInv /\ WriterInv /\ SpillInv /\ [Next]_vars => (TypeInv /\ WriterInv /\ SpillInv)'
  <2> SUFFICES ASSUME TypeInv, WriterInv, SpillInv, [Next]_vars
               PROVE  (TypeInv /\ WriterInv /\ SpillInv)'
    OBVIOUS
  <2>1. TypeInv' /\ WriterInv'
    BY StepType, WriterStep
  <2>2. CASE Next
    BY <2>1, <2>2, SpillStep DEF WriterInv
  <2>3. CASE UNCHANGED vars
    BY <2>1, <2>3 DEF vars, SpillInv, Busy, Touched, Full, Skipped, IsBad, Settled
  <2> QED
    BY <2>1, <2>2, <2>3
<1>3. TypeInv /\ SpillInv => SpillOnlyWhenFull
  <2> SUFFICES ASSUME TypeInv, SpillInv PROVE SpillOnlyWhenFull
    OBVIOUS
  <2>1. 1 .. Settled \subseteq 1 .. cur
    BY Numbers DEF Settled
  <2>2. ASSUME NEW b \in Partition, Full(b)
        PROVE  IsBad(b) \/ b \in abandoned \/ \E k \in 1 .. cur : at[k][1] = b
    BY <2>1, <2>2 DEF Full, Skipped
  <2>3. ASSUME NEW x \in Blocks \ Partition, Touched(x)
        PROVE  x >= PtnStart /\ \A b \in Partition : Full(b)
    BY <2>3 DEF SpillInv
  <2> QED
    BY <2>2, <2>3 DEF SpillOnlyWhenFull, Touched
<1> QED
  BY <1>1, <1>2, <1>3, PTL DEF Spec

-----------------------------------------------------------------------------
(* The old header goes first *)

\* Good blocks of the partition before b, when the marks are mk.
Count(mk, b) == Cardinality(GoodIn(mk, PtnStart .. b - 1))

LEMMA CountType ==
    ASSUME NEW mk, NEW s \in Int, NEW e \in Int
    PROVE  IsFiniteSet(GoodIn(mk, s .. e)) /\ Cardinality(GoodIn(mk, s .. e)) \in Nat
<1>1. IsFiniteSet(s .. e)
  BY FS_Interval
<1>2. GoodIn(mk, s .. e) \subseteq s .. e
  BY DEF GoodIn
<1>3. IsFiniteSet(GoodIn(mk, s .. e))
  BY <1>1, <1>2, FS_Subset
<1> QED
  BY <1>3, FS_CardinalityType

\* The count goes up by one at each good block.
LEMMA CountStep ==
    ASSUME NEW mk, NEW b \in Int, b >= PtnStart
    PROVE  Count(mk, b + 1) = Count(mk, b) + (IF BadWith(mk[b]) THEN 0 ELSE 1)
<1> DEFINE before == GoodIn(mk, PtnStart .. b - 1)
<1>1. PtnStart \in Int /\ (b + 1) - 1 = b
  BY GeometryAssumption
<1>2. IsFiniteSet(before) /\ Cardinality(before) \in Nat /\ b \notin before
  BY <1>1, CountType DEF GoodIn
<1>3. PtnStart .. b = (PtnStart .. b - 1) \cup {b}
  BY <1>1
<1>4. CASE BadWith(mk[b])
  <2>1. GoodIn(mk, PtnStart .. b) = before
    BY <1>3, <1>4 DEF GoodIn
  <2> QED
    BY <1>1, <1>2, <1>4, <2>1 DEF Count
<1>5. CASE ~BadWith(mk[b])
  <2>1. GoodIn(mk, PtnStart .. b) = before \cup {b}
    BY <1>3, <1>5 DEF GoodIn
  <2>2. Cardinality(before \cup {b}) = Cardinality(before) + 1
    BY <1>2, FS_AddElement
  <2> QED
    BY <1>1, <1>5, <2>1, <2>2 DEF Count
<1> QED
  BY <1>4, <1>5

\* Behind the partition everything in it has been counted.
LEMMA CountAll ==
    ASSUME NEW mk, NEW b \in Int, b >= PtnStart + PtnBlocks
    PROVE  Count(mk, b) >= Cardinality(GoodIn(mk, Partition))
<1>1. PtnStart \in Int /\ PtnBlocks \in Int
  BY GeometryAssumption
<1>2. Partition \subseteq PtnStart .. b - 1
  BY <1>1 DEF Partition
<1>3. GoodIn(mk, Partition) \subseteq GoodIn(mk, PtnStart .. b - 1)
  BY <1>2 DEF GoodIn
<1>4. IsFiniteSet(GoodIn(mk, PtnStart .. b - 1)) /\ Count(mk, b) \in Nat
  BY <1>1, CountType DEF Count
<1> QED
  BY <1>3, <1>4, FS_Subset, FS_CardinalityType DEF Count

Marks == [Blocks -> 0 .. MarkPages]

\* The chip from block b on is as the old image left it, with its header in b, when
\* the marks were mk.
Intact(mk, b) ==
    /\ b \in GoodIn(mk, Partition) /\ OldFits(mk) /\ Count(mk, b) = 0
    /\ \A x \in Blocks : x >= b =>
          /\ marks[x] = mk[x]
          /\ \A p \in Pages : cell[x][p] = OldCell(mk, x, p)

HeaderAt(b) == \E p \in Pages : cell[b][p] = ImagePages + 1

\* The erase takes the header of the old image before anything behind it, and nothing
\* writes it again.
OldInv ==
    /\ \A k \in Image : src[k] <= ImagePages
    /\ \A b \in Blocks : HeaderAt(b) => b \in unerased \/ \E mk \in Marks : Intact(mk, b)
    /\ pc = "erase" => \A b \in Blocks : b < curblk /\ HeaderAt(b) => b \in unerased
    /\ pc \notin {"erase", "cut"} => \A b \in Blocks : HeaderAt(b) => b \in unerased

\* Where the reader stands in the old image.
InOld(mk, b) ==
    /\ Intact(mk, b)
    /\ \A x \in PtnStart .. b - 1 : IsBad(x)
    /\ \A k \in 1 .. rcnt : dst[k] = ImagePages + k
    /\ rpc = "skip" => rblk <= b
    /\ rpc = "read" => rblk >= b /\ rcnt = (Count(mk, rblk) * PagesPerBlock) + rpg

OldReader ==
    /\ rpc \in {"skip", "read"} => rblk >= PtnStart
    /\ rpc = "skip" => rpg = rcnt /\ rcnt <= 1
    /\ (rpc = "skip" \/ (rpc = "read" /\ rcnt = 0)) =>
          \A x \in PtnStart .. rblk - 1 : IsBad(x)
    /\ rpc = "read" /\ rcnt = 0 => rpg = 0
    /\ rpc = "read" /\ rpg # 0 => ~IsBad(rblk)
    /\ rpc = "kernel" => rcnt = ImagePages /\ HasMagic(dst[1])
    /\ (rcnt > 0 /\ dst[1] = ImagePages + 1 /\ \A b \in unerased : IsBad(b)) =>
          \E mk \in Marks, b \in Partition : InOld(mk, b)

\* The header of the old image is in the first page of the first good block.
LEMMA OldHeader ==
    ASSUME NEW mk \in Marks, NEW b \in Blocks, NEW p \in Pages,
           OldCell(mk, b, p) = ImagePages + 1
    PROVE  b \in GoodIn(mk, Partition) /\ OldFits(mk) /\ Count(mk, b) = 0
<1> DEFINE n == Count(mk, b)
<1>1. n \in Nat /\ PagesPerBlock \in Nat /\ PagesPerBlock > 1 /\ ImagePages \in Nat
      /\ p \in Int /\ p >= 0
  BY CountType, GeometryAssumption DEF Count, Blocks, Pages
<1>2. /\ b \in GoodIn(mk, Partition) /\ OldFits(mk)
      /\ ImagePages + ((n * PagesPerBlock) + p + 1) = ImagePages + 1
  BY <1>1 DEF OldCell, Other, Blank, Count
<1>3. (n * PagesPerBlock) + p = 0
  <2>1. n * PagesPerBlock \in Nat
    BY <1>1
  <2> QED
    BY <1>1, <1>2, <2>1
<1>4. n >= 1 => n * PagesPerBlock >= PagesPerBlock
  BY <1>1
<1>5. n * PagesPerBlock \in Int
  BY <1>1
<1>6. n = 0
  BY <1>1, <1>3, <1>4, <1>5
<1> QED
  BY <1>2, <1>6

LEMMA OldInit == Init => OldInv /\ OldReader
<1> SUFFICES ASSUME Init PROVE OldInv /\ OldReader
  OBVIOUS
<1>1. \A k \in Image : src[k] <= ImagePages
  BY GeometryAssumption DEF Init, Image
<1>2. marks \in Marks
  BY DEF Init, Marks, MarkPages
<1>3. ASSUME NEW b \in Blocks, HeaderAt(b) PROVE Intact(marks, b)
  <2>1. \A x \in Blocks, p \in Pages : cell[x][p] = OldCell(marks, x, p)
    BY DEF Init
  <2>2. PICK p \in Pages : cell[b][p] = ImagePages + 1
    BY <1>3 DEF HeaderAt
  <2>3. OldCell(marks, b, p) = ImagePages + 1
    BY <2>1, <2>2
  <2> QED
    BY <1>2, <2>1, <2>3, OldHeader DEF Intact
<1>4. ASSUME NEW b \in Blocks, b < curblk, HeaderAt(b) PROVE FALSE
  <2>1. b \in Partition
    BY <1>3, <1>4 DEF Intact, GoodIn
  <2> QED
    BY <2>1, <1>4, GeometryAssumption DEF Init, Partition
<1>5. pc = "erase" /\ rpc = "idle" /\ rcnt = 0
  BY DEF Init
<1>6. OldInv
  BY <1>1, <1>2, <1>3, <1>4, <1>5 DEF OldInv
<1> QED
  BY <1>5, <1>6 DEF OldReader

\* What the erase of block b leaves alone is intact as before.
LEMMA IntactStays ==
    ASSUME TypeInv, NEW c \in Blocks, NEW b \in Blocks, c < b,
           NEW mk \in Marks, Intact(mk, b),
           \A x \in Blocks : x # c => cell'[x] = cell[x] /\ marks'[x] = marks[x]
    PROVE  Intact(mk, b)'
<1>1. \A x \in Blocks : x >= b => x # c
  BY Ranges
<1> QED
  BY <1>1 DEF Intact

LEMMA OldErase ==
    ASSUME TypeInv, OldInv, FlashErase
    PROVE  OldInv'
<1>1. /\ pc = "erase" /\ curblk \in Partition /\ curblk \in Blocks /\ curblk \in Int
      /\ UNCHANGED src /\ unerased \subseteq unerased'
  BY Ranges DEF FlashErase, TypeInv, BookInv
<1>2. \A x \in Blocks : x # curblk => cell'[x] = cell[x] /\ marks'[x] = marks[x]
  BY <1>1 DEF FlashErase, EraseOk, EraseFail, TypeInv, TypeOK
<1>4. ASSUME NEW b \in Blocks, b = curblk, HeaderAt(b)' PROVE b \in unerased'
  <2>1. CASE EraseOk(curblk)
    <3>1. cell'[b] = ErasedBlock
      BY <2>1, <1>1, <1>4 DEF EraseOk, TypeInv, TypeOK
    <3>2. \A p \in Pages : cell'[b][p] = Blank
      BY <3>1 DEF ErasedBlock
    <3> QED
      BY <1>4, <3>2, GeometryAssumption DEF HeaderAt, Blank
  <2> QED
    BY <2>1, <1>4 DEF FlashErase
<1>5. ASSUME NEW b \in Blocks, b < curblk, HeaderAt(b)' PROVE b \in unerased'
  <2>1. b # curblk
    BY <1>1, <1>5
  <2>2. HeaderAt(b)
    BY <1>2, <1>5, <2>1 DEF HeaderAt
  <2> QED
    BY <1>1, <1>5, <2>2 DEF OldInv
<1>6. ASSUME NEW b \in Blocks, b > curblk, HeaderAt(b)'
      PROVE  b \in unerased' \/ \E mk \in Marks : Intact(mk, b)'
  <2>1. b # curblk /\ curblk < b
    BY <1>1, <1>6
  <2>2. HeaderAt(b)
    BY <1>2, <1>6, <2>1 DEF HeaderAt
  <2>3. CASE b \in unerased
    BY <2>3, <1>1
  <2>4. ASSUME NEW mk \in Marks, Intact(mk, b) PROVE Intact(mk, b)'
    BY <1>1, <1>2, <2>1, <2>4, IntactStays
  <2> QED
    BY <2>2, <2>3, <2>4 DEF OldInv
<1>7. \A b \in Blocks : HeaderAt(b)' => b \in unerased' \/ \E mk \in Marks : Intact(mk, b)'
  <2>1. \A b \in Blocks : b < curblk \/ b = curblk \/ b > curblk
    BY <1>1, Ranges
  <2> QED
    BY <1>4, <1>5, <1>6, <2>1
<1>8. pc' = "erase" => \A b \in Blocks : b < curblk' /\ HeaderAt(b)' => b \in unerased'
  <2> SUFFICES ASSUME pc' = "erase", NEW b \in Blocks, b < curblk', HeaderAt(b)'
               PROVE  b \in unerased'
    OBVIOUS
  <2>1. curblk' = curblk + 1 /\ b \in Int
    BY Ranges DEF FlashErase
  <2>2. b < curblk \/ b = curblk
    BY <1>1, <2>1
  <2> QED
    BY <1>4, <1>5, <2>2
<1>9. pc' # "erase" => \A b \in Blocks : HeaderAt(b)' => b \in unerased'
  <2> SUFFICES ASSUME pc' # "erase", NEW b \in Blocks, HeaderAt(b)'
               PROVE  b \in unerased'
    OBVIOUS
  <2>1. curblk + 1 >= PtnStart + PtnBlocks
    BY <1>1, GeometryAssumption DEF FlashErase
  <2>2. CASE b <= curblk
    <3>1. b < curblk \/ b = curblk
      BY <2>2, <1>1, Ranges
    <3> QED
      BY <1>4, <1>5, <3>1
  <2>3. CASE b > curblk
    <3>1. b \notin Partition
      BY <2>1, <2>3, <1>1, GeometryAssumption DEF Partition
    <3>2. \A mk \in Marks : ~Intact(mk, b)'
      BY <3>1 DEF Intact, GoodIn
    <3> QED
      BY <1>6, <2>3, <3>2
  <2> QED
    BY <2>2, <2>3, <1>1, Ranges
<1> QED
  BY <1>1, <1>7, <1>8, <1>9 DEF OldInv

\* Nothing the writer programs is a page of the old image.
LEMMA OldProgram ==
    ASSUME TypeInv, OldInv, Next, pc # "erase", ~Read
    PROVE  OldInv'
<1>1. pc' # "erase" /\ unerased' = unerased /\ (pc \notin {"erase", "cut"})
  BY DEF Next, Write, FlashErase, SkipBadBlock, EnterBlock, RunOffChip, ProgramPage,
         PageWritten, ProgramFail, ProgramReadsBlank, RewindBlock, GiveUpErase, TryAgain,
         GiveUpBlock, PowerCut
<1>2. /\ cell \in [Blocks -> [Pages -> Contents]] /\ src \in [Image -> Contents]
      /\ ImagePages \in Int /\ ImagePages > 0 /\ Contents \subseteq Int
  BY GeometryAssumption DEF TypeInv, TypeOK, Contents
<1>3. /\ \A k \in Image : src'[k] <= ImagePages
      /\ \A b \in Blocks : HeaderAt(b)' => HeaderAt(b)
  <2>1. CASE ProgramPage
    <3>1. PICK v \in {Programmed(cell[curblk][pagecnt], src[cur + 1])} \cup
                     (IF "uncor" \in Faults THEN {Junk} ELSE {}) :
                 /\ cell' = [cell EXCEPT ![curblk][pagecnt] = v]
                 /\ src'  = [src EXCEPT ![cur + 1] = v]
      BY <2>1 DEF ProgramPage
    <3>2. cur + 1 \in Image
      BY <2>1, Numbers DEF ProgramPage, Image
    <3>3. v \in {src[cur + 1], Junk}
      BY <3>1 DEF Programmed
    <3>4. v <= ImagePages
      BY <3>2, <3>3, <1>2 DEF OldInv, Junk
    <3>5. v # ImagePages + 1
      BY <3>4, <3>3, <3>2, <1>2 DEF Junk
    <3>6. \A k \in Image : src'[k] <= ImagePages
      BY <3>1, <3>4, <1>2 DEF OldInv
    <3>7. ASSUME NEW b \in Blocks, NEW p \in Pages, cell'[b][p] = ImagePages + 1
          PROVE  cell[b][p] = ImagePages + 1
      BY <3>1, <3>5, <3>7, <1>2
    <3> QED
      BY <3>6, <3>7 DEF HeaderAt
  <2>2. CASE ProgramFail
    <3>1. cell' = [cell EXCEPT ![curblk][pagecnt] = Junk] /\ src' = src
      BY <2>2 DEF ProgramFail
    <3>2. ASSUME NEW b \in Blocks, NEW p \in Pages, cell'[b][p] = ImagePages + 1
          PROVE  cell[b][p] = ImagePages + 1
      BY <3>1, <3>2, <1>2 DEF Junk
    <3> QED
      BY <3>1, <3>2 DEF HeaderAt, OldInv
  <2>3. CASE ProgramReadsBlank
    <3>1. cell' = cell /\ src' = [src EXCEPT ![cur + 1] = FF]
      BY <2>3 DEF ProgramReadsBlank, Decode, Blank
    <3>2. FF <= ImagePages
      BY <1>2 DEF FF
    <3> QED
      BY <3>1, <3>2, <1>2 DEF HeaderAt, OldInv
  <2>4. CASE GiveUpErase \/ TryAgain \/ GiveUpBlock
    <3>1. src' = src
      BY <2>4 DEF GiveUpErase, TryAgain, GiveUpBlock
    <3>2. \E c \in {cell[curblk], JunkBlock, ErasedBlock} : cell' = [cell EXCEPT ![curblk] = c]
      BY <2>4 DEF GiveUpErase, TryAgain, GiveUpBlock, EraseOk, EraseFail
    <3>3. \A p \in Pages : JunkBlock[p] = Junk /\ ErasedBlock[p] = Blank
      BY DEF JunkBlock, ErasedBlock
    <3>4. ASSUME NEW b \in Blocks, NEW p \in Pages, cell'[b][p] = ImagePages + 1
          PROVE  cell[b][p] = ImagePages + 1
      BY <3>2, <3>3, <3>4, <1>2 DEF Junk, Blank
    <3> QED
      BY <3>1, <3>4 DEF HeaderAt, OldInv
  <2>5. CASE UNCHANGED <<cell, src>>
    BY <2>5 DEF HeaderAt, OldInv
  <2> QED
    BY <2>1, <2>2, <2>3, <2>4, <2>5
       DEF Next, Write, FlashErase, SkipBadBlock, EnterBlock, RunOffChip, PowerCut, chip
<1>4. \A b \in Blocks : HeaderAt(b)' => b \in unerased'
  BY <1>1, <1>3 DEF OldInv
<1> QED
  BY <1>1, <1>3, <1>4 DEF OldInv

\* The reader changes nothing of the chip.
LEMMA OldRead ==
    ASSUME OldInv, Read
    PROVE  OldInv' /\ UNCHANGED <<marks, cell, unerased, pc>>
           /\ \A mk, b : Intact(mk, b)' <=> Intact(mk, b)
<1>1. UNCHANGED <<marks, cell, src, curblk, unerased, pc>>
  BY DEF Read, StartHeader, SkipLoop, ReadSkipsBlock, ReadPage, chip, writer
<1>2. \A b : HeaderAt(b)' <=> HeaderAt(b)
  BY <1>1 DEF HeaderAt
<1>3. \A mk, b : Intact(mk, b)' <=> Intact(mk, b)
  BY <1>1 DEF Intact
<1> QED
  BY <1>1, <1>2, <1>3 DEF OldInv

\* While the writer writes, the reader has nothing.
LEMMA OldWaits ==
    ASSUME ReaderInv, ReaderInv', OldReader, Next, ~Read
    PROVE  OldReader'
<1>1. Writing /\ UNCHANGED reader
  BY DEF Next, Write, Writing, FlashErase, SkipBadBlock, EnterBlock, RunOffChip, ProgramPage,
         ProgramFail, ProgramReadsBlank, GiveUpErase, TryAgain, GiveUpBlock, PowerCut
<1>2. rpc' = "idle" /\ rcnt' = 0
  BY <1>1 DEF ReaderInv, reader
<1> QED
  BY <1>2 DEF OldReader

\* The reader looks for a good block from the start of the partition.
LEMMA OldSkips ==
    ASSUME TypeInv, OldInv, OldReader, StartHeader \/ SkipLoop \/ ReadSkipsBlock
    PROVE  OldReader'
<1>n. /\ rblk \in Int /\ rpg \in Int /\ rcnt \in Int /\ PtnStart \in Int
      /\ PagesPerBlock \in Int /\ PagesPerBlock > 1
  BY Numbers, GeometryAssumption
<1>1. /\ UNCHANGED <<marks, cell, unerased, rcnt, dst>>
      /\ \A b : IsBad(b)' <=> IsBad(b)
      /\ \A mk, b : Intact(mk, b)' <=> Intact(mk, b)
  <2>1. Read /\ UNCHANGED <<rcnt, dst>>
    BY DEF Read, StartHeader, SkipLoop, ReadSkipsBlock
  <2> QED
    BY <2>1, OldRead DEF IsBad
<1> DEFINE Premise == rcnt > 0 /\ dst[1] = ImagePages + 1 /\ \A b \in unerased : IsBad(b)
<1>2. CASE StartHeader
  <2>1. rcnt = 0
    BY <1>2 DEF StartHeader, TypeInv
  <2> QED
    BY <1>1, <1>2, <1>n, <2>1 DEF StartHeader, OldReader
<1>3. CASE SkipLoop
  <2>1. /\ rpc = "skip" /\ rblk < NBlocks /\ rpg = rcnt /\ rcnt <= 1 /\ rpg' = rpg
        /\ rblk >= PtnStart /\ rblk \in Blocks
        /\ \A x \in PtnStart .. rblk - 1 : IsBad(x)
    BY <1>3, <1>n, GeometryAssumption DEF SkipLoop, OldReader, Blocks
  <2>2. CASE IsBad(rblk)
    <3>1. rpc' = "skip" /\ rblk' = rblk + 1
      BY <1>3, <2>1, <2>2 DEF SkipLoop
    <3>2. \A x \in PtnStart .. rblk' - 1 : IsBad(x)
      BY <1>n, <2>1, <2>2, <3>1
    <3>3. ASSUME Premise PROVE \E mk \in Marks, b \in Partition : InOld(mk, b)'
      <4>1. PICK mk \in Marks, b \in Partition : InOld(mk, b)
        BY <3>3 DEF OldReader
      <4>2. b \in Int /\ b \in Blocks /\ ~IsBad(b) /\ rblk <= b
        BY <4>1, <2>1, Ranges DEF InOld, Intact, GoodIn, IsBad
      <4>3. rblk + 1 <= b
        BY <4>2, <2>2, <1>n
      <4> QED
        BY <1>1, <3>1, <4>1, <4>3 DEF InOld
    <3> QED
      BY <1>1, <1>n, <2>1, <3>1, <3>2, <3>3 DEF OldReader
  <2>3. CASE ~IsBad(rblk)
    <3>1. rpc' = "read" /\ rblk' = rblk
      BY <1>3, <2>1, <2>3 DEF SkipLoop
    <3>2. ASSUME Premise PROVE \E mk \in Marks, b \in Partition : InOld(mk, b)'
      <4>1. PICK mk \in Marks, b \in Partition : InOld(mk, b)
        BY <3>2 DEF OldReader
      <4>2. b \in Int /\ rblk <= b
        BY <4>1, <2>1, Ranges DEF InOld
      <4>3. rblk = b
        <5>1. \A x \in PtnStart .. b - 1 : IsBad(x)
          BY <4>1 DEF InOld
        <5> QED
          BY <5>1, <4>2, <2>1, <2>3, <1>n
      <4>4. Count(mk, rblk) = 0
        BY <4>1, <4>3 DEF InOld, Intact
      <4>5. rcnt = (Count(mk, rblk) * PagesPerBlock) + rpg
        BY <4>4, <2>1, <1>n
      <4>6. rcnt' = (Count(mk, rblk') * PagesPerBlock) + rpg'
        BY <4>5, <3>1, <2>1, <1>1
      <4> QED
        BY <1>1, <3>1, <4>1, <4>2, <4>3, <4>6, <1>n DEF InOld, Count
    <3> QED
      BY <1>1, <1>n, <2>1, <2>3, <3>1, <3>2 DEF OldReader
  <2> QED
    BY <2>2, <2>3
<1>4. CASE ReadSkipsBlock
  <2>1. /\ rpc = "read" /\ rpc' = "read" /\ rblk' = rblk + 1 /\ rpg = 0 /\ rpg' = 0
        /\ IsBad(rblk) /\ rblk >= PtnStart /\ rblk \in Blocks
    BY <1>4, <1>n, GeometryAssumption DEF ReadSkipsBlock, OldReader, Blocks
  <2>2. rcnt = 0 => \A x \in PtnStart .. rblk' - 1 : IsBad(x)
    BY <1>n, <2>1 DEF OldReader
  <2>3. ASSUME Premise PROVE \E mk \in Marks, b \in Partition : InOld(mk, b)'
    <3>1. PICK mk \in Marks, b \in Partition : InOld(mk, b)
      BY <2>3 DEF OldReader
    <3>2. b \in Int /\ rblk >= b /\ BadWith(mk[rblk])
      BY <3>1, <2>1, Ranges DEF InOld, Intact, IsBad
    <3>3. Count(mk, rblk + 1) = Count(mk, rblk)
      <4>1. Count(mk, rblk) \in Nat
        BY CountType, <1>n DEF Count
      <4> QED
        BY <3>2, <4>1, <2>1, <1>n, CountStep
    <3>4. rcnt' = (Count(mk, rblk') * PagesPerBlock) + rpg'
      BY <3>1, <3>3, <2>1, <1>1 DEF InOld
    <3> QED
      BY <1>1, <2>1, <3>1, <3>2, <3>4, <1>n DEF InOld, Count
  <2> QED
    BY <1>1, <1>n, <2>1, <2>2, <2>3 DEF OldReader
<1> QED
  BY <1>2, <1>3, <1>4

\* In the old image the reader stands at page rcnt + 1, as long as there is one.
LEMMA OldAtPage ==
    ASSUME TypeInv, OldReader, NEW mk \in Marks, NEW b \in Partition, InOld(mk, b),
           rpc = "read", rblk < NBlocks, ~IsBad(rblk)
    PROVE  /\ cell[rblk][rpg] = ImagePages + (rcnt + 1)
           /\ Count(mk, rblk) \in Nat /\ Count(mk, rblk + 1) = Count(mk, rblk) + 1
           /\ rcnt = (Count(mk, rblk) * PagesPerBlock) + rpg
<1> DEFINE n == Count(mk, rblk)
           all == Cardinality(GoodIn(mk, Partition))
<1>n. /\ rblk \in Int /\ rpg \in Int /\ rcnt \in Int /\ PtnStart \in Int /\ b \in Int
      /\ PagesPerBlock \in Nat /\ PagesPerBlock > 1 /\ ImagePages \in Nat /\ PtnBlocks \in Nat
      /\ rpg >= 0 /\ rpg \in Pages /\ rcnt < ImagePages
  BY Numbers, Ranges, GeometryAssumption DEF TypeInv, TypeOK
<1>1. /\ rblk >= b /\ rblk \in Blocks /\ rblk >= PtnStart
      /\ rcnt = (n * PagesPerBlock) + rpg
  BY <1>n, GeometryAssumption DEF InOld, Blocks, OldReader
<1>2. marks[rblk] = mk[rblk] /\ cell[rblk][rpg] = OldCell(mk, rblk, rpg) /\ ~BadWith(mk[rblk])
  BY <1>1, <1>n DEF InOld, Intact, IsBad
<1>3. n \in Nat /\ n = Cardinality(GoodIn(mk, PtnStart .. rblk - 1))
  BY <1>n, CountType DEF Count
<1>4. Count(mk, rblk + 1) = n + 1
  BY <1>1, <1>2, <1>3, <1>n, CountStep
<1>5. rblk \in Partition
  <2> SUFFICES ASSUME rblk \notin Partition PROVE FALSE
    OBVIOUS
  <2>1. rblk >= PtnStart + PtnBlocks
    BY <1>1, <1>n DEF Partition
  <2>2. n >= all
    BY <1>n, <2>1, CountAll
  <2>3. all \in Nat
    BY <1>n, CountType, GeometryAssumption DEF Partition
  <2>4. all * PagesPerBlock >= ImagePages
    BY DEF InOld, Intact, OldFits
  <2>5. n * PagesPerBlock >= all * PagesPerBlock
    <3>1. PICK d \in Nat : n = all + d
      <4>1. n - all \in Nat /\ n = all + (n - all)
        BY <2>2, <2>3, <1>3
      <4> QED
        BY <4>1
    <3>2. n * PagesPerBlock = (all * PagesPerBlock) + (d * PagesPerBlock)
      BY <3>1, <2>3, <1>n
    <3>3. d * PagesPerBlock \in Nat /\ all * PagesPerBlock \in Int
      BY <2>3, <1>n
    <3> QED
      BY <3>2, <3>3
  <2>6. n * PagesPerBlock \in Int /\ all * PagesPerBlock \in Int
    BY <1>3, <2>3, <1>n
  <2> QED
    BY <1>1, <1>n, <2>4, <2>5, <2>6
<1>6. cell[rblk][rpg] = ImagePages + ((n * PagesPerBlock) + rpg + 1)
  <2>1. (n * PagesPerBlock) + rpg + 1 = rcnt + 1
    BY <1>1, <1>3, <1>n
  <2>2. rcnt + 1 <= ImagePages
    BY <1>n
  <2>3. rblk \in GoodIn(mk, Partition) /\ OldFits(mk)
    BY <1>2, <1>5 DEF GoodIn, InOld, Intact
  <2> HIDE DEF n
  <2> QED
    BY <1>2, <1>3, <1>5, <2>1, <2>2, <2>3 DEF OldCell
<1>7. (n * PagesPerBlock) + rpg + 1 = rcnt + 1
  BY <1>1, <1>3, <1>n
<1> QED
  BY <1>1, <1>3, <1>4, <1>6, <1>7

\* The reader copies a page: the header, or the next page of the old image.
LEMMA OldCopies ==
    ASSUME TypeInv, OldInv, OldReader, ReadPage
    PROVE  OldReader'
<1>n. /\ rblk \in Int /\ rpg \in Int /\ rcnt \in Int /\ PtnStart \in Int /\ rcnt >= 0
      /\ PagesPerBlock \in Nat /\ PagesPerBlock > 1 /\ ImagePages \in Nat /\ ImagePages > 0
      /\ rpg >= 0 /\ rpg \in Pages /\ rcnt < ImagePages
      /\ dst \in [Image -> Contents]
  BY Numbers, Ranges, GeometryAssumption DEF TypeInv, TypeOK, ReadPage
<1>0. /\ UNCHANGED <<marks, cell, unerased>>
      /\ \A b : IsBad(b)' <=> IsBad(b)
      /\ \A mk, b : Intact(mk, b)' <=> Intact(mk, b)
  <2>1. Read
    BY DEF Read
  <2> QED
    BY <2>1, OldRead DEF IsBad
<1>1. /\ rpc = "read" /\ rblk < NBlocks /\ ~IsBad(rblk) /\ rblk >= PtnStart
      /\ rblk \in Blocks
      /\ dst' = [dst EXCEPT ![rcnt + 1] = Decode(cell[rblk][rpg])]
      /\ rcnt' = rcnt + 1 /\ rcnt + 1 \in Image
  BY <1>n, GeometryAssumption DEF ReadPage, OldReader, Blocks, Image
<1>2. rcnt = 0 => rpg = 0 /\ \A x \in PtnStart .. rblk - 1 : IsBad(x)
  BY <1>1 DEF OldReader
<1>3. Decode(cell[rblk][rpg]) = ImagePages + 1 => cell[rblk][rpg] = ImagePages + 1
  BY <1>n DEF Decode, FF
<1> DEFINE Premise == dst'[1] = ImagePages + 1 /\ \A b \in unerased : IsBad(b)
           New(mk, b) == /\ Intact(mk, b)
                         /\ \A x \in PtnStart .. b - 1 : IsBad(x)
                         /\ \A k \in 1 .. rcnt + 1 : dst'[k] = ImagePages + k
                         /\ rblk >= b
                         /\ rcnt = (Count(mk, rblk) * PagesPerBlock) + rpg
                         /\ Count(mk, rblk) \in Nat
                         /\ Count(mk, rblk + 1) = Count(mk, rblk) + 1
<1>4. ASSUME Premise PROVE \E mk \in Marks, b \in Partition : New(mk, b)
  <2>1. CASE rcnt = 0
    <3>1. dst'[1] = Decode(cell[rblk][rpg])
      BY <1>1, <1>n, <2>1
    <3>2. cell[rblk][rpg] = ImagePages + 1
      BY <1>3, <1>4, <3>1
    <3>3. HeaderAt(rblk)
      BY <3>2, <1>n DEF HeaderAt
    <3>4. rblk \notin unerased
      BY <1>4, <1>1
    <3>5. PICK mk \in Marks : Intact(mk, rblk)
      BY <3>3, <3>4, <1>1 DEF OldInv
    <3>6. rblk \in Partition /\ Count(mk, rblk) = 0 /\ ~BadWith(mk[rblk])
      BY <3>5 DEF Intact, GoodIn
    <3>7. Count(mk, rblk + 1) = 1
      BY <3>6, <1>1, <1>n, CountStep
    <3>8. rcnt = (Count(mk, rblk) * PagesPerBlock) + rpg
      BY <3>6, <2>1, <1>2, <1>n
    <3>9. \A k \in 1 .. rcnt + 1 : dst'[k] = ImagePages + k
      BY <1>4, <2>1
    <3> QED
      BY <1>2, <1>n, <2>1, <3>5, <3>6, <3>7, <3>8, <3>9
  <2>2. CASE rcnt # 0
    <3>1. dst'[1] = dst[1] /\ rcnt > 0
      BY <1>1, <1>n, <2>2
    <3>2. PICK mk \in Marks, b \in Partition : InOld(mk, b)
      BY <1>4, <3>1 DEF OldReader
    <3>3. /\ cell[rblk][rpg] = ImagePages + (rcnt + 1)
          /\ Count(mk, rblk) \in Nat /\ Count(mk, rblk + 1) = Count(mk, rblk) + 1
          /\ rcnt = (Count(mk, rblk) * PagesPerBlock) + rpg
      BY <3>2, <1>1, OldAtPage
    <3>4. dst'[rcnt + 1] = ImagePages + (rcnt + 1)
      <4>1. Decode(ImagePages + (rcnt + 1)) = ImagePages + (rcnt + 1)
        BY <1>n DEF Decode, Blank
      <4> QED
        BY <1>1, <1>n, <3>3, <4>1
    <3>5. \A k \in 1 .. rcnt + 1 : dst'[k] = ImagePages + k
      <4>1. \A k \in 1 .. rcnt : dst'[k] = dst[k] /\ dst[k] = ImagePages + k
        BY <3>2, <1>1, <1>n DEF InOld
      <4> QED
        BY <3>4, <4>1, <1>n
    <3> QED
      BY <1>1, <3>2, <3>3, <3>5 DEF InOld
  <2> QED
    BY <2>1, <2>2
<1>5. CASE rcnt + 1 = ImagePages
  <2>1. rpc' = BootOutcome(dst') /\ rpc' \in {"kernel", "magic"}
    BY <1>5 DEF ReadPage, BootOutcome
  <2>2. rpc' = "kernel" => rcnt' = ImagePages /\ HasMagic(dst'[1])
    BY <1>1, <1>5, <2>1 DEF BootOutcome
  <2>3. Premise => \E mk \in Marks, b \in Partition : InOld(mk, b)'
    BY <1>0, <1>1, <1>4, <2>1 DEF InOld
  <2> QED
    BY <1>0, <2>1, <2>2, <2>3 DEF OldReader, HasMagic
<1>6. CASE rcnt + 1 # ImagePages /\ rcnt = 0
  <2>1. rpc' = "skip" /\ rblk' = PtnStart /\ rpg' = 1 /\ rcnt' = 1
    BY <1>1, <1>6, <1>n DEF ReadPage
  <2>2. Premise => \E mk \in Marks, b \in Partition : InOld(mk, b)'
    <3>1. \A b \in Partition : PtnStart <= b
      BY <1>n, GeometryAssumption DEF Partition
    <3> QED
      BY <1>0, <1>1, <1>4, <2>1, <3>1 DEF InOld
  <2> QED
    BY <1>0, <1>n, <2>1, <2>2 DEF OldReader
<1>7. CASE rcnt + 1 # ImagePages /\ rcnt # 0
  <2>1. /\ rpc' = "read" /\ rcnt' = rcnt + 1 /\ rcnt' # 0
        /\ IF rpg + 1 < PagesPerBlock
           THEN rpg' = rpg + 1 /\ rblk' = rblk
           ELSE rpg' = 0 /\ rblk' = rblk + 1
    BY <1>1, <1>7, <1>n DEF ReadPage
  <2>2. rblk' >= PtnStart /\ (rpg' # 0 => ~IsBad(rblk'))
    BY <2>1, <1>1, <1>n
  <2>3. ASSUME Premise PROVE \E mk \in Marks, b \in Partition : InOld(mk, b)'
    <3>1. PICK mk \in Marks, b \in Partition : New(mk, b)
      BY <1>4, <2>3
    <3>2. b \in Int /\ rblk' >= b
      BY <2>1, <3>1, <1>n, Ranges
    <3>3. rcnt' = (Count(mk, rblk') * PagesPerBlock) + rpg'
      <4> DEFINE m == Count(mk, rblk)
      <4>1. m \in Nat /\ Count(mk, rblk + 1) = m + 1 /\ rcnt = (m * PagesPerBlock) + rpg
        BY <3>1
      <4>2. CASE rpg + 1 < PagesPerBlock
        <5>1. rcnt' = rcnt + 1 /\ rpg' = rpg + 1 /\ rblk' = rblk
          BY <2>1, <4>2
        <5>2. m * PagesPerBlock \in Int
          BY <4>1, <1>n
        <5> QED
          BY <4>1, <5>1, <5>2, <1>n
      <4>3. CASE ~(rpg + 1 < PagesPerBlock)
        <5>1. rcnt' = rcnt + 1 /\ rpg' = 0 /\ rblk' = rblk + 1 /\ rpg + 1 = PagesPerBlock
          BY <2>1, <4>3, <1>n DEF Pages
        <5>2. Count(mk, rblk') = m + 1
          BY <4>1, <5>1
        <5>3. (m + 1) * PagesPerBlock = (m * PagesPerBlock) + PagesPerBlock
          BY <4>1, <1>n
        <5>4. m * PagesPerBlock \in Int
          BY <4>1, <1>n
        <5>5. rcnt' = ((m + 1) * PagesPerBlock) + 0
          BY <4>1, <5>1, <5>3, <5>4, <1>n
        <5> QED
          BY <5>1, <5>2, <5>5
      <4> QED
        BY <4>2, <4>3
    <3> QED
      BY <1>0, <2>1, <3>1, <3>2, <3>3, <1>n DEF InOld, Count
  <2> QED
    BY <1>0, <2>1, <2>2, <2>3 DEF OldReader
<1> QED
  BY <1>5, <1>6, <1>7

\* After a power cut the kernel is entered either with the old image complete or
\* with the header of the new one, unless a block that could not be erased was not
\* marked bad either: the erase goes upward, so the old header is the first page to
\* go, whatever blocks are bad and wherever the power fails.
THEOREM OldHeaderCorrect == Spec => []OldHeaderMeansOldImage
<1> DEFINE Inv == TypeInv /\ WriterInv /\ ReaderInv /\ OldInv /\ OldReader
<1>1. Init => Inv
  BY InitType, InitInv, OldInit
<1>2. Inv /\ [Next]_vars => Inv'
  <2> SUFFICES ASSUME Inv, [Next]_vars PROVE Inv'
    OBVIOUS
  <2>1. TypeInv' /\ WriterInv' /\ ReaderInv'
    <3>1. IInv
      BY DEF IInv, TypeInv, WriterInv
    <3>2. IInv'
      BY <3>1, InductiveStep
    <3> QED
      BY <3>2, StepType DEF IInv, WriterInv
  <2>2. CASE UNCHANGED vars
    <3>1. OldInv'
      BY <2>2 DEF vars, OldInv, HeaderAt, Intact
    <3>2. OldReader'
      BY <2>2 DEF vars, OldReader, InOld, Intact, IsBad
    <3> QED
      BY <2>1, <3>1, <3>2
  <2>3. CASE Read
    BY <2>1, <2>3, OldRead, OldSkips, OldCopies DEF Read
  <2>4. CASE Next /\ ~Read
    <3>1. OldInv'
      <4>1. CASE FlashErase
        BY <4>1, OldErase
      <4>2. CASE pc # "erase"
        BY <2>4, <4>2, OldProgram
      <4>3. CASE pc = "erase" /\ ~FlashErase
        <5>1. PowerCut
          BY <2>4, <4>3
             DEF Next, Write, SkipBadBlock, EnterBlock, RunOffChip, ProgramPage,
                 ProgramFail, ProgramReadsBlank, GiveUpErase, TryAgain, GiveUpBlock
        <5> QED
          BY <5>1 DEF PowerCut, chip, OldInv, HeaderAt, Intact
      <4> QED
        BY <4>1, <4>2, <4>3
    <3> QED
      BY <2>1, <2>4, <3>1, OldWaits
  <2> QED
    BY <2>2, <2>3, <2>4
<1>3. Inv => OldHeaderMeansOldImage
  <2> SUFFICES ASSUME Inv, rpc = "kernel", dst[1] # 1, \A b \in unerased : IsBad(b)
               PROVE  \A k \in Image : dst[k] = ImagePages + k
    BY DEF OldHeaderMeansOldImage
  <2>1. rcnt = ImagePages /\ dst[1] = ImagePages + 1 /\ rcnt > 0
    BY GeometryAssumption DEF OldReader, HasMagic
  <2>2. PICK mk \in Marks, b \in Partition : InOld(mk, b)
    BY <2>1 DEF OldReader
  <2> QED
    BY <2>1, <2>2 DEF InOld, Image
<1> QED
  BY <1>1, <1>2, <1>3, PTL DEF Spec
=============================================================================
