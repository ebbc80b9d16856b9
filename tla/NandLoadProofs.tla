--------------------------- MODULE NandLoadProofs ---------------------------
(***************************************************************************)
(* Two things about loading, for any number of voltages, pages, steps and     *)
(* bad blocks.  The retries of both stages find the voltage at which a page   *)
(* reads, wherever the page or the stage before left the chip.  And the pages *)
(* that are counted on the chip are those of the image: the good blocks below *)
(* a block (Before) tell which part of the image it holds.                    *)
(***************************************************************************)
EXTENDS NandLoad, FiniteSetTheorems, WellFoundedInduction, TLAPS

\* The levels that were tried before this one, n of them, going round the circle.
Tried(l, n) ==
    {k \in Levels : (k < l /\ l - k <= n) \/ (k > l /\ l + NLevels - k <= n)}

\* Setting the next level adds the one that was left.
LEMMA NextTried ==
    ASSUME NEW c \in 1 .. NLevels, NEW n \in Nat, NEW l \in Levels,
           l = IF c = NLevels THEN 0 ELSE c
    PROVE  Tried(l, n + 1) \subseteq Tried(c - 1, n) \cup {c - 1}
BY NandLoadAssumption DEF Tried, Levels

\* After all the others the circle is closed.
LEMMA AllTried ==
    ASSUME NEW l \in Levels, NEW n \in Nat, n + 1 >= NLevels
    PROVE  Levels \subseteq Tried(l, n) \cup {l}
BY NandLoadAssumption DEF Tried, Levels

-----------------------------------------------------------------------------
(* The level, the counter and the places they are in *)

LevelInv ==
    /\ level \in Levels /\ count \in 1 .. NLevels
    /\ tries \in Nat /\ step \in Nat \ {0} /\ hurt \subseteq Nat
    /\ stage \in {"spl", "x", "done", "lost"} /\ pc \in {"find", "copy", "read"}

LEMMA SetLevel ==
    ASSUME LevelInv, SetReadRetryData
    PROVE  /\ level' \in Levels /\ count' \in 1 .. NLevels /\ level' = count' - 1
           /\ level' = IF count = NLevels THEN 0 ELSE count
BY NandLoadAssumption DEF LevelInv, SetReadRetryData, Levels

LEMMA LevelInit == Init => LevelInv
BY NandLoadAssumption DEF Init, LevelInv, Levels

LEMMA LevelStep == LevelInv /\ [Next]_vars => LevelInv'
<1> SUFFICES ASSUME LevelInv, [Next]_vars PROVE LevelInv'
  OBVIOUS
<1>1. CASE FindBlock
  BY <1>1 DEF FindBlock, LevelInv
<1>2. CASE FoundBlock
  BY <1>2 DEF FoundBlock, LevelInv
<1>3. CASE SkipBlock
  BY <1>3 DEF SkipBlock, LevelInv
<1>4. CASE CopyPage
  BY <1>4 DEF CopyPage, LevelInv
<1>5. CASE SplRetry
  BY <1>5, SetLevel DEF SplRetry, LevelInv
<1>6. CASE SplDelivered
  BY <1>6 DEF SplDelivered, LevelInv
<1>7. CASE Handoff
  <2>1. level' \in Levels
    BY <1>7, NandLoadAssumption DEF Handoff, LevelInv
  <2>2. count' \in 1 .. NLevels
    BY <1>7, NandLoadAssumption DEF Handoff
  <2> QED
    BY <1>7, <2>1, <2>2 DEF Handoff, LevelInv
<1>8. CASE XStepOk
  BY <1>8 DEF XStepOk, LevelInv
<1>9. CASE XStepRetry
  BY <1>9, SetLevel DEF XStepRetry, LevelInv
<1>10. CASE XStepHurt
  BY <1>10 DEF XStepHurt, LevelInv
<1>11. CASE XDelivered
  BY <1>11 DEF XDelivered, LevelInv
<1>12. CASE GetImage
  BY <1>12 DEF GetImage, LevelInv
<1>13. CASE GotImage
  BY <1>13 DEF GotImage, LevelInv
<1>14. CASE UNCHANGED vars
  BY <1>14 DEF vars, LevelInv
<1> QED
  BY <1>1, <1>2, <1>3, <1>4, <1>5, <1>6, <1>7, <1>8, <1>9, <1>10, <1>11, <1>12, <1>13, <1>14
     DEF Next, Load, Finished

-----------------------------------------------------------------------------
(* What was delivered *)

Deliveries == [page : Int, hurt : SUBSET Nat]

PageInv == page \in Int /\ got \in Seq(Deliveries) /\ xgot \in Seq(Deliveries)

LEMMA PageInit == Init => PageInv
BY NandLoadAssumption DEF Init, PageInv, XbootPage, Blocks

LEMMA PageStep == LevelInv /\ PageInv /\ [Next]_vars => PageInv'
<1> SUFFICES ASSUME LevelInv, PageInv, [Next]_vars PROVE PageInv'
  OBVIOUS
<1> USE NandLoadAssumption DEF PageInv, history
<1>1. CASE FindBlock
  BY <1>1 DEF FindBlock
<1>2. CASE FoundBlock
  BY <1>2 DEF FoundBlock
<1>3. CASE SkipBlock
  BY <1>3 DEF SkipBlock
<1>4. CASE CopyPage
  BY <1>4 DEF CopyPage
<1>5. CASE SplRetry
  BY <1>5 DEF SplRetry
<1>6. CASE SplDelivered
  <2>1. [page |-> SplPage, hurt |-> Damaged(SplPage)] \in Deliveries
    BY DEF Deliveries, SplPage, Damaged, Steps
  <2>2. got' \in Seq(Deliveries) /\ UNCHANGED xgot
    BY <1>6, <2>1 DEF SplDelivered
  <2>3. page' \in Int
    BY <1>6 DEF SplDelivered
  <2> QED
    BY <2>2, <2>3
<1>7. CASE Handoff
  BY <1>7 DEF Handoff, XbootPage, Blocks
<1>8. CASE XStepOk
  BY <1>8 DEF XStepOk
<1>9. CASE XStepRetry
  BY <1>9 DEF XStepRetry
<1>10. CASE XStepHurt
  BY <1>10 DEF XStepHurt
<1>11. CASE XDelivered
  <2>1. [page |-> page, hurt |-> hurt] \in Deliveries
    BY DEF Deliveries, LevelInv
  <2>2. xgot' \in Seq(Deliveries) /\ UNCHANGED got
    BY <1>11, <2>1 DEF XDelivered
  <2> QED
    BY <1>11, <2>2 DEF XDelivered
<1>12. CASE GetImage
  BY <1>12 DEF GetImage, XbootPage, Blocks
<1>13. CASE GotImage
  BY <1>13 DEF GotImage
<1>14. CASE UNCHANGED vars
  BY <1>14 DEF vars
<1> QED
  BY <1>1, <1>2, <1>3, <1>4, <1>5, <1>6, <1>7, <1>8, <1>9, <1>10, <1>11, <1>12, <1>13, <1>14
     DEF Next, Load, Finished

-----------------------------------------------------------------------------
(* x-boot *)

\* No level reads step s of page p.
Unreadable(p, s) == \A l \in Levels : l \notin reads[p][s]

\* The step being decoded failed at every level it was tried at, except perhaps the
\* first, which need not be in the circle; the steps before it that are hurt failed at
\* all of them.
XReadInv ==
    /\ tries > 0 => level = count - 1
    /\ tries > 0 => \A l \in Tried(level, tries - 1) : l \notin reads[page][step]
    /\ \A s \in hurt : Unreadable(page, s)

XGotInv == \A k \in 1 .. Len(xgot) : \A s \in xgot[k].hurt : Unreadable(xgot[k].page, s)

XInv ==
    /\ stage = "spl" => xgot = <<>>
    /\ stage = "x" /\ pc = "read" => XReadInv
    /\ XGotInv

LEMMA XStep ==
    ASSUME RetryCount > 0, LevelInv, PageInv, XInv, [Next]_vars
    PROVE  XInv'
<1> USE NandLoadAssumption DEF XInv, history, chip
<1>1. CASE FindBlock
  BY <1>1 DEF FindBlock, XGotInv, Unreadable
<1>2. CASE FoundBlock
  BY <1>2 DEF FoundBlock, XGotInv, Unreadable
<1>3. CASE SkipBlock
  BY <1>3 DEF SkipBlock, XGotInv, Unreadable
<1>4. CASE CopyPage
  <2>1. XReadInv'
    BY <1>4 DEF CopyPage, XReadInv
  <2>2. XGotInv'
    BY <1>4 DEF CopyPage, XGotInv, Unreadable
  <2> QED
    BY <1>4, <2>1, <2>2 DEF CopyPage
<1>5. CASE SplRetry
  BY <1>5 DEF SplRetry, XGotInv, Unreadable
<1>6. CASE SplDelivered
  BY <1>6 DEF SplDelivered, XGotInv, Unreadable
<1>7. CASE Handoff
  BY <1>7 DEF Handoff, XGotInv, Unreadable
<1>8. CASE XStepOk
  <2>1. XReadInv'
    BY <1>8 DEF XStepOk, XReading, XReadInv, Unreadable
  <2>2. XGotInv'
    BY <1>8 DEF XStepOk, XGotInv, Unreadable
  <2> QED
    BY <1>8, <2>1, <2>2 DEF XStepOk
<1>9. CASE XStepRetry
  <2>1. level' \in Levels /\ level' = count' - 1 /\ tries' = tries + 1
    BY <1>9, SetLevel DEF XStepRetry
  <2>2. UNCHANGED <<page, step, hurt, reads, xgot, stage, pc>>
    BY <1>9 DEF XStepRetry
  <2>3. \A l \in Tried(level', tries) : l \notin reads[page][step]
    <3>1. CASE tries = 0
      BY <2>1, <3>1 DEF Tried, Levels
    <3>2. CASE tries > 0
      <4>1. level = count - 1 /\ \A l \in Tried(level, tries - 1) : l \notin reads[page][step]
        BY <1>9, <3>2 DEF XStepRetry, XReading, XReadInv
      <4>2. Tried(level', (tries - 1) + 1) \subseteq Tried(count - 1, tries - 1) \cup {count - 1}
        BY <1>9, <2>1, <3>2, NextTried, SetLevel DEF XStepRetry, LevelInv
      <4>3. Tried(level', tries) \subseteq Tried(level, tries - 1) \cup {level}
        BY <4>1, <4>2 DEF LevelInv
      <4>4. level \notin reads[page][step]
        BY <1>9 DEF XStepRetry, StepReads
      <4> QED
        BY <4>1, <4>3, <4>4
    <3> QED
      BY <3>1, <3>2 DEF LevelInv
  <2>4. XReadInv'
    <3>1. tries' - 1 = tries
      BY <2>1 DEF LevelInv
    <3>2. \A s \in hurt : Unreadable(page, s)
      BY <1>9 DEF XStepRetry, XReading, XReadInv
    <3>3. \A l \in Tried(level', tries' - 1) : l \notin reads'[page'][step']
      BY <2>2, <2>3, <3>1
    <3>4. \A s \in hurt' : Unreadable(page, s)'
      BY <2>2, <3>2 DEF Unreadable
    <3> QED
      BY <2>1, <2>2, <3>3, <3>4 DEF XReadInv
  <2>5. XGotInv'
    BY <2>2 DEF XGotInv, Unreadable
  <2> QED
    BY <1>9, <2>2, <2>4, <2>5
<1>10. CASE XStepHurt
  <2>1. tries >= NLevels /\ stage = "x" /\ pc = "read"
    BY <1>10 DEF XStepHurt, XTriesLeft, XReading, LevelInv
  <2>2. UNCHANGED <<page, reads, xgot, stage, pc>> /\ tries' = 0
    BY <1>10 DEF XStepHurt
  <2>3. \A l \in Tried(level, tries - 1) : l \notin reads[page][step]
    <3>1. tries > 0
      BY <2>1 DEF LevelInv
    <3>2. XReadInv
      BY <2>1
    <3> QED
      BY <3>1, <3>2 DEF XReadInv
  <2>4. Levels \subseteq Tried(level, tries - 1) \cup {level}
    BY <2>1, AllTried DEF LevelInv
  <2>5. level \notin reads[page][step]
    BY <1>10 DEF XStepHurt, StepReads
  <2>6. Unreadable(page, step)
    BY <2>3, <2>4, <2>5 DEF Unreadable
  <2>7. \A s \in hurt \cup {step} : Unreadable(page, s)
    BY <2>1, <2>6 DEF XReadInv
  <2>8. XReadInv'
    BY <1>10, <2>2, <2>7 DEF XStepHurt, XReadInv, Unreadable
  <2>9. XGotInv'
    BY <2>2 DEF XGotInv, Unreadable
  <2> QED
    BY <2>1, <2>2, <2>8, <2>9
<1>11. CASE XDelivered
  <2>1. xgot' = Append(xgot, [page |-> page, hurt |-> hurt]) /\ reads' = reads
    BY <1>11 DEF XDelivered
  <2>2. \A s \in hurt : Unreadable(page, s)
    BY <1>11 DEF XDelivered, XReadInv
  <2>3. XGotInv'
    <3> SUFFICES ASSUME NEW k \in 1 .. Len(xgot'), NEW s \in xgot'[k].hurt
                 PROVE  Unreadable(xgot'[k].page, s)
      BY <2>1 DEF XGotInv, Unreadable
    <3>1. CASE k = Len(xgot) + 1
      BY <2>1, <2>2, <3>1 DEF PageInv
    <3>2. CASE k \in 1 .. Len(xgot)
      BY <2>1, <3>2 DEF PageInv, XGotInv
    <3> QED
      BY <2>1, <3>1, <3>2 DEF PageInv
  <2> QED
    BY <1>11, <2>3 DEF XDelivered
<1>12. CASE GetImage
  BY <1>12 DEF GetImage, XGotInv, Unreadable
<1>13. CASE GotImage
  BY <1>13 DEF GotImage, XGotInv, Unreadable
<1>14. CASE UNCHANGED vars
  BY <1>14 DEF vars, XGotInv, XReadInv, Unreadable
<1> QED
  BY <1>1, <1>2, <1>3, <1>4, <1>5, <1>6, <1>7, <1>8, <1>9, <1>10, <1>11, <1>12, <1>13, <1>14
     DEF Next, Load, Finished

\* A step of a page is given up by x-boot only if it reads at none of the levels, although
\* the search begins at whatever level the chip was left.
THEOREM XTriesAll == Spec => []XbootTriesAll
<1>1. CASE RetryCount > 0
  <2>1. Init => XInv
    BY DEF Init, XInv, XGotInv
  <2>2. XInv => XbootTriesAll
    BY DEF XInv, XGotInv, XbootTriesAll, Unreadable
  <2>3. LevelInv /\ PageInv /\ XInv /\ [Next]_vars => XInv'
    BY <1>1, XStep
  <2> QED
    BY <2>1, <2>2, <2>3, LevelInit, LevelStep, PageInit, PageStep, PTL DEF Spec
<1>2. CASE ~(RetryCount > 0)
  <2>1. XbootTriesAll
    BY <1>2 DEF XbootTriesAll
  <2> QED
    BY <2>1, PTL
<1> QED
  BY <1>1, <1>2

-----------------------------------------------------------------------------
(* The SPL *)

\* Some step of page p does not read at level l.
FailsAt(p, l) == \E s \in Steps : l \notin reads[p][s]

\* The counter knows the level: every level tried before this one is in the circle.
InStep ==
    /\ level = count - 1
    /\ pc = "read" => \A l \in Tried(level, tries) : FailsAt(SplPage, l)

\* Nothing has been retried since a reset that left the chip at another level than 0,
\* or this page is the first: it was tried there, and then from 1 on.
OutOfStep ==
    /\ start # 0
    /\ GivenUp = {}
    /\ pc # "read" => count = 1
    /\ pc = "read" => /\ count = tries + 1
                      /\ tries > 0 => level = tries
                      /\ \A l \in 1 .. tries - 1 : FailsAt(SplPage, l)

GivenUpInv ==
    /\ \A j, k \in GivenUp : j = k
    /\ \A k \in GivenUp : /\ start # 0
                          /\ \A l \in Levels \ {0} : FailsAt(got[k].page, l)

SplInv ==
    /\ start \in Levels
    /\ GivenUpInv
    /\ stage = "spl" => InStep \/ OutOfStep

LEMMA SplInit == Init /\ RetryCount > 0 => SplInv
<1> SUFFICES ASSUME Init PROVE SplInv
  OBVIOUS
<1> USE NandLoadAssumption
<1>1. start \in Levels /\ level = start /\ count = 1 /\ pc = "find" /\ got = <<>>
  BY DEF Init
<1>2. GivenUp = {}
  BY <1>1 DEF GivenUp
<1>3. GivenUpInv
  BY <1>2 DEF GivenUpInv
<1>4. CASE start = 0
  BY <1>1, <1>3, <1>4 DEF SplInv, InStep
<1>5. CASE start # 0
  BY <1>1, <1>2, <1>3, <1>5 DEF SplInv, OutOfStep
<1> QED
  BY <1>4, <1>5

\* What was delivered is the same, and so is what was given up.
LEMMA SameDelivered ==
    ASSUME SplInv, UNCHANGED <<got, reads, start>>
    PROVE  GivenUp' = GivenUp /\ GivenUpInv' /\ start' \in Levels
<1>1. GivenUp' = GivenUp
  BY DEF GivenUp, Readable
<1> QED
  BY <1>1 DEF SplInv, GivenUpInv, FailsAt

\* A step that leaves the chip and the counter alone, and does not read.
LEMMA NotReading ==
    ASSUME SplInv, UNCHANGED <<got, reads, start, level, count>>,
           stage' = "spl" => stage = "spl" /\ pc # "read" /\ (pc' = "read" => tries' = 0),
           LevelInv
    PROVE  SplInv'
<1> USE NandLoadAssumption
<1>1. GivenUp' = GivenUp /\ GivenUpInv' /\ start' \in Levels
  BY SameDelivered
<1> SUFFICES ASSUME stage' = "spl" PROVE InStep' \/ OutOfStep'
  BY <1>1 DEF SplInv
<1>2. CASE InStep
  <2>1. pc' = "read" => Tried(level', tries') = {}
    BY DEF LevelInv, Tried, Levels
  <2> QED
    BY <1>2, <2>1 DEF InStep
<1>3. CASE OutOfStep
  <2>1. pc' = "read" => (1 .. tries' - 1) = {}
    OBVIOUS
  <2>2. count = 1
    BY <1>3 DEF OutOfStep
  <2> QED
    BY <1>1, <1>3, <2>1, <2>2 DEF OutOfStep
<1> QED
  BY <1>2, <1>3 DEF SplInv

\* The page is read again at the next level.
LEMMA SplRetryStep ==
    ASSUME RetryCount > 0, LevelInv, SplInv, SplRetry
    PROVE  SplInv'
<1> USE NandLoadAssumption
<1>1. UNCHANGED <<got, reads, start, stage, pc, page>> /\ tries' = tries + 1
  BY DEF SplRetry, chip, history
<1>2. stage = "spl" /\ pc = "read" /\ tries + 1 < NLevels
  BY DEF SplRetry
<1>3. GivenUp' = GivenUp /\ GivenUpInv' /\ start' \in Levels
  BY <1>1, SameDelivered
<1>4. SplPage' = SplPage
  BY <1>1 DEF SplPage, HeaderRead
<1>5. FailsAt(SplPage, level)
  BY DEF SplRetry, Damaged, FailsAt
<1>6. /\ level' \in Levels /\ count' \in 1 .. NLevels /\ level' = count' - 1
      /\ level' = IF count = NLevels THEN 0 ELSE count
  BY SetLevel DEF SplRetry
<1>7. \A l : FailsAt(SplPage, l) => FailsAt(SplPage, l)'
  BY <1>1, <1>4 DEF FailsAt
<1>8. CASE InStep
  <2>1. Tried(level', tries + 1) \subseteq Tried(count - 1, tries) \cup {count - 1}
    BY <1>6, NextTried DEF LevelInv
  <2>2. Tried(level', tries') \subseteq Tried(level, tries) \cup {level}
    BY <1>1, <1>8, <2>1 DEF InStep
  <2>3. \A l \in Tried(level', tries') : FailsAt(SplPage, l)
    BY <1>2, <1>5, <1>8, <2>2 DEF InStep
  <2>4. InStep'
    BY <1>4, <1>6, <1>7, <2>3 DEF InStep
  <2> QED
    BY <1>3, <2>4 DEF SplInv
<1>9. CASE OutOfStep
  <2>1. count = tries + 1 /\ \A l \in 1 .. tries - 1 : FailsAt(SplPage, l)
    BY <1>2, <1>9 DEF OutOfStep
  <2>2. level' = tries' /\ count' = tries' + 1
    <3>1. count # NLevels
      BY <1>2, <2>1 DEF LevelInv
    <3>2. level' = count
      BY <1>6, <3>1
    <3>3. level' = tries'
      BY <1>1, <2>1, <3>2
    <3>4. count' \in Int
      BY <1>6
    <3>5. level' \in Int /\ level' = count' - 1
      BY <1>6 DEF Levels
    <3>6. \A a, b \in Int : a = b - 1 => b = a + 1
      OBVIOUS
    <3>7. count' = level' + 1
      BY <3>4, <3>5, <3>6
    <3> QED
      BY <3>3, <3>7
  <2>3. \A l \in 1 .. tries' - 1 : FailsAt(SplPage, l)
    <3> SUFFICES ASSUME NEW l \in 1 .. tries PROVE FailsAt(SplPage, l)
      BY <1>1 DEF LevelInv
    <3>1. CASE l = tries
      BY <1>2, <1>5, <1>9, <3>1 DEF OutOfStep, LevelInv
    <3>2. CASE l < tries
      BY <2>1, <3>2 DEF LevelInv
    <3> QED
      BY <3>1, <3>2 DEF LevelInv
  <2>4. \A l \in 1 .. tries' - 1 : FailsAt(SplPage, l)'
    BY <1>7, <2>3
  <2>5. start' # 0 /\ GivenUp' = {}
    BY <1>1, <1>3, <1>9 DEF OutOfStep
  <2>6. OutOfStep'
    BY <1>1, <1>2, <1>4, <2>2, <2>4, <2>5 DEF OutOfStep, FailsAt
  <2> QED
    BY <1>3, <2>6 DEF SplInv
<1> QED
  BY <1>2, <1>8, <1>9 DEF SplInv

\* A page that was tried at all levels and failed is not readable.
LEMMA NotReadable ==
    ASSUME NEW p, \A l \in Levels : FailsAt(p, l)
    PROVE  ~Readable(p)
BY DEF FailsAt, Readable

\* The delivery adds the page to what was given up only if it is damaged and readable.
LEMMA MoreGivenUp ==
    ASSUME PageInv, NEW d \in Deliveries, got' = Append(got, d), reads' = reads
    PROVE  /\ GivenUp' \subseteq GivenUp \cup {Len(got) + 1}
           /\ Len(got) + 1 \in GivenUp' => d.hurt # {} /\ Readable(d.page)
           /\ \A k \in GivenUp : got'[k] = got[k]
<1>1. Len(got) \in Nat /\ Len(got') = Len(got) + 1 /\ got'[Len(got) + 1] = d
  BY DEF PageInv
<1>2. \A k \in 1 .. Len(got) : got'[k] = got[k]
  BY DEF PageInv
<1>3. \A p : Readable(p)' <=> Readable(p)
  BY DEF Readable
<1> QED
  BY <1>1, <1>2, <1>3 DEF GivenUp

LEMMA SplDeliveredStep ==
    ASSUME RetryCount > 0, LevelInv, PageInv, SplInv, SplDelivered
    PROVE  SplInv'
<1> USE NandLoadAssumption
<1> DEFINE d == [page |-> SplPage, hurt |-> Damaged(SplPage)]
<1>1. UNCHANGED <<reads, start, level, count, tries>>
  BY DEF SplDelivered, chip
<1>2. stage = "spl" /\ pc = "read" /\ pc' = "copy" /\ got' = Append(got, d)
  BY DEF SplDelivered
<1>3. Damaged(SplPage) # {} => tries + 1 >= NLevels /\ FailsAt(SplPage, level)
  BY DEF SplDelivered, Damaged, FailsAt
<1>4. d \in Deliveries
  BY DEF Deliveries, SplPage, Damaged, Steps, PageInv
<1>5. /\ GivenUp' \subseteq GivenUp \cup {Len(got) + 1}
      /\ Len(got) + 1 \in GivenUp' => d.hurt # {} /\ Readable(d.page)
      /\ \A k \in GivenUp : got'[k] = got[k]
  <2> HIDE DEF d
  <2> QED
    BY <1>1, <1>2, <1>4, MoreGivenUp
<1>6. got'[Len(got) + 1] = d
  <2> HIDE DEF d
  <2> QED
    BY <1>2, <1>4 DEF PageInv
<1>7. \A p, l : FailsAt(p, l)' <=> FailsAt(p, l)
  BY <1>1 DEF FailsAt
<1>8. start' \in Levels
  BY <1>1 DEF SplInv
<1>9. CASE InStep
  <2>1. Len(got) + 1 \notin GivenUp'
    <3> SUFFICES ASSUME Damaged(SplPage) # {} PROVE ~Readable(SplPage)
      BY <1>5
    <3>1. Levels \subseteq Tried(level, tries) \cup {level}
      BY <1>3, AllTried DEF LevelInv
    <3>2. \A l \in Levels : FailsAt(SplPage, l)
      BY <1>2, <1>3, <1>9, <3>1 DEF InStep
    <3> QED
      BY <3>2, NotReadable
  <2>2. GivenUp' \subseteq GivenUp
    BY <1>5, <2>1
  <2>3. GivenUpInv'
    BY <1>1, <1>5, <1>7, <2>2 DEF SplInv, GivenUpInv
  <2>4. InStep'
    BY <1>1, <1>2, <1>9 DEF InStep
  <2> QED
    BY <1>8, <2>3, <2>4 DEF SplInv
<1>10. CASE OutOfStep
  <2>1. /\ start # 0 /\ GivenUp = {} /\ count = tries + 1
        /\ tries > 0 => level = tries
        /\ \A l \in 1 .. tries - 1 : FailsAt(SplPage, l)
    BY <1>2, <1>10 DEF OutOfStep
  <2>2. CASE Damaged(SplPage) = {}
    <3>1. GivenUp' = {}
      BY <1>5, <2>1, <2>2
    <3>2. GivenUpInv'
      BY <3>1 DEF GivenUpInv
    <3>3. CASE tries = 0
      BY <1>1, <1>2, <1>8, <2>1, <3>1, <3>2, <3>3 DEF SplInv, OutOfStep
    <3>4. CASE tries > 0
      BY <1>1, <1>2, <1>8, <2>1, <3>2, <3>4 DEF SplInv, InStep, LevelInv
    <3> QED
      BY <3>3, <3>4 DEF LevelInv
  <2>3. CASE Damaged(SplPage) # {}
    <3>1. tries + 1 = NLevels /\ FailsAt(SplPage, level)
      BY <1>3, <2>1, <2>3 DEF LevelInv
    <3>2. tries > 0
      BY <2>1, <3>1 DEF SplInv, Levels, LevelInv
    <3>3. \A l \in Levels \ {0} : FailsAt(SplPage, l)
      <4> SUFFICES ASSUME NEW l \in 1 .. tries PROVE FailsAt(SplPage, l)
        BY <3>1 DEF Levels, LevelInv
      <4>1. CASE l = tries
        BY <2>1, <3>1, <3>2, <4>1
      <4>2. CASE l < tries
        BY <2>1, <4>2 DEF LevelInv
      <4> QED
        BY <4>1, <4>2 DEF LevelInv
    <3>4. GivenUp' \subseteq {Len(got) + 1}
      BY <1>5, <2>1
    <3>5. \A k \in GivenUp' : got'[k].page = SplPage
      BY <1>6, <3>4
    <3>6. GivenUpInv'
      BY <1>1, <1>7, <2>1, <3>3, <3>4, <3>5 DEF GivenUpInv
    <3>7. InStep'
      BY <1>1, <1>2, <2>1, <3>2 DEF InStep, LevelInv
    <3> QED
      BY <1>8, <3>6, <3>7 DEF SplInv
  <2> QED
    BY <2>2, <2>3
<1> QED
  BY <1>2, <1>9, <1>10 DEF SplInv

LEMMA SplStep ==
    ASSUME RetryCount > 0, LevelInv, PageInv, SplInv, [Next]_vars
    PROVE  SplInv'
<1> USE DEF history, chip
<1>1. CASE FindBlock \/ FoundBlock
  BY <1>1, NotReading DEF FindBlock, FoundBlock
<1>2. CASE SkipBlock \/ CopyPage
  BY <1>2, NotReading DEF SkipBlock, CopyPage
<1>3. CASE SplRetry
  BY <1>3, SplRetryStep
<1>4. CASE SplDelivered
  BY <1>4, SplDeliveredStep
<1>5. ASSUME stage' # "spl", UNCHANGED <<got, reads, start>> PROVE SplInv'
  BY <1>5, SameDelivered DEF SplInv
<1>6. CASE Handoff
  BY <1>5, <1>6 DEF Handoff
<1>7. CASE XStepOk \/ XStepRetry \/ XStepHurt
  BY <1>5, <1>7 DEF XStepOk, XStepRetry, XStepHurt, XReading
<1>8. CASE XDelivered \/ GetImage \/ GotImage
  BY <1>5, <1>8 DEF XDelivered, GetImage, GotImage
<1>9. CASE UNCHANGED vars
  <2>1. GivenUp' = GivenUp /\ GivenUpInv' /\ start' \in Levels
    BY <1>9, SameDelivered DEF vars
  <2> QED
    BY <1>9, <2>1 DEF vars, SplInv, InStep, OutOfStep, FailsAt, SplPage, HeaderRead
<1> QED
  BY <1>1, <1>2, <1>3, <1>4, <1>6, <1>7, <1>8, <1>9 DEF Next, Load, Finished

\* The SPL delivers a damaged page only if it reads at no level, one page at most after
\* a reset that left the chip elsewhere excepted, which then has not been tried at 0.
THEOREM SplTriesAll == Spec => []GivenUpOnlyIfUnreadable
<1>1. CASE RetryCount > 0
  <2>1. Init => SplInv
    BY <1>1, SplInit
  <2>2. SplInv => GivenUpOnlyIfUnreadable
    <3> SUFFICES ASSUME SplInv PROVE GivenUpOnlyIfUnreadable
      OBVIOUS
    <3>1. CASE GivenUp = {}
      <4>1. Cardinality(GivenUp) = 0
        BY <3>1, FS_EmptySet
      <4> QED
        BY <3>1, <4>1 DEF GivenUpOnlyIfUnreadable
    <3>2. CASE GivenUp # {}
      <4>1. PICK k : GivenUp = {k}
        <5>1. PICK j : j \in GivenUp
          BY <3>2
        <5>2. GivenUp = {j}
          BY <5>1 DEF SplInv, GivenUpInv
        <5> QED
          BY <5>2
      <4>2. Cardinality(GivenUp) = 1
        BY <4>1, FS_Singleton
      <4> QED
        BY <4>2 DEF SplInv, GivenUpInv, FailsAt, GivenUpOnlyIfUnreadable
    <3> QED
      BY <3>1, <3>2
  <2>3. LevelInv /\ PageInv /\ SplInv /\ [Next]_vars => SplInv'
    BY <1>1, SplStep
  <2> QED
    BY <2>1, <2>2, <2>3, LevelInit, LevelStep, PageInit, PageStep, PTL DEF Spec
<1>2. CASE ~(RetryCount > 0)
  <2>1. GivenUpOnlyIfUnreadable
    BY <1>2 DEF GivenUpOnlyIfUnreadable
  <2> QED
    BY <2>1, PTL
<1> QED
  BY <1>1, <1>2

-----------------------------------------------------------------------------
(* Pages and blocks *)

\* A number is so many times d and a rest smaller than d in one way only.
LEMMA DivUnique ==
    ASSUME NEW d \in Nat \ {0}, NEW a \in Nat, NEW q \in Nat, NEW r \in 0 .. d - 1,
           a = (d * q) + r
    PROVE  a \div d = q /\ a % d = r
<1> DEFINE p == a \div d
<1>1. p \in Int /\ a = (d * p) + (a % d) /\ a % d \in 0 .. d - 1
  OBVIOUS
<1> HIDE DEF p
<1>2. ~(p >= q + 1)
  <2> SUFFICES ASSUME p >= q + 1 PROVE FALSE
    OBVIOUS
  <2>1. d * p >= d * (q + 1)
    BY <1>1
  <2>2. d * (q + 1) = (d * q) + d
    OBVIOUS
  <2> QED
    BY <1>1, <2>1, <2>2
<1>3. ~(q >= p + 1)
  <2> SUFFICES ASSUME q >= p + 1 PROVE FALSE
    OBVIOUS
  <2>1. d * q >= d * (p + 1)
    BY <1>1
  <2>2. d * (p + 1) = (d * p) + d
    BY <1>1
  <2> QED
    BY <1>1, <2>1, <2>2
<1>4. p = q
  BY <1>1, <1>2, <1>3
<1>5. a % d = r
  BY <1>1, <1>4
<1> QED
  BY <1>4, <1>5 DEF p

LEMMA DivNat ==
    ASSUME NEW d \in Nat \ {0}, NEW a \in Nat
    PROVE  a \div d \in Nat /\ a % d \in 0 .. d - 1 /\ a = (d * (a \div d)) + (a % d)
<1> DEFINE p == a \div d
<1>1. p \in Int /\ a = (d * p) + (a % d) /\ a % d \in 0 .. d - 1
  OBVIOUS
<1> HIDE DEF p
<1>2. ~(p <= 0 - 1)
  <2> SUFFICES ASSUME p <= 0 - 1 PROVE FALSE
    OBVIOUS
  <2>1. d * p <= d * (0 - 1)
    BY <1>1
  <2> QED
    BY <1>1, <2>1
<1> QED
  BY <1>1, <1>2 DEF p

\* Block b and place r of a page.
LEMMA PageOf ==
    ASSUME NEW p \in Nat
    PROVE  /\ BlockOf(p) \in Nat /\ p % PagesPerBlock \in 0 .. PagesPerBlock - 1
           /\ p = (PagesPerBlock * BlockOf(p)) + (p % PagesPerBlock)
BY DivNat, NandLoadAssumption DEF BlockOf

LEMMA BlockIs ==
    ASSUME NEW b \in Nat, NEW r \in 0 .. PagesPerBlock - 1, NEW p \in Nat,
           p = (PagesPerBlock * b) + r
    PROVE  BlockOf(p) = b /\ p % PagesPerBlock = r
BY DivUnique, NandLoadAssumption DEF BlockOf

\* page += page_per_block
LEMMA NextBlock ==
    ASSUME NEW p \in Nat
    PROVE  /\ p + PagesPerBlock \in Nat /\ BlockOf(p + PagesPerBlock) = BlockOf(p) + 1
           /\ (p + PagesPerBlock) % PagesPerBlock = p % PagesPerBlock
<1> DEFINE b == BlockOf(p)
           r == p % PagesPerBlock
<1>1. b \in Nat /\ r \in 0 .. PagesPerBlock - 1 /\ p = (PagesPerBlock * b) + r
  BY PageOf
<1>2. PagesPerBlock \in Nat \ {0}
  BY NandLoadAssumption
<1> HIDE DEF b, r
<1>3. PagesPerBlock * (b + 1) = (PagesPerBlock * b) + PagesPerBlock /\ PagesPerBlock * b \in Int
  BY <1>1, <1>2
<1>4. p + PagesPerBlock = (PagesPerBlock * (b + 1)) + r /\ p + PagesPerBlock \in Nat
  BY <1>1, <1>2, <1>3
<1>5. BlockOf(p + PagesPerBlock) = b + 1 /\ (p + PagesPerBlock) % PagesPerBlock = r
  BY <1>1, <1>4, BlockIs
<1> QED
  BY <1>4, <1>5 DEF b, r

\* page++
LEMMA NextPage ==
    ASSUME NEW p \in Nat
    PROVE  \/ /\ p % PagesPerBlock < PagesPerBlock - 1
              /\ BlockOf(p + 1) = BlockOf(p) /\ (p + 1) % PagesPerBlock = (p % PagesPerBlock) + 1
           \/ /\ p % PagesPerBlock = PagesPerBlock - 1
              /\ BlockOf(p + 1) = BlockOf(p) + 1 /\ (p + 1) % PagesPerBlock = 0
<1> DEFINE b == BlockOf(p)
           r == p % PagesPerBlock
<1>1. b \in Nat /\ r \in 0 .. PagesPerBlock - 1 /\ p = (PagesPerBlock * b) + r
  BY PageOf
<1>2. PagesPerBlock \in Nat \ {0}
  BY NandLoadAssumption
<1> HIDE DEF b, r
<1>3. PagesPerBlock * (b + 1) = (PagesPerBlock * b) + PagesPerBlock /\ PagesPerBlock * b \in Int
  BY <1>1, <1>2
<1>4. CASE r < PagesPerBlock - 1
  <2>1. r + 1 \in 0 .. PagesPerBlock - 1 /\ p + 1 = (PagesPerBlock * b) + (r + 1) /\ p + 1 \in Nat
    BY <1>1, <1>2, <1>3, <1>4
  <2>2. BlockOf(p + 1) = b /\ (p + 1) % PagesPerBlock = r + 1
    BY <1>1, <2>1, BlockIs
  <2> QED
    BY <1>4, <2>2 DEF b, r
<1>5. CASE r = PagesPerBlock - 1
  <2>1. 0 \in 0 .. PagesPerBlock - 1 /\ p + 1 = (PagesPerBlock * (b + 1)) + 0 /\ p + 1 \in Nat
    BY <1>1, <1>2, <1>3, <1>5
  <2>2. BlockOf(p + 1) = b + 1 /\ (p + 1) % PagesPerBlock = 0
    BY <1>1, <2>1, BlockIs
  <2> QED
    BY <1>5, <2>2 DEF b, r
<1> QED
  BY <1>1, <1>2, <1>4, <1>5

\* Every set of natural numbers that is not empty has a least element.
LEMMA LeastElement ==
    ASSUME NEW S \in SUBSET Nat, S # {}
    PROVE  \E m \in S : \A x \in S : m <= x
<1> DEFINE R == OpToRel(<, Nat)
<1>1. IsWellFoundedOn(R, Nat)
  BY NatLessThanWellFounded
<1> HIDE DEF R
<1>2. PICK m \in S : \A x \in S : ~ (<<x, m>> \in R)
  BY <1>1, WFMin
<1>3. \A x, y \in Nat : x < y => <<x, y>> \in R
  BY DEF R, OpToRel
<1>4. \A x \in S : x \in Nat
  OBVIOUS
<1>5. ASSUME NEW x \in S PROVE m <= x
  <2>1. m \in Nat /\ x \in Nat /\ ~(x < m)
    BY <1>2, <1>3, <1>4
  <2> QED
    BY <2>1
<1> QED
  BY <1>5

-----------------------------------------------------------------------------
(* Good and bad blocks *)

Before(b) == Cardinality(GoodBelow(b))

BadChip == bad \subseteq Blocks /\ Cardinality(bad) <= MaxBad

LEMMA BadFinite ==
    ASSUME BadChip, NEW S \in SUBSET bad
    PROVE  IsFiniteSet(S) /\ Cardinality(S) \in 0 .. MaxBad
<1>1. IsFiniteSet(Blocks)
  BY FS_Interval, NandLoadAssumption DEF Blocks
<1>2. IsFiniteSet(bad)
  BY <1>1, FS_Subset DEF BadChip
<1>3. IsFiniteSet(S) /\ Cardinality(S) <= Cardinality(bad)
  BY <1>2, FS_Subset
<1> QED
  BY <1>2, <1>3, FS_CardinalityType, RoomAssumption DEF BadChip

\* Of the blocks from x-boot on those below b are good, or they are bad.
LEMMA Books ==
    ASSUME BadChip, NEW b \in Int, b >= XbootBlock
    PROVE  /\ IsFiniteSet(GoodBelow(b)) /\ Before(b) \in Nat
           /\ b - XbootBlock - Before(b) \in 0 .. MaxBad
<1> DEFINE I == XbootBlock .. b - 1
           B == {x \in I : x \in bad}
<1>1. XbootBlock \in Int
  BY NandLoadAssumption DEF Blocks
<1>2. IsFiniteSet(I) /\ Cardinality(I) = b - XbootBlock
  <2>1. b - 1 \in Int
    OBVIOUS
  <2>2. IsFiniteSet(I) /\ Cardinality(I) = IF XbootBlock > b - 1 THEN 0 ELSE (b - 1) - XbootBlock + 1
    BY <1>1, <2>1, FS_Interval
  <2> HIDE DEF I
  <2> QED
    BY <1>1, <2>2
<1>3. GoodBelow(b) \in SUBSET I /\ B \in SUBSET I
  BY DEF GoodBelow
<1>4. GoodBelow(b) \cup B = I /\ GoodBelow(b) \cap B = {}
  BY DEF GoodBelow
<1>5. IsFiniteSet(GoodBelow(b)) /\ IsFiniteSet(B)
  BY <1>2, <1>3, FS_Subset
<1>6. Cardinality(B) \in 0 .. MaxBad
  BY BadFinite
<1> HIDE DEF I, B
<1>7. Cardinality(I) = Cardinality(GoodBelow(b)) + Cardinality(B) - Cardinality({})
  BY <1>4, <1>5, FS_Union
<1>8. Cardinality({}) = 0 /\ Cardinality(GoodBelow(b)) \in Nat
  BY <1>5, FS_EmptySet, FS_CardinalityType
<1> QED
  BY <1>1, <1>2, <1>5, <1>6, <1>7, <1>8, RoomAssumption DEF Before

\* One block more.
LEMMA OneMore ==
    ASSUME BadChip, NEW b \in Int, b >= XbootBlock
    PROVE  Before(b + 1) = IF b \in bad THEN Before(b) ELSE Before(b) + 1
<1>1. XbootBlock \in Int
  BY NandLoadAssumption DEF Blocks
<1>2. IsFiniteSet(GoodBelow(b))
  BY Books
<1>5. b \notin GoodBelow(b)
  BY <1>1 DEF GoodBelow
<1>3. GoodBelow(b + 1) = IF b \in bad THEN GoodBelow(b) ELSE GoodBelow(b) \cup {b}
  BY <1>1 DEF GoodBelow
<1>4. Cardinality(GoodBelow(b) \cup {b}) = Cardinality(GoodBelow(b)) + 1
  BY <1>2, <1>5, FS_AddElement
<1> QED
  BY <1>3, <1>4 DEF Before

\* Nothing but bad blocks in between.
LEMMA SameBefore ==
    ASSUME NEW a \in Int, NEW b \in Int, a <= b, \A x \in a .. b - 1 : x \in bad
    PROVE  Before(b) = Before(a)
<1>1. XbootBlock \in Int
  BY NandLoadAssumption DEF Blocks
<1>2. GoodBelow(b) = GoodBelow(a)
  BY <1>1 DEF GoodBelow
<1> QED
  BY <1>2 DEF Before

\* The number of good blocks below it names a good block.
LEMMA OneBlock ==
    ASSUME BadChip, NEW a \in Int, NEW b \in Int, a >= XbootBlock, a \notin bad, a < b
    PROVE  Before(a) < Before(b)
<1>1. XbootBlock \in Int
  BY NandLoadAssumption DEF Blocks
<1>2. IsFiniteSet(GoodBelow(b)) /\ IsFiniteSet(GoodBelow(a + 1))
  BY <1>1, Books
<1>3. GoodBelow(a + 1) \in SUBSET GoodBelow(b)
  BY <1>1 DEF GoodBelow
<1>4. Before(a + 1) <= Before(b)
  BY <1>2, <1>3, FS_Subset DEF Before
<1>5. Before(a + 1) = Before(a) + 1 /\ Before(a) \in Nat
  BY OneMore, Books
<1>6. Before(b) \in Nat
  BY <1>1, Books
<1> QED
  BY <1>4, <1>5, <1>6

LEMMA PlaceIs ==
    ASSUME BadChip, NEW b \in Blocks, b >= XbootBlock, b \notin bad,
           NEW r \in 0 .. PagesPerBlock - 1, NEW k \in Nat,
           k = (PagesPerBlock * Before(b)) + r
    PROVE  Place(k) = (b * PagesPerBlock) + r
<1>1. b \in Int /\ Before(b) \in Nat
  BY Books, NandLoadAssumption DEF Blocks
<1>2. k \div PagesPerBlock = Before(b) /\ k % PagesPerBlock = r
  BY <1>1, DivUnique, NandLoadAssumption
<1>3. ASSUME NEW x \in Blocks, x >= XbootBlock, x \notin bad, Before(x) = k \div PagesPerBlock
      PROVE  x = b
  <2>1. x \in Int /\ Before(x) \in Nat
    BY <1>3, Books, NandLoadAssumption DEF Blocks
  <2>2. ~(x < b)
    BY <1>1, <1>2, <1>3, <2>1, OneBlock
  <2>3. ~(b < x)
    BY <1>1, <1>2, <1>3, <2>1, OneBlock
  <2> QED
    BY <1>1, <2>1, <2>2, <2>3
<1>4. b = CHOOSE x \in Blocks : /\ x >= XbootBlock /\ x \notin bad
                                /\ Cardinality(GoodBelow(x)) = k \div PagesPerBlock
  BY <1>2, <1>3 DEF Before
<1> QED
  BY <1>2, <1>4 DEF Place

\* The next good block.
LEMMA NextGood ==
    ASSUME BadChip, NEW a \in Nat, a >= XbootBlock, XbootBlock + Before(a) + MaxBad < NBlocks
    PROVE  \E b \in Blocks : b >= a /\ b \notin bad /\ \A x \in a .. b - 1 : x \in bad
<1> DEFINE S == {x \in Blocks : x >= a /\ x \notin bad}
<1>1. XbootBlock \in Nat /\ NBlocks \in Nat /\ MaxBad \in Nat /\ Before(a) \in Nat
  BY Books, NandLoadAssumption, RoomAssumption DEF Blocks
<1>2. a < NBlocks
  BY <1>1, Books
<1>3. S # {}
  <2> SUFFICES ASSUME S = {} PROVE FALSE
    OBVIOUS
  <2>1. \A x \in a .. NBlocks - 1 : x \in bad
    BY <1>1 DEF Blocks
  <2>2. Before(NBlocks) = Before(a)
    BY <1>1, <1>2, <2>1, SameBefore
  <2>3. NBlocks - XbootBlock - Before(NBlocks) \in 0 .. MaxBad
    BY <1>1, <1>2, Books
  <2> QED
    BY <1>1, <2>2, <2>3
<1>4. S \in SUBSET Nat
  BY DEF Blocks
<1>5. PICK b \in S : \A x \in S : b <= x
  BY <1>3, <1>4, LeastElement
<1>6. \A x \in a .. b - 1 : x \in bad
  BY <1>1, <1>5 DEF Blocks
<1> QED
  BY <1>5, <1>6

-----------------------------------------------------------------------------
(* Where the program reads *)

\* While the SPL copies, the pages copied are the good pages below page: all of each
\* good block below its block, and those before it in its own.
SplPlace ==
    stage = "spl" =>
        /\ page \in Nat /\ BlockOf(page) >= XbootBlock /\ left \in 0 .. LoadPages
        /\ LoadPages - left = (PagesPerBlock * Before(BlockOf(page))) + (page % PagesPerBlock)
        /\ page % PagesPerBlock # 0 \/ pc = "read" => BlockOf(page) \notin bad
        /\ got = <<>> => left = LoadPages /\ pc \in {"find", "read"}
        /\ got # <<>> => Len(got) = 1 + LoadPages - left /\ pc \in {"copy", "read"}
        /\ pc = "read" => left > 0
        /\ xgot = <<>>

\* Page p was reached from page off of x-boot over bad blocks.
Skipped(off, p) ==
    /\ p \in Nat /\ p % PagesPerBlock = off % PagesPerBlock
    /\ BlockOf(p) >= XbootBlock + (off \div PagesPerBlock)
    /\ \A b \in XbootBlock + (off \div PagesPerBlock) .. BlockOf(p) - 1 : b \in bad

\* x-boot reads the header, then the logo.
Offset == IF xgot = <<>> THEN 0 ELSE LogoOffset

XPlace ==
    stage = "x" =>
        /\ left \in {0, 1}
        /\ left = 1 => /\ Len(xgot) \in {0, 1} /\ Skipped(Offset, page)
                       /\ pc # "find" => BlockOf(page) \notin bad
        /\ left = 0 => Len(xgot) \in {1, 2} /\ pc = "copy"

XFound ==
    Len(xgot) = 2 => /\ Skipped(LogoOffset, xgot[2].page) /\ xgot[2].page \in Pages
                     /\ BlockOf(xgot[2].page) \notin bad

LEMMA SizeOf ==
    ASSUME NEW a \in Int, NEW b \in Int, a <= b
    PROVE  IsFiniteSet(a .. b - 1) /\ Cardinality(a .. b - 1) = b - a
<1> DEFINE c == b - 1
<1>1. c \in Int /\ b = c + 1
  OBVIOUS
<1> HIDE DEF c
<1>2. IsFiniteSet(a .. c) /\ Cardinality(a .. c) = IF a > c THEN 0 ELSE c - a + 1
  BY <1>1, FS_Interval
<1>3. Cardinality(a .. c) = b - a
  BY <1>1, <1>2
<1> QED
  BY <1>2, <1>3 DEF c

\* Distinct bad blocks have been passed, MaxBad at most.
LEMMA SplBound ==
    ASSUME BadChip, SplPlace, stage = "spl"
    PROVE  page <= XbootPage + (LoadPages - left) + PagesPerBlock * MaxBad
<1> DEFINE b == BlockOf(page)
           r == page % PagesPerBlock
           g == Before(b)
           n == b - XbootBlock - g
<1>1. XbootBlock \in Nat /\ PagesPerBlock \in Nat \ {0} /\ LoadPages \in Nat /\ MaxBad \in Nat
  BY NandLoadAssumption, RoomAssumption DEF Blocks
<1>2. b \in Nat /\ r \in 0 .. PagesPerBlock - 1 /\ page = (PagesPerBlock * b) + r /\ b >= XbootBlock
  BY PageOf DEF SplPlace
<1>3. LoadPages - left = (PagesPerBlock * g) + r /\ left \in 0 .. LoadPages
  BY DEF SplPlace
<1>4. g \in Nat /\ n \in 0 .. MaxBad
  BY <1>2, Books
<1> HIDE DEF b, r, g
<1>5. b = XbootBlock + g + n /\ n \in Int
  BY <1>1, <1>2, <1>4
<1> HIDE DEF n
<1>6. PagesPerBlock * (XbootBlock + g + n)
        = (XbootBlock * PagesPerBlock) + (PagesPerBlock * g) + (PagesPerBlock * n)
  BY <1>1, <1>4, <1>5
<1>7. PagesPerBlock * n <= PagesPerBlock * MaxBad
  BY <1>1, <1>4
<1>8. /\ XbootBlock * PagesPerBlock \in Int /\ PagesPerBlock * g \in Int
      /\ PagesPerBlock * n \in Int /\ PagesPerBlock * MaxBad \in Int
  BY <1>1, <1>4
<1> QED
  BY <1>1, <1>2, <1>3, <1>5, <1>6, <1>7, <1>8 DEF XbootPage

LEMMA OffsetPage ==
    ASSUME NEW off \in Nat
    PROVE  /\ XbootPage + off \in Nat
           /\ BlockOf(XbootPage + off) = XbootBlock + (off \div PagesPerBlock)
           /\ (XbootPage + off) % PagesPerBlock = off % PagesPerBlock
<1> DEFINE q == off \div PagesPerBlock
           r == off % PagesPerBlock
<1>1. XbootBlock \in Nat /\ PagesPerBlock \in Nat \ {0}
  BY NandLoadAssumption DEF Blocks
<1>2. q \in Nat /\ r \in 0 .. PagesPerBlock - 1 /\ off = (PagesPerBlock * q) + r
  BY <1>1, DivNat
<1> HIDE DEF q, r
<1>3. PagesPerBlock * (XbootBlock + q) = (XbootBlock * PagesPerBlock) + (PagesPerBlock * q)
  BY <1>1, <1>2
<1>4. XbootBlock * PagesPerBlock \in Nat /\ PagesPerBlock * q \in Nat
  BY <1>1, <1>2
<1>5. XbootPage + off = (PagesPerBlock * (XbootBlock + q)) + r /\ XbootPage + off \in Nat
  BY <1>2, <1>3, <1>4 DEF XbootPage
<1>6. BlockOf(XbootPage + off) = XbootBlock + q /\ (XbootPage + off) % PagesPerBlock = r
  <2>1. XbootBlock + q \in Nat
    BY <1>1, <1>2
  <2> QED
    BY <1>2, <1>5, <2>1, BlockIs
<1> QED
  BY <1>5, <1>6 DEF q, r

LEMMA SkippedBound ==
    ASSUME BadChip, NEW off \in Nat, NEW p, Skipped(off, p)
    PROVE  p \in Nat /\ p <= XbootPage + off + PagesPerBlock * MaxBad
<1> DEFINE b == BlockOf(p)
           r == p % PagesPerBlock
           a == BlockOf(XbootPage + off)
<1>1. PagesPerBlock \in Nat \ {0} /\ MaxBad \in Nat
  BY NandLoadAssumption, RoomAssumption
<1>2. p \in Nat /\ b \in Nat /\ r \in 0 .. PagesPerBlock - 1 /\ p = (PagesPerBlock * b) + r
  BY PageOf DEF Skipped
<1>3. a \in Nat /\ XbootPage + off \in Nat /\ XbootPage + off = (PagesPerBlock * a) + r
  BY OffsetPage, PageOf DEF Skipped
<1>4. b >= a /\ (a .. b - 1) \in SUBSET bad
  BY OffsetPage DEF Skipped
<1> HIDE DEF a, b, r
<1>5. Cardinality(a .. b - 1) \in 0 .. MaxBad
  BY <1>4, BadFinite
<1>6. Cardinality(a .. b - 1) = b - a
  BY <1>2, <1>3, <1>4, SizeOf
<1>7. b <= a + MaxBad
  BY <1>1, <1>2, <1>3, <1>5, <1>6
<1>8. PagesPerBlock * b <= PagesPerBlock * (a + MaxBad)
  BY <1>1, <1>2, <1>3, <1>7
<1>9. PagesPerBlock * (a + MaxBad) = (PagesPerBlock * a) + PagesPerBlock * MaxBad
  BY <1>1, <1>3
<1>10. PagesPerBlock * a \in Int /\ PagesPerBlock * b \in Int /\ PagesPerBlock * MaxBad \in Int
  BY <1>1, <1>2, <1>3
<1> QED
  BY <1>2, <1>3, <1>8, <1>9, <1>10

\* FindBlock and SkipBlock.
LEMMA SkippedMore ==
    ASSUME BadChip, NEW off \in Nat, NEW p, Skipped(off, p), BlockOf(p) \in bad
    PROVE  Skipped(off, p + PagesPerBlock)
<1> DEFINE b == BlockOf(p)
           a == XbootBlock + (off \div PagesPerBlock)
<1>1. p \in Nat /\ p + PagesPerBlock \in Nat /\ BlockOf(p + PagesPerBlock) = b + 1
      /\ (p + PagesPerBlock) % PagesPerBlock = p % PagesPerBlock
  BY NextBlock DEF Skipped
<1>2. b \in Nat /\ a \in Int
  BY <1>1, PageOf, NandLoadAssumption DEF Blocks
<1>3. b >= a /\ \A x \in a .. b - 1 : x \in bad
  BY DEF Skipped
<1>4. \A x \in a .. (b + 1) - 1 : x \in a .. b - 1 \/ x = b
  BY <1>2
<1>5. b \in bad
  OBVIOUS
<1> HIDE DEF a, b
<1>6. b + 1 >= a /\ \A x \in a .. (b + 1) - 1 : x \in bad
  BY <1>2, <1>3, <1>4, <1>5
<1> QED
  BY <1>1, <1>6 DEF Skipped, a, b

-----------------------------------------------------------------------------
(* What a step of the SPL does to it *)

LEMMA SameBad ==
    ASSUME UNCHANGED bad
    PROVE  \A b : Before(b)' = Before(b)
BY DEF Before, GoodBelow

LEMMA SplUnmoved ==
    ASSUME SplPlace, UNCHANGED <<page, left, bad, got, xgot>>,
           stage' = "spl" => stage = "spl" /\ pc' = pc
    PROVE  SplPlace'
<1> SUFFICES ASSUME stage' = "spl" PROVE SplPlace'
  BY DEF SplPlace
<1>1. BlockOf(page)' = BlockOf(page) /\ Before(BlockOf(page))' = Before(BlockOf(page))
  BY DEF Before, GoodBelow, BlockOf
<1> QED
  BY <1>1 DEF SplPlace

\* page += page_per_block over a bad block: nothing is copied and no good block passed.
LEMMA SplOver ==
    ASSUME BadChip, SplPlace, IsBad(page), pc # "read", stage = "spl",
           page' = page + PagesPerBlock, UNCHANGED <<stage, pc, left, bad, got, xgot>>
    PROVE  SplPlace'
<1> DEFINE b == BlockOf(page)
<1>1. page \in Nat /\ b >= XbootBlock /\ b \in bad /\ page % PagesPerBlock = 0
  BY DEF SplPlace, IsBad
<1>2. page' \in Nat /\ BlockOf(page)' = b + 1 /\ page' % PagesPerBlock = 0
  BY <1>1, NextBlock DEF BlockOf
<1>3. b \in Nat
  BY <1>1, PageOf
<1>4. XbootBlock \in Nat
  BY NandLoadAssumption DEF Blocks
<1>5. Before(b + 1) = Before(b)
  BY <1>1, <1>3, OneMore
<1>6. Before(BlockOf(page))' = Before(b)
  BY <1>2, <1>5 DEF Before, GoodBelow
<1>7. b + 1 >= XbootBlock
  BY <1>1, <1>3, <1>4
<1> HIDE DEF b
<1>8. /\ left \in 0 .. LoadPages
      /\ LoadPages - left = (PagesPerBlock * Before(b)) + 0
      /\ got = <<>> => left = LoadPages /\ pc \in {"find", "read"}
      /\ got # <<>> => Len(got) = 1 + LoadPages - left /\ pc \in {"copy", "read"}
      /\ xgot = <<>>
  BY <1>1 DEF SplPlace, b
<1> QED
  BY <1>2, <1>6, <1>7, <1>8 DEF SplPlace

\* The next page, in the same block or the next one.
LEMMA SplPageCopied ==
    ASSUME BadChip, SplPlace, stage = "spl", pc = "read", got # <<>>
    PROVE  /\ page + 1 \in Nat /\ BlockOf(page + 1) >= XbootBlock
           /\ LoadPages - (left - 1)
                = (PagesPerBlock * Before(BlockOf(page + 1))) + ((page + 1) % PagesPerBlock)
           /\ (page + 1) % PagesPerBlock # 0 => BlockOf(page + 1) \notin bad
<1> DEFINE b == BlockOf(page)
           g == Before(b)
           r == page % PagesPerBlock
<1>1. PagesPerBlock \in Nat \ {0} /\ LoadPages \in Nat /\ XbootBlock \in Nat
  BY NandLoadAssumption DEF Blocks
<1>2. /\ page \in Nat /\ b >= XbootBlock /\ left \in 0 .. LoadPages /\ b \notin bad
      /\ LoadPages - left = (PagesPerBlock * g) + r
  BY DEF SplPlace
<1>3. b \in Nat /\ r \in 0 .. PagesPerBlock - 1
  BY <1>2, PageOf
<1>4. g \in Nat /\ Before(b + 1) = g + 1
  BY <1>2, <1>3, Books, OneMore
<1>5. \/ r < PagesPerBlock - 1 /\ BlockOf(page + 1) = b /\ (page + 1) % PagesPerBlock = r + 1
      \/ r = PagesPerBlock - 1 /\ BlockOf(page + 1) = b + 1 /\ (page + 1) % PagesPerBlock = 0
  BY <1>2, NextPage
<1> HIDE DEF b, r
<1>6. PagesPerBlock * (g + 1) = (PagesPerBlock * g) + PagesPerBlock /\ PagesPerBlock * g \in Int
  BY <1>1, <1>4
<1>7. CASE r < PagesPerBlock - 1 /\ BlockOf(page + 1) = b /\ (page + 1) % PagesPerBlock = r + 1
  <2>1. Before(BlockOf(page + 1)) = g
    BY <1>7
  <2> HIDE DEF g
  <2> QED
    BY <1>1, <1>2, <1>3, <1>6, <1>7, <2>1
<1>8. CASE r = PagesPerBlock - 1 /\ BlockOf(page + 1) = b + 1 /\ (page + 1) % PagesPerBlock = 0
  <2>1. Before(BlockOf(page + 1)) = g + 1
    BY <1>4, <1>8
  <2> HIDE DEF g
  <2> QED
    BY <1>1, <1>2, <1>3, <1>6, <1>8, <2>1
<1> QED
  BY <1>5, <1>7, <1>8

LEMMA SplPlaceStep ==
    ASSUME BadChip, PageInv, SplPlace, [Next]_vars
    PROVE  SplPlace'
<1> USE DEF history, chip
<1>1. CASE FindBlock
  <2>1. CASE stage = "spl"
    BY <1>1, <2>1, SplOver DEF FindBlock
  <2> QED
    BY <1>1, <2>1 DEF FindBlock, SplPlace
<1>2. CASE FoundBlock
  <2>1. CASE stage = "spl"
    <3>1. got = <<>> /\ left = LoadPages /\ BlockOf(page) \notin bad
      BY <1>2, <2>1 DEF FoundBlock, SplPlace, IsBad
    <3>2. LoadPages > 0
      BY NandLoadAssumption
    <3>3. BlockOf(page)' = BlockOf(page) /\ Before(BlockOf(page))' = Before(BlockOf(page))
      BY <1>2 DEF FoundBlock, Before, GoodBelow, BlockOf
    <3> QED
      BY <1>2, <2>1, <3>1, <3>2, <3>3 DEF FoundBlock, SplPlace
  <2> QED
    BY <1>2, <2>1 DEF FoundBlock, SplPlace
<1>3. CASE SkipBlock
  <2>1. CASE stage = "spl"
    BY <1>3, <2>1, SplOver DEF SkipBlock
  <2> QED
    BY <1>3, <2>1 DEF SkipBlock, SplPlace
<1>4. CASE CopyPage
  <2>1. CASE stage = "spl"
    <3>1. BlockOf(page) \notin bad /\ left > 0
      BY <1>4, <2>1 DEF CopyPage, SplPlace, IsBad
    <3>2. got # <<>>
      BY <1>4, <2>1 DEF CopyPage, SplPlace
    <3>3. BlockOf(page)' = BlockOf(page) /\ Before(BlockOf(page))' = Before(BlockOf(page))
      BY <1>4 DEF CopyPage, Before, GoodBelow, BlockOf
    <3> QED
      BY <1>4, <2>1, <3>1, <3>2, <3>3 DEF CopyPage, SplPlace
  <2> QED
    BY <1>4, <2>1 DEF CopyPage, SplPlace
<1>5. CASE SplRetry
  BY <1>5, SplUnmoved DEF SplRetry
<1>6. CASE SplDelivered
  <2> SUFFICES ASSUME stage' = "spl" PROVE SplPlace'
    BY DEF SplPlace
  <2>1. /\ stage = "spl" /\ pc = "read" /\ UNCHANGED <<bad, xgot>> /\ pc' = "copy"
        /\ Len(got') = Len(got) + 1 /\ got' # <<>> /\ Len(got) \in Nat
        /\ Len(got) > 0 <=> got # <<>>
    BY <1>6 DEF SplDelivered, PageInv
  <2>2. \A b : Before(b)' = Before(b)
    BY <2>1, SameBad
  <2>3. CASE got # <<>>
    <3>1. page' = page + 1 /\ left' = left - 1
      BY <1>6, <2>1, <2>3 DEF SplDelivered, HeaderRead
    <3>2. left \in 1 .. LoadPages /\ Len(got) = 1 + LoadPages - left /\ xgot = <<>>
      BY <2>1, <2>3 DEF SplPlace
    <3>3. BlockOf(page)' = BlockOf(page + 1) /\ Before(BlockOf(page))' = Before(BlockOf(page + 1))
      BY <2>1, <3>1 DEF BlockOf, Before, GoodBelow
    <3>4. /\ page + 1 \in Nat /\ BlockOf(page + 1) >= XbootBlock
          /\ LoadPages - (left - 1)
                = (PagesPerBlock * Before(BlockOf(page + 1))) + ((page + 1) % PagesPerBlock)
          /\ (page + 1) % PagesPerBlock # 0 => BlockOf(page + 1) \notin bad
      BY <2>1, <2>3, SplPageCopied
    <3>5. left' \in 0 .. LoadPages /\ Len(got') = 1 + LoadPages - left'
      BY <2>1, <3>1, <3>2, NandLoadAssumption
    <3> QED
      BY <2>1, <3>1, <3>2, <3>3, <3>4, <3>5 DEF SplPlace
  <2>4. CASE got = <<>>
    <3>1. page' = page /\ left' = left /\ Len(got) = 0
      BY <1>6, <2>1, <2>4 DEF SplDelivered, HeaderRead
    <3>2. BlockOf(page)' = BlockOf(page) /\ Before(BlockOf(page))' = Before(BlockOf(page))
      BY <2>1, <3>1 DEF BlockOf, Before, GoodBelow
    <3>3. Len(got') = 1 + LoadPages - left'
      BY <2>1, <2>4, <3>1, NandLoadAssumption DEF SplPlace
    <3> QED
      BY <2>1, <2>4, <3>1, <3>2, <3>3 DEF SplPlace
  <2> QED
    BY <2>3, <2>4
<1>7. CASE Handoff
  BY <1>7 DEF Handoff, SplPlace
<1>8. CASE XStepOk \/ XStepRetry \/ XStepHurt
  BY <1>8 DEF XStepOk, XStepRetry, XStepHurt, XReading, SplPlace
<1>9. CASE XDelivered \/ GetImage \/ GotImage
  BY <1>9 DEF XDelivered, GetImage, GotImage, SplPlace
<1>10. CASE UNCHANGED vars
  BY <1>10, SplUnmoved DEF vars
<1> QED
  BY <1>1, <1>2, <1>3, <1>4, <1>5, <1>6, <1>7, <1>8, <1>9, <1>10 DEF Next, Load, Finished

-----------------------------------------------------------------------------
(* What a step of x-boot does to it *)

LEMMA XBound == BadChip /\ XPlace /\ stage = "x" /\ left = 1 => page \in Pages
<1> SUFFICES ASSUME BadChip, XPlace, stage = "x", left = 1 PROVE page \in Pages
  OBVIOUS
<1>1. XbootPage \in Int /\ PagesPerBlock * MaxBad \in Int /\ NBlocks * PagesPerBlock \in Int
  BY NandLoadAssumption, RoomAssumption DEF XbootPage, Blocks
<1>2. Skipped(Offset, page) /\ Offset \in {0, LogoOffset} /\ Offset \in Nat
  BY NandLoadAssumption DEF XPlace, Offset
<1>3. page \in Nat /\ page <= XbootPage + Offset + PagesPerBlock * MaxBad
  BY <1>2, SkippedBound
<1>4. page <= (NBlocks * PagesPerBlock) - 1
  BY <1>1, <1>2, <1>3, NandLoadAssumption, RoomAssumption
<1> QED
  BY <1>1, <1>3, <1>4 DEF Pages

\* Nothing has been skipped where a search begins.
LEMMA SkippedNone ==
    ASSUME NEW off \in Nat
    PROVE  Skipped(off, XbootPage + off)
<1> DEFINE a == XbootBlock + (off \div PagesPerBlock)
<1>1. /\ XbootPage + off \in Nat /\ BlockOf(XbootPage + off) = a
      /\ (XbootPage + off) % PagesPerBlock = off % PagesPerBlock
  BY OffsetPage
<1>2. a \in Nat
  BY <1>1, PageOf
<1>3. \A b \in a .. a - 1 : b \in bad
  BY <1>2
<1> QED
  BY <1>1, <1>2, <1>3 DEF Skipped

LEMMA XPlaceStep ==
    ASSUME BadChip, PageInv, SplPlace, XPlace, [Next]_vars
    PROVE  XPlace'
<1> USE DEF history, chip
<1>1. CASE FindBlock
  <2> SUFFICES ASSUME stage = "x" PROVE XPlace'
    BY <1>1 DEF FindBlock, XPlace
  <2>1. left = 1 /\ Skipped(Offset, page) /\ BlockOf(page) \in bad /\ Offset \in Nat
    BY <1>1, NandLoadAssumption DEF FindBlock, XPlace, IsBad, Offset
  <2>2. Skipped(Offset, page + PagesPerBlock)
    BY <2>1, SkippedMore
  <2>3. Skipped(Offset, page)'
    BY <1>1, <2>2 DEF FindBlock, Skipped, Offset, BlockOf
  <2> QED
    BY <1>1, <2>1, <2>3 DEF FindBlock, XPlace
<1>2. CASE FoundBlock
  BY <1>2 DEF FoundBlock, XPlace, IsBad, Skipped, Offset, BlockOf
<1>3. CASE SkipBlock
  <2>1. stage # "x"
    BY <1>3 DEF SkipBlock, XPlace, IsBad
  <2> QED
    BY <1>3, <2>1 DEF SkipBlock, XPlace
<1>4. CASE CopyPage
  BY <1>4 DEF CopyPage, XPlace, Skipped, Offset, BlockOf
<1>5. CASE SplRetry
  BY <1>5 DEF SplRetry, XPlace
<1>6. CASE SplDelivered
  BY <1>6 DEF SplDelivered, XPlace
<1>7. CASE Handoff
  <2>1. xgot' = <<>> /\ left' = 1 /\ page' = XbootPage /\ pc' = "find" /\ bad' = bad
    BY <1>7 DEF Handoff, SplPlace
  <2>2. Skipped(0, XbootPage + 0) /\ XbootPage + 0 = XbootPage
    BY SkippedNone, NandLoadAssumption DEF XbootPage, Blocks
  <2>3. Skipped(Offset, page)'
    BY <2>1, <2>2 DEF Skipped, Offset, BlockOf
  <2> QED
    BY <2>1, <2>3 DEF XPlace
<1>8. CASE XStepOk \/ XStepRetry \/ XStepHurt
  <2>1. UNCHANGED <<stage, pc, page, left, bad, xgot>>
    BY <1>8 DEF XStepOk, XStepRetry, XStepHurt
  <2> QED
    BY <2>1 DEF XPlace, Skipped, Offset, BlockOf
<1>9. CASE XDelivered
  <2> DEFINE d == [page |-> page, hurt |-> hurt]
  <2>1. left = 1 /\ Len(xgot) \in {0, 1}
    BY <1>9 DEF XDelivered, XPlace
  <2>3. xgot' = Append(xgot, d) /\ xgot \in Seq(Deliveries) /\ left' = left - 1 /\ pc' = "copy"
    BY <1>9 DEF XDelivered, PageInv
  <2>2. Len(xgot') = Len(xgot) + 1 /\ left' = 0 /\ pc' = "copy"
    <3> HIDE DEF d
    <3> QED
      BY <2>1, <2>3
  <2>4. Len(xgot') \in {1, 2}
    <3>1. CASE Len(xgot) = 0
      BY <2>2, <3>1
    <3>2. CASE Len(xgot) = 1
      BY <2>2, <3>2
    <3> QED
      BY <2>1, <3>1, <3>2
  <2> QED
    BY <2>2, <2>4 DEF XPlace
<1>10. CASE GetImage
  <2>1. /\ xgot' = xgot /\ xgot # <<>> /\ left' = 1 /\ page' = XbootPage + LogoOffset
        /\ pc' = "find" /\ bad' = bad /\ Len(xgot) = 1
    <3>1. xgot \in Seq(Deliveries) /\ Len(xgot) = 1
      BY <1>10 DEF GetImage, PageInv
    <3>2. xgot # <<>>
      BY <3>1
    <3> QED
      BY <1>10, <3>1, <3>2 DEF GetImage
  <2>2. Skipped(LogoOffset, XbootPage + LogoOffset)
    BY SkippedNone, NandLoadAssumption
  <2>3. Skipped(Offset, page)'
    BY <2>1, <2>2 DEF Skipped, Offset, BlockOf
  <2> QED
    BY <2>1, <2>3 DEF XPlace
<1>11. CASE GotImage
  BY <1>11 DEF GotImage, XPlace
<1>12. CASE UNCHANGED vars
  BY <1>12 DEF vars, XPlace, Skipped, Offset, BlockOf
<1> QED
  BY <1>1, <1>2, <1>3, <1>4, <1>5, <1>6, <1>7, <1>8, <1>9, <1>10, <1>11, <1>12
     DEF Next, Load, Finished

LEMMA XFoundStep ==
    ASSUME BadChip, PageInv, XPlace, XFound, [Next]_vars
    PROVE  XFound'
<1> USE DEF history, chip
<1>1. ASSUME UNCHANGED <<xgot, bad>> PROVE XFound'
  BY <1>1 DEF XFound, Skipped, BlockOf
<1>2. CASE XDelivered
  <2> SUFFICES ASSUME Len(xgot') = 2 PROVE XFound'
    BY DEF XFound
  <2> DEFINE d == [page |-> page, hurt |-> hurt]
  <2>1. xgot' = Append(xgot, d) /\ bad' = bad /\ stage = "x" /\ pc = "read"
    BY <1>2 DEF XDelivered
  <2>2. xgot \in Seq(Deliveries)
    BY DEF PageInv
  <2>3. Len(xgot) = 1 /\ xgot'[2] = d /\ xgot # <<>>
    <3> HIDE DEF d
    <3> QED
      BY <2>1, <2>2
  <2>4. left = 1 /\ Skipped(LogoOffset, page) /\ BlockOf(page) \notin bad
    BY <2>1, <2>3 DEF XPlace, Offset
  <2>5. page \in Pages
    BY <2>1, <2>4, XBound
  <2>6. xgot'[2].page = page
    BY <2>3
  <2> QED
    BY <2>1, <2>4, <2>5, <2>6 DEF XFound, Skipped, BlockOf
<1>3. CASE SplDelivered \/ Handoff
  BY <1>1, <1>3 DEF SplDelivered, Handoff
<1>4. CASE FindBlock \/ FoundBlock \/ SkipBlock \/ CopyPage \/ SplRetry
  BY <1>1, <1>4 DEF FindBlock, FoundBlock, SkipBlock, CopyPage, SplRetry
<1>5. CASE XStepOk \/ XStepRetry \/ XStepHurt \/ GetImage \/ GotImage
  BY <1>1, <1>5 DEF XStepOk, XStepRetry, XStepHurt, GetImage, GotImage
<1>6. CASE UNCHANGED vars
  BY <1>1, <1>6 DEF vars
<1> QED
  BY <1>2, <1>3, <1>4, <1>5, <1>6 DEF Next, Load, Finished

-----------------------------------------------------------------------------
(* The types *)

\* What is read in the SPL lies on the chip.
LEMMA SplReads ==
    BadChip /\ SplPlace /\ stage = "spl" =>
        page \in 0 .. NBlocks * PagesPerBlock /\ (pc = "read" => SplPage \in Pages)
<1> SUFFICES ASSUME BadChip, SplPlace, stage = "spl"
             PROVE  page \in 0 .. NBlocks * PagesPerBlock /\ (pc = "read" => SplPage \in Pages)
  OBVIOUS
<1>1. XbootPage \in Int /\ PagesPerBlock * MaxBad \in Int /\ NBlocks * PagesPerBlock \in Int
  BY NandLoadAssumption, RoomAssumption DEF XbootPage, Blocks
<1>2. page \in Nat /\ left \in 0 .. LoadPages /\ (pc = "read" => left > 0)
  BY DEF SplPlace
<1>3. page <= XbootPage + (LoadPages - left) + PagesPerBlock * MaxBad
  BY SplBound
<1>4. page <= NBlocks * PagesPerBlock
  BY <1>1, <1>2, <1>3, NandLoadAssumption, RoomAssumption
<1>5. pc = "read" => page + ImageOffset <= (NBlocks * PagesPerBlock) - 1
  BY <1>1, <1>2, <1>3, NandLoadAssumption, RoomAssumption
<1>6. pc = "read" => SplPage \in 0 .. (NBlocks * PagesPerBlock) - 1
  BY <1>1, <1>2, <1>5, NandLoadAssumption DEF SplPage
<1> QED
  BY <1>1, <1>2, <1>4, <1>6 DEF Pages

OnChip == page \in 0 .. NBlocks * PagesPerBlock

LEMMA SplOnChip == BadChip /\ SplPlace /\ stage = "spl" => OnChip
BY SplReads DEF OnChip

LEMMA XOnChip == BadChip /\ XPlace /\ stage = "x" /\ left = 1 => OnChip
<1>1. NBlocks * PagesPerBlock \in Nat
  BY NandLoadAssumption
<1> QED
  BY <1>1, XBound DEF OnChip, Pages

LEMMA OnChipStep ==
    ASSUME BadChip, SplPlace, XPlace, LevelInv, OnChip, BadChip', SplPlace', XPlace', [Next]_vars
    PROVE  OnChip'
<1> USE DEF history, chip
<1>1. stage' = "spl" => OnChip'
  <2>1. (BadChip /\ SplPlace /\ stage = "spl")' => OnChip'
    BY SplOnChip, PTL
  <2> QED
    BY <2>1
<1>2. XbootPage \in Nat /\ NBlocks * PagesPerBlock \in Nat /\ PagesPerBlock * MaxBad \in Nat
  BY NandLoadAssumption, RoomAssumption DEF XbootPage, Blocks
<1>3. stage' = "x" /\ left' = 1 => OnChip'
  <2>1. (BadChip /\ XPlace /\ stage = "x" /\ left = 1)' => OnChip'
    BY XOnChip, PTL
  <2> QED
    BY <2>1
<1>4. CASE Loading /\ FindBlock
  <2>1. stage = "x" => left = 1
    BY <1>4 DEF FindBlock, XPlace
  <2> QED
    BY <1>1, <1>3, <1>4, <2>1 DEF FindBlock, Loading
<1>5. CASE Loading /\ SkipBlock
  <2>1. stage = "x" => left = 1
    BY <1>5 DEF SkipBlock, XPlace
  <2> QED
    BY <1>1, <1>3, <1>5, <2>1 DEF SkipBlock, Loading
<1>6. CASE SplDelivered
  <2>1. CASE HeaderRead
    BY <1>1, <1>6, <2>1 DEF SplDelivered
  <2>2. CASE ~HeaderRead
    BY <1>6, <2>2 DEF SplDelivered, OnChip
  <2> QED
    BY <2>1, <2>2
<1>7. CASE Handoff
  <2>1. XbootPage <= NBlocks * PagesPerBlock
    BY <1>2, NandLoadAssumption, RoomAssumption
  <2> QED
    BY <1>2, <1>7, <2>1 DEF Handoff, OnChip
<1>8. CASE XDelivered
  <2>1. left = 1
    BY <1>8 DEF XDelivered, XPlace
  <2>2. page \in Pages
    BY <1>8, <2>1, XBound DEF XDelivered
  <2> QED
    BY <1>2, <1>8, <2>2 DEF XDelivered, OnChip, Pages
<1>9. CASE GetImage
  BY <1>3, <1>9 DEF GetImage
<1>10. CASE FoundBlock \/ CopyPage \/ SplRetry
  BY <1>10 DEF FoundBlock, CopyPage, SplRetry, OnChip
<1>11. CASE XStepOk \/ XStepRetry \/ XStepHurt \/ GotImage
  BY <1>11 DEF XStepOk, XStepRetry, XStepHurt, GotImage, OnChip
<1>12. CASE UNCHANGED vars
  BY <1>12 DEF vars, OnChip
<1> QED
  BY <1>4, <1>5, <1>6, <1>7, <1>8, <1>9, <1>10, <1>11, <1>12 DEF Next, Load, Finished

\* The other bounds.
CountInv ==
    /\ bad \subseteq Blocks /\ reads \in [Pages -> [Steps -> SUBSET Levels]]
    /\ start \in Levels /\ left \in 0 .. LoadPages
    /\ tries \in 0 .. RetryCount /\ step \in 1 .. NSteps + 1 /\ hurt \subseteq Steps
    /\ got \in Seq(Delivery) /\ xgot \in Seq(Delivery)

LEMMA CountStep ==
    ASSUME BadChip, LevelInv, PageInv, SplPlace, XPlace, CountInv, [Next]_vars
    PROVE  CountInv'
<1> USE NandLoadAssumption DEF history, chip
<1> DEFINE Limits == /\ left \in 0 .. LoadPages /\ tries \in 0 .. RetryCount
                     /\ step \in 1 .. NSteps + 1 /\ hurt \subseteq Steps
<1>0. Limits
  BY DEF CountInv
<1>1. UNCHANGED chip /\ UNCHANGED start
  BY DEF Next, Load, Finished, vars, FindBlock, FoundBlock, SkipBlock, CopyPage, SplRetry,
         SplDelivered, Handoff, XStepOk, XStepRetry, XStepHurt, XDelivered, GetImage, GotImage
<1>2. ASSUME UNCHANGED <<got, xgot>>, Limits' PROVE CountInv'
  BY <1>1, <1>2 DEF CountInv
<1>3. CASE FindBlock \/ FoundBlock \/ SkipBlock \/ CopyPage
  <2>1. UNCHANGED <<got, xgot>>
    BY <1>3 DEF FindBlock, FoundBlock, SkipBlock, CopyPage
  <2>2. Limits'
    BY <1>0, <1>3 DEF FindBlock, FoundBlock, SkipBlock, CopyPage
  <2> QED
    BY <1>2, <2>1, <2>2
<1>4. CASE SplRetry
  <2>1. UNCHANGED <<got, xgot>> /\ Limits'
    BY <1>0, <1>4 DEF SplRetry
  <2> QED
    BY <1>2, <2>1
<1>5. CASE SplDelivered
  <2> DEFINE d == [page |-> SplPage, hurt |-> Damaged(SplPage)]
  <2>1. left' \in 0 .. LoadPages /\ UNCHANGED <<tries, step, hurt>>
    BY <1>0, <1>5 DEF SplDelivered, SplPlace
  <2>2. d \in Delivery
    BY <1>5, SplReads DEF SplDelivered, Delivery, Damaged
  <2>3. got' = Append(got, d) /\ UNCHANGED xgot
    BY <1>5 DEF SplDelivered
  <2> HIDE DEF d
  <2>4. got' \in Seq(Delivery)
    BY <2>2, <2>3 DEF CountInv
  <2> QED
    BY <1>1, <2>1, <2>3, <2>4 DEF CountInv
<1>6. CASE XDelivered
  <2> DEFINE d == [page |-> page, hurt |-> hurt]
  <2>1. left = 1 /\ stage = "x"
    BY <1>6 DEF XDelivered, XPlace
  <2>2. d \in Delivery
    BY <1>0, <2>1, XBound DEF Delivery
  <2>3. xgot' = Append(xgot, d) /\ left' = 0 /\ UNCHANGED <<got, tries, step, hurt>>
    BY <1>6, <2>1 DEF XDelivered
  <2> HIDE DEF d
  <2>4. xgot' \in Seq(Delivery)
    BY <2>2, <2>3 DEF CountInv
  <2> QED
    BY <1>1, <2>3, <2>4 DEF CountInv
<1>7. CASE Handoff \/ GetImage \/ GotImage
  <2>1. UNCHANGED <<got, xgot>> /\ Limits'
    BY <1>0, <1>7 DEF Handoff, GetImage, GotImage
  <2> QED
    BY <1>2, <2>1
<1>8. CASE XStepOk \/ XStepHurt
  <2>1. UNCHANGED <<got, xgot, left>> /\ tries' = 0 /\ step' = step + 1 /\ step <= NSteps
        /\ hurt' \subseteq hurt \cup {step}
    BY <1>8 DEF XStepOk, XStepHurt, XReading
  <2>2. Limits'
    BY <1>0, <2>1 DEF Steps
  <2> QED
    BY <1>2, <2>1, <2>2
<1>9. CASE XStepRetry
  <2>1. UNCHANGED <<got, xgot>> /\ Limits'
    BY <1>0, <1>9 DEF XStepRetry, XTriesLeft
  <2> QED
    BY <1>2, <2>1
<1>10. CASE UNCHANGED vars
  BY <1>10 DEF vars, CountInv
<1> QED
  BY <1>3, <1>4, <1>5, <1>6, <1>7, <1>8, <1>9, <1>10 DEF Next, Load, Finished

-----------------------------------------------------------------------------
(* The pages that are found *)

LEMMA BlockOnChip ==
    ASSUME NEW p \in Pages
    PROVE  BlockOf(p) \in Blocks
<1> DEFINE b == BlockOf(p)
           r == p % PagesPerBlock
<1>1. PagesPerBlock \in Nat \ {0} /\ NBlocks \in Nat /\ p \in Nat /\ p < NBlocks * PagesPerBlock
  BY NandLoadAssumption DEF Pages
<1>2. b \in Nat /\ r \in 0 .. PagesPerBlock - 1 /\ p = (PagesPerBlock * b) + r
  BY <1>1, PageOf
<1> HIDE DEF b, r
<1>3. ~(b >= NBlocks)
  <2> SUFFICES ASSUME b >= NBlocks PROVE FALSE
    OBVIOUS
  <2>1. PagesPerBlock * b >= PagesPerBlock * NBlocks /\ PagesPerBlock * NBlocks = NBlocks * PagesPerBlock
    BY <1>1, <1>2
  <2>2. PagesPerBlock * b \in Int /\ NBlocks * PagesPerBlock \in Int
    BY <1>1, <1>2
  <2> QED
    BY <1>1, <1>2, <2>1, <2>2
<1>4. b \in Blocks
  BY <1>1, <1>2, <1>3 DEF Blocks
<1> QED
  BY <1>4 DEF b

LEMMA LogoFound == BadChip /\ XFound => GetImageFinds
<1> SUFFICES ASSUME BadChip, XFound, Len(xgot) = 2,
                    \A b \in XbootBlock .. BlockOf(XbootPage + LogoOffset) - 1 : b \notin bad
             PROVE  xgot[2].page = Place(LogoOffset)
  BY DEF GetImageFinds
<1> DEFINE p == xgot[2].page
           b == BlockOf(p)
           q == LogoOffset \div PagesPerBlock
           r == LogoOffset % PagesPerBlock
           a == XbootBlock + q
<1>1. PagesPerBlock \in Nat \ {0} /\ XbootBlock \in Nat /\ LogoOffset \in Nat
  BY NandLoadAssumption DEF Blocks
<1>2. q \in Nat /\ r \in 0 .. PagesPerBlock - 1 /\ LogoOffset = (PagesPerBlock * q) + r
  BY <1>1, DivNat
<1>3. /\ p \in Pages /\ p \in Nat /\ b \notin bad /\ b >= a /\ p % PagesPerBlock = r
      /\ \A x \in a .. b - 1 : x \in bad
  BY DEF XFound, Skipped
<1>4. b \in Blocks /\ b \in Nat /\ p = (PagesPerBlock * b) + r
  BY <1>3, BlockOnChip, PageOf
<1>5. \A x \in XbootBlock .. a - 1 : x \notin bad
  BY <1>1, OffsetPage
<1> HIDE DEF p, b, q, r
<1>6. Before(a) = q
  <2>1. GoodBelow(a) = XbootBlock .. a - 1
    BY <1>5 DEF GoodBelow
  <2>2. Cardinality(XbootBlock .. a - 1) = a - XbootBlock
    <3>1. a \in Int /\ XbootBlock \in Int /\ XbootBlock <= a
      BY <1>1, <1>2
    <3> HIDE DEF a
    <3> QED
      BY <3>1, SizeOf
  <2> QED
    BY <1>1, <1>2, <2>1, <2>2 DEF Before
<1>7. Before(b) = Before(a)
  <2>1. a \in Int /\ b \in Int /\ a <= b
    BY <1>1, <1>2, <1>3, <1>4
  <2> HIDE DEF a
  <2> QED
    BY <1>3, <2>1, SameBefore
<1>8. LogoOffset = (PagesPerBlock * Before(b)) + r /\ b >= XbootBlock
  BY <1>1, <1>2, <1>3, <1>4, <1>6, <1>7
<1>9. Place(LogoOffset) = (b * PagesPerBlock) + r
  BY <1>1, <1>2, <1>3, <1>4, <1>8, PlaceIs
<1> QED
  BY <1>1, <1>4, <1>9 DEF p

\* The page that the SPL reads with an offset of one page.
LEMMA NextRead ==
    ASSUME BadChip, PageInv, SplPlace, stage = "spl", pc = "read", got # <<>>, ImageOffset = 1,
           NEW q, q = Place(1 + LoadPages - left)
    PROVE  \/ page + 1 = q
           \/ /\ q % PagesPerBlock = 0 /\ BlockOf(q) - 1 \in bad
              /\ BlockOf(page + 1) \in bad
<1> DEFINE b == BlockOf(page)
           g == Before(b)
           r == page % PagesPerBlock
<1>1. /\ PagesPerBlock \in Nat \ {0} /\ LoadPages \in Nat /\ XbootBlock \in Nat
      /\ NBlocks \in Nat /\ MaxBad \in Nat
  BY NandLoadAssumption, RoomAssumption DEF Blocks
<1>2. /\ page \in Nat /\ b >= XbootBlock /\ left \in 1 .. LoadPages /\ b \notin bad
      /\ LoadPages - left = (PagesPerBlock * g) + r
  BY DEF SplPlace
<1>3. b \in Nat /\ r \in 0 .. PagesPerBlock - 1 /\ page = (PagesPerBlock * b) + r
  BY <1>2, PageOf
<1>4. g \in Nat /\ Before(b + 1) = g + 1
  BY <1>2, <1>3, Books, OneMore
<1>5. \/ r < PagesPerBlock - 1 /\ BlockOf(page + 1) = b
      \/ r = PagesPerBlock - 1 /\ BlockOf(page + 1) = b + 1
  BY <1>2, NextPage
<1>6. page + 1 \in Pages
  <2>1. Len(got) > 0
    BY DEF PageInv
  <2>2. SplPage \in Pages /\ SplPage = page + 1
    BY <2>1, SplReads DEF SplPage, HeaderRead
  <2> QED
    BY <2>2
<1>7. BlockOf(page + 1) \in Blocks
  BY <1>6, BlockOnChip
<1> HIDE DEF b, r
<1>8. PagesPerBlock * g \in Nat /\ PagesPerBlock * (g + 1) = (PagesPerBlock * g) + PagesPerBlock
  BY <1>1, <1>4
<1>9. PagesPerBlock * b = b * PagesPerBlock /\ b * PagesPerBlock \in Nat
      /\ (b + 1) * PagesPerBlock = (b * PagesPerBlock) + PagesPerBlock
  BY <1>1, <1>3
<1>10. CASE r < PagesPerBlock - 1 /\ BlockOf(page + 1) = b
  <2> HIDE DEF g
  <2>1. /\ r + 1 \in 0 .. PagesPerBlock - 1 /\ 1 + LoadPages - left \in Nat
        /\ 1 + LoadPages - left = (PagesPerBlock * g) + (r + 1)
    BY <1>1, <1>2, <1>3, <1>8, <1>10
  <2>2. b \in Blocks
    BY <1>7, <1>10
  <2>3. q = (b * PagesPerBlock) + (r + 1)
    BY <1>2, <2>1, <2>2, PlaceIs DEF g
  <2> QED
    BY <1>3, <1>9, <2>3
<1>11. CASE r = PagesPerBlock - 1 /\ BlockOf(page + 1) = b + 1
  <2> HIDE DEF g
  <2>1. /\ 1 + LoadPages - left \in Nat /\ 1 + LoadPages - left = (PagesPerBlock * (g + 1)) + 0
        /\ 1 + LoadPages - left <= LoadPages
    BY <1>1, <1>2, <1>3, <1>8, <1>11
  <2>2. page + 1 = (b + 1) * PagesPerBlock
    BY <1>1, <1>3, <1>9, <1>11
  <2>3. XbootBlock + (g + 1) + MaxBad < NBlocks
    <3> DEFINE n == XbootBlock + (g + 1) + MaxBad
    <3> SUFFICES ASSUME n >= NBlocks PROVE FALSE
      BY <1>1, <1>4
    <3>1. n \in Nat /\ n * PagesPerBlock >= NBlocks * PagesPerBlock
      BY <1>1, <1>4
    <3>2. n * PagesPerBlock
            = (XbootBlock * PagesPerBlock) + (PagesPerBlock * (g + 1)) + PagesPerBlock * MaxBad
      BY <1>1, <1>4
    <3>3. /\ n * PagesPerBlock \in Int /\ XbootBlock * PagesPerBlock \in Int
          /\ PagesPerBlock * (g + 1) \in Int /\ PagesPerBlock * MaxBad \in Int
          /\ NBlocks * PagesPerBlock \in Int
      BY <1>1, <1>4
    <3> HIDE DEF n
    <3>4. PagesPerBlock * (g + 1) <= LoadPages
      BY <2>1, <3>3
    <3>5. (XbootBlock * PagesPerBlock) + LoadPages + 1 + PagesPerBlock * MaxBad
            <= NBlocks * PagesPerBlock
      BY RoomAssumption DEF XbootPage
    <3> QED
      BY <1>1, <3>1, <3>2, <3>3, <3>4, <3>5
  <2>4. PICK d \in Blocks : d >= b + 1 /\ d \notin bad /\ \A x \in (b + 1) .. d - 1 : x \in bad
    <3>1. b + 1 \in Nat /\ b + 1 >= XbootBlock /\ XbootBlock + Before(b + 1) + MaxBad < NBlocks
      BY <1>1, <1>2, <1>3, <1>4, <2>3
    <3> QED
      BY <3>1, NextGood
  <2>5. d \in Nat /\ d >= XbootBlock
    BY <1>1, <1>2, <1>3, <2>4 DEF Blocks
  <2>6. Before(d) = g + 1
    <3>1. b + 1 \in Int /\ d \in Int /\ b + 1 <= d
      BY <1>3, <2>4, <2>5
    <3>2. Before(d) = Before(b + 1)
      BY <2>4, <3>1, SameBefore
    <3> QED
      BY <1>4, <3>2
  <2>7. q = (d * PagesPerBlock) + 0
    <3>1. 0 \in 0 .. PagesPerBlock - 1
      BY <1>1
    <3> QED
      BY <2>1, <2>4, <2>5, <2>6, <3>1, PlaceIs
  <2>8. CASE d = b + 1
    BY <1>3, <1>9, <1>1, <2>2, <2>7, <2>8
  <2>9. CASE d > b + 1
    <3>1. b + 1 \in bad /\ d - 1 \in bad
      BY <1>3, <2>4, <2>5, <2>9
    <3>2. q \in Nat /\ q = (PagesPerBlock * d) + 0 /\ 0 \in 0 .. PagesPerBlock - 1
      BY <1>1, <2>5, <2>7
    <3>3. BlockOf(q) = d /\ q % PagesPerBlock = 0
      BY <2>5, <3>2, BlockIs
    <3> QED
      BY <1>11, <3>1, <3>3
  <2> QED
    BY <1>3, <2>4, <2>5, <2>8, <2>9
<1> QED
  BY <1>5, <1>10, <1>11

LEMMA HeadsStep ==
    ASSUME BadChip, PageInv, SplPlace, ImageOffset = 1, OnlyBlockHeadsMisread, [Next]_vars
    PROVE  OnlyBlockHeadsMisread'
<1> USE DEF history, chip
<1>1. \A k : Place(k)' = Place(k) /\ UNCHANGED bad
  <2>1. UNCHANGED bad
    BY DEF Next, Load, Finished, vars, FindBlock, FoundBlock, SkipBlock, CopyPage, SplRetry,
           SplDelivered, Handoff, XStepOk, XStepRetry, XStepHurt, XDelivered, GetImage, GotImage
  <2> QED
    BY <2>1 DEF Place, GoodBelow
<1>2. CASE UNCHANGED got
  BY <1>1, <1>2 DEF OnlyBlockHeadsMisread, BlockOf
<1>3. CASE SplDelivered
  <2> DEFINE d == [page |-> SplPage, hurt |-> Damaged(SplPage)]
  <2>1. got' = Append(got, d) /\ d.page = SplPage /\ stage = "spl" /\ pc = "read"
    BY <1>3 DEF SplDelivered
  <2> HIDE DEF d
  <2>2. /\ Len(got) \in Nat /\ Len(got') = Len(got) + 1 /\ got'[Len(got) + 1] = d
        /\ \A k \in 1 .. Len(got) : got'[k] = got[k]
    BY <2>1 DEF PageInv
  <2> SUFFICES ASSUME NEW k \in 2 .. Len(got')
               PROVE  LET q == Place(ImageOffset + k - 2)
                      IN  \/ got'[k].page = q
                          \/ /\ q % PagesPerBlock = 0 /\ BlockOf(q) - 1 \in bad
                             /\ BlockOf(got'[k].page) \in bad
    BY <1>1 DEF OnlyBlockHeadsMisread, BlockOf
  <2>3. CASE k \in 2 .. Len(got)
    BY <2>2, <2>3 DEF OnlyBlockHeadsMisread
  <2>4. CASE k = Len(got) + 1
    <3>1. got # <<>> /\ HeaderRead
      BY <2>2, <2>4 DEF HeaderRead, PageInv
    <3>2. got'[k].page = page + 1
      BY <2>1, <2>2, <2>4, <3>1 DEF SplPage
    <3>3. ImageOffset + k - 2 = 1 + LoadPages - left
      <4>1. Len(got) = 1 + LoadPages - left /\ left \in Int /\ LoadPages \in Int
        BY <2>1, <3>1, NandLoadAssumption DEF SplPlace
      <4> QED
        BY <2>4, <4>1
    <3> QED
      BY <2>1, <3>1, <3>2, <3>3, NextRead
  <2> QED
    BY <2>2, <2>3, <2>4
<1>4. CASE FindBlock \/ FoundBlock \/ SkipBlock \/ CopyPage \/ SplRetry \/ Handoff
  BY <1>2, <1>4 DEF FindBlock, FoundBlock, SkipBlock, CopyPage, SplRetry, Handoff
<1>5. CASE XStepOk \/ XStepRetry \/ XStepHurt \/ XDelivered \/ GetImage \/ GotImage
  BY <1>2, <1>5 DEF XStepOk, XStepRetry, XStepHurt, XDelivered, GetImage, GotImage
<1>6. CASE UNCHANGED vars
  BY <1>2, <1>6 DEF vars
<1> QED
  BY <1>3, <1>4, <1>5, <1>6 DEF Next, Load, Finished

-----------------------------------------------------------------------------
(* The theorems *)

PlaceInv == BadChip /\ LevelInv /\ PageInv /\ SplPlace /\ XPlace /\ XFound /\ OnChip /\ CountInv

LEMMA PlaceInit == Init => PlaceInv
<1> SUFFICES ASSUME Init PROVE PlaceInv
  OBVIOUS
<1> USE NandLoadAssumption, RoomAssumption
<1>1. XbootPage + 0 = XbootPage /\ XbootPage \in Nat
  BY DEF XbootPage, Blocks
<1>2. BlockOf(XbootPage) = XbootBlock /\ XbootPage % PagesPerBlock = 0
  <2>1. XbootBlock \in Nat /\ 0 \in 0 .. PagesPerBlock - 1
    BY DEF Blocks
  <2>2. XbootPage = (PagesPerBlock * XbootBlock) + 0
    BY <2>1 DEF XbootPage
  <2> QED
    BY <1>1, <2>1, <2>2, BlockIs
<1>3. Before(XbootBlock) = 0
  <2>1. GoodBelow(XbootBlock) = {}
    BY DEF GoodBelow, Blocks
  <2> QED
    BY <2>1, FS_EmptySet DEF Before
<1>4. BadChip
  BY DEF Init, BadChip
<1>5. SplPlace
  <2>1. /\ page = XbootPage /\ left = LoadPages /\ got = <<>> /\ xgot = <<>> /\ pc = "find"
    BY DEF Init
  <2>2. LoadPages - left = (PagesPerBlock * Before(BlockOf(page))) + (page % PagesPerBlock)
    BY <1>2, <1>3, <2>1
  <2> QED
    BY <1>1, <1>2, <2>1, <2>2 DEF SplPlace, Blocks
<1>6. XPlace /\ XFound
  BY DEF Init, XPlace, XFound
<1>7. OnChip
  BY <1>4, <1>5, SplOnChip DEF Init
<1>8. reads \in [Pages -> [Steps -> SUBSET Levels]]
  <2>0. PICK weak \in SUBSET Burned : \E kind \in [weak -> Kinds] :
            reads = [p \in Pages |-> IF p \in weak THEN kind[p] ELSE Sound]
    BY DEF Init
  <2>1. PICK kind \in [weak -> Kinds] :
            reads = [p \in Pages |-> IF p \in weak THEN kind[p] ELSE Sound]
    BY <2>0
  <2>2. Sound \in [Steps -> SUBSET Levels]
    BY DEF Sound
  <2>3. \A p \in weak : kind[p] \in [Steps -> SUBSET Levels]
    OBVIOUS
  <2> QED
    BY <2>1, <2>2, <2>3
<1>9. CountInv
  BY <1>8 DEF Init, CountInv
<1> QED
  BY <1>4, <1>5, <1>6, <1>7, <1>9, LevelInit, PageInit DEF PlaceInv

LEMMA PlaceStep == PlaceInv /\ [Next]_vars => PlaceInv'
<1> SUFFICES ASSUME PlaceInv, [Next]_vars PROVE PlaceInv'
  OBVIOUS
<1> USE DEF PlaceInv
<1>1. BadChip'
  <2>1. UNCHANGED bad
    BY DEF Next, Load, Finished, vars, chip, FindBlock, FoundBlock, SkipBlock, CopyPage, SplRetry,
           SplDelivered, Handoff, XStepOk, XStepRetry, XStepHurt, XDelivered, GetImage, GotImage
  <2> QED
    BY <2>1 DEF BadChip
<1>2. LevelInv' /\ PageInv'
  BY LevelStep, PageStep
<1>3. SplPlace' /\ XPlace'
  BY SplPlaceStep, XPlaceStep
<1>4. XFound' /\ CountInv'
  BY XFoundStep, CountStep
<1>5. OnChip'
  BY <1>1, <1>3, OnChipStep
<1> QED
  BY <1>1, <1>2, <1>3, <1>4, <1>5

\* The cursor, the voltages and the counters stay in their ranges, and every page that is
\* read is on the chip, whatever blocks are bad: nand_load and do_nand look for no end.
THEOREM TypeCorrect == Spec => []TypeOK
<1>1. PlaceInv => TypeOK
  BY DEF PlaceInv, LevelInv, OnChip, CountInv, TypeOK
<1> QED
  BY <1>1, PlaceInit, PlaceStep, PTL DEF Spec

\* get_image finds the logo where it was burned if no block between x-boot and the logo's
\* own is bad; the blocks from there on may be.
THEOREM LogoCorrect == Spec => []GetImageFinds
<1>1. PlaceInv => GetImageFinds
  BY LogoFound DEF PlaceInv
<1> QED
  BY <1>1, PlaceInit, PlaceStep, PTL DEF Spec

\* With x-boot behind a header of one page, as mkxbootimg writes it, nand_load delivers
\* page after page of the image, except that the head of a block behind a bad one comes
\* from the bad block.
THEOREM LoadCorrect ==
    ASSUME ImageOffset = 1
    PROVE  Spec => []OnlyBlockHeadsMisread
<1>1. Init => OnlyBlockHeadsMisread
  BY DEF Init, OnlyBlockHeadsMisread
<1>2. PlaceInv /\ OnlyBlockHeadsMisread /\ [Next]_vars => OnlyBlockHeadsMisread'
  BY HeadsStep DEF PlaceInv
<1> QED
  BY <1>1, <1>2, PlaceInit, PlaceStep, PTL DEF Spec

=============================================================================
