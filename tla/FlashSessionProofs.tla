------------------------- MODULE FlashSessionProofs -------------------------
(***************************************************************************)
(* Proofs about FlashSession, for every partition table, set of images and  *)
(* pattern of bad blocks.                                                   *)
(***************************************************************************)
EXTENDS FlashSession, FiniteSetTheorems, TLAPS

\* Entries of named partitions only move up; the entry without a name may be anywhere.
EntriesAbove ==
    /\ ptable \in [Ptns -> [start : Int, length : Int]]
    /\ \A p \in Named : ptable[p].start >= Offset[p]

\* A write that is under way for a partition is above the start of it.
JobAbove ==
    /\ job.pc \in {"convert", "write"} =>
          /\ job.ptn \in Ptns /\ job.blk \in Int
          /\ job.ptn \in Named => job.blk >= Offset[job.ptn]
    /\ job.pc = "convert" => job.ptn # Unnamed

\* The chip is a function on its blocks (its contents do not matter here).
IsChip(c) == c = [b \in Blocks |-> c[b]]

XInv == XbootKept /\ EntriesAbove /\ JobAbove /\ IsChip(cell)

\* The compiled-in table has the entries where EntriesAbove wants them.
LEMMA TableStart == /\ PTABLE \in [Ptns -> [start : Int, length : Int]]
                    /\ \A p \in Named : PTABLE[p].start >= Offset[p]
<1>1. PTABLE[Unnamed] = [start |-> 0, length |-> 0]
  BY DEF PTABLE, Ptns
<1>2. \A p \in Named : PTABLE[p] = [start |-> Offset[p], length |-> Length[p]]
  BY TableAssumption DEF PTABLE, Ptns
<1>3. \A p \in Named : Offset[p] \in Int /\ Length[p] \in Int
  BY TableAssumption
<1>4. ASSUME NEW p \in Ptns PROVE PTABLE[p] \in [start : Int, length : Int]
  <2>1. CASE p = Unnamed
    BY <1>1, <2>1
  <2>2. CASE p \in Named
    <3>1. PTABLE[p] = [start |-> Offset[p], length |-> Length[p]]
      BY <1>2, <2>2
    <3>2. Offset[p] \in Int /\ Length[p] \in Int
      BY <1>3, <2>2
    <3> QED
      BY <3>1, <3>2
  <2> QED
    BY <2>1, <2>2 DEF Ptns
<1>5. ASSUME NEW p \in Named PROVE PTABLE[p].start >= Offset[p]
  <2>1. PTABLE[p] = [start |-> Offset[p], length |-> Length[p]]
    BY <1>2
  <2>2. Offset[p] \in Int
    BY <1>3
  <2> QED
    BY <2>1, <2>2
<1>6. PTABLE = [p \in Ptns |-> PTABLE[p]]
  BY DEF PTABLE
<1> QED
  BY <1>4, <1>5, <1>6

\* The window of a partition's entry lies above x-boot.
LEMMA WindowAbove ==
    ASSUME EntriesAbove, NEW p \in Named
    PROVE  Window(p) \cap XbootBlocks = {}
<1>1. \A b \in XbootBlocks : b < Offset[p] /\ b \in Int
  BY DEF XbootBlocks, Blocks
<1>2. ptable[p].start \in Int /\ ptable[p].start >= Offset[p] /\ Offset[p] \in Int
  BY TableAssumption DEF EntriesAbove, Ptns
<1>3. \A b \in Window(p) : b >= ptable[p].start /\ b \in Int
  BY <1>2 DEF Window, EntriesAbove, Ptns
<1> QED
  BY <1>1, <1>2, <1>3

\* An erase of an entry's window leaves x-boot alone, or is one of the entry without
\* a name.
LEMMA EraseKeepsXboot ==
    ASSUME XInv, NEW p \in Ptns, FlashErase(p), nameless' = NamelessErase(p)
    PROVE  XbootKept' /\ IsChip(cell')
<1>1. \A b \in XbootBlocks : b \in Blocks
  BY DEF XbootBlocks
<1>2. ASSUME NEW b \in XbootBlocks \ nameless' PROVE b \notin Window(p) /\ b \notin nameless
  <2>1. CASE p = Unnamed
    BY <1>2, <2>1 DEF NamelessErase
  <2>2. CASE p \in Named
    <3>1. Window(p) \cap XbootBlocks = {} /\ p # Unnamed
      BY <2>2, WindowAbove, TableAssumption DEF XInv
    <3> QED
      BY <1>2, <3>1 DEF NamelessErase
  <2> QED
    BY <2>1, <2>2 DEF Ptns
<1> QED
  BY <1>1, <1>2 DEF FlashErase, XInv, XbootKept, IsChip

\* One step keeps the invariant: one case per action.
LEMMA XStep ==
    ASSUME XInv, [Next]_vars
    PROVE  XInv'
<1> USE DEF XInv
<1>p. Polling.pc = "poll"
  BY DEF Polling
<1>1. ASSUME NEW name \in FlashNames, FlashStart(name)
      PROVE  XInv'
  <2> DEFINE p == FlashTarget(name)
  <2>1. p \in Ptns
    BY <1>1 DEF FlashStart, Rejected
  <2>2. XbootKept' /\ IsChip(cell')
    BY <1>1, <2>1, EraseKeepsXboot DEF FlashStart
  <2>3. EntriesAbove'
    BY <1>1 DEF FlashStart, EntriesAbove
  <2>4. ptable[p].start \in Int /\ (p \in Named => ptable[p].start >= Offset[p])
    BY <2>1 DEF EntriesAbove
  <2>5. job' = Polling \/ (job'.ptn = p /\ job'.blk = ptable[p].start)
    BY <1>1 DEF FlashStart
  <2>6. job'.pc = "convert" => p # Unnamed
    BY <1>1 DEF FlashStart, Polling, Converted, Unnamed
  <2>7. JobAbove'
    BY <1>p, <2>1, <2>4, <2>5, <2>6 DEF JobAbove
  <2> QED
    BY <2>2, <2>3, <2>7
<1>2. ASSUME NEW name \in EraseNames, EraseCommand(name)
      PROVE  XInv'
  <2>1. EraseTarget(name) \in Ptns
    BY <1>2 DEF EraseCommand
  <2>2. XbootKept' /\ IsChip(cell')
    BY <1>2, <2>1, EraseKeepsXboot DEF EraseCommand
  <2>3. EntriesAbove' /\ job'.pc \notin {"convert", "write"}
    BY <1>2 DEF EraseCommand, EntriesAbove, Polling
  <2> QED
    BY <2>2, <2>3 DEF JobAbove
<1>3. CASE ConvertBlock
  <2>1. job.pc = "convert" /\ job.ptn \in Ptns /\ nameless' = NamelessErase(job.ptn)
    BY <1>3 DEF ConvertBlock, JobAbove, NamelessErase
  <2>2. XbootKept' /\ IsChip(cell')
    <3>1. CASE job.ptn = "system"
      BY <1>3, <3>1 DEF ConvertBlock, XbootKept, chip
    <3>2. CASE job.ptn # "system"
      BY <1>3, <2>1, <3>2, EraseKeepsXboot DEF ConvertBlock
    <3> QED
      BY <3>1, <3>2
  <2>3. EntriesAbove'
    BY <1>3 DEF ConvertBlock, EntriesAbove
  <2>4. /\ ptable[job.ptn].start \in Int
        /\ job.ptn \in Named => ptable[job.ptn].start >= Offset[job.ptn]
    BY <2>1 DEF EntriesAbove
  <2>5. JobAbove'
    BY <1>3, <2>1, <2>4 DEF ConvertBlock, JobAbove
  <2> QED
    BY <2>2, <2>3, <2>5
<1>4. CASE SkipBadBlock
  <2>1. /\ job.ptn \in Ptns /\ job.blk \in Int
        /\ job.ptn \in Named => job.blk >= Offset[job.ptn] /\ Offset[job.ptn] \in Int
    BY <1>4, TableAssumption DEF SkipBadBlock, JobAbove
  <2>2. job' = [job EXCEPT !.blk = job.blk + 1]
    BY <1>4 DEF SkipBadBlock
  <2> QED
    BY <1>4, <2>1, <2>2 DEF SkipBadBlock, chip, history, XbootKept, EntriesAbove, JobAbove
<1>5. CASE WriteBlock
  <2>1. /\ job.pc = "write" /\ job.ptn \in Ptns /\ job.blk \in Int /\ job.blk \in Blocks
        /\ job.ptn \in Named => job.blk >= Offset[job.ptn] /\ Offset[job.ptn] \in Int
    BY <1>5, TableAssumption DEF WriteBlock, JobAbove
  <2>2. XbootKept'
    <3>1. ASSUME NEW b \in XbootBlocks \ nameless' PROVE b # job.blk /\ b \notin nameless
      <4>1. b \notin nameless /\ (job.ptn = Unnamed => b # job.blk)
        BY <1>5, <3>1 DEF WriteBlock
      <4>2. job.ptn \in Named => b < Offset[job.ptn] /\ b \in Int
        BY <3>1 DEF XbootBlocks, Blocks
      <4> QED
        BY <2>1, <4>1, <4>2 DEF Ptns
    <3> QED
      BY <1>5, <2>1, <3>1 DEF WriteBlock, XbootKept, XbootBlocks, IsChip
  <2>3. EntriesAbove'
    <3>1. CASE ptable' = ptable
      BY <3>1 DEF EntriesAbove
    <3>2. CASE ptable' = [ptable EXCEPT ![job.ptn] = [start |-> job.blk + 1, length |-> 1]]
      <4>1. \A p \in Ptns : ptable'[p] \in [start : Int, length : Int]
        BY <3>2, <2>1 DEF EntriesAbove
      <4>2. \A p \in Named : ptable'[p].start >= Offset[p]
        BY <3>2, <2>1 DEF EntriesAbove, Ptns
      <4> QED
        BY <3>2, <4>1, <4>2 DEF EntriesAbove
    <3> QED
      BY <1>5, <3>1, <3>2 DEF WriteBlock, MoveEntry
  <2>4. JobAbove'
    <3>1. CASE job' = Polling
      BY <3>1, <1>p DEF JobAbove
    <3>2. CASE job' # Polling
      <4>1. job'.ptn = job.ptn /\ job'.blk = job.blk + 1
            /\ (job'.pc = "convert" => job.ptn # Unnamed)
        BY <1>5, <3>2 DEF WriteBlock, Converted, Unnamed
      <4> QED
        BY <2>1, <4>1 DEF JobAbove
    <3> QED
      BY <3>1, <3>2
  <2>5. IsChip(cell')
    BY <1>5 DEF WriteBlock, IsChip
  <2> QED
    BY <2>2, <2>3, <2>4, <2>5
<1>6. CASE NewSession
  <2>1. job'.pc = "poll"
    BY <1>6 DEF NewSession, Polling
  <2>2. ptable' = PTABLE /\ cell' = cell /\ nameless' = nameless
    BY <1>6 DEF NewSession, chip
  <2>3. EntriesAbove'
    BY <2>2, TableStart DEF EntriesAbove
  <2> QED
    BY <2>1, <2>2, <2>3 DEF XbootKept, JobAbove
<1>7. CASE RunOffChip
  BY <1>7 DEF RunOffChip, chip, history, XbootKept, EntriesAbove, JobAbove
<1>8. CASE UNCHANGED <<cell, ptable, job, nameless>>
  BY <1>8 DEF XbootKept, EntriesAbove, JobAbove
<1> QED
  BY <1>1, <1>2, <1>3, <1>4, <1>5, <1>6, <1>7, <1>8
     DEF Next, Command, Download, FlashRejected, EraseRejected, RebootBootloader,
         PowerCycle, chip, history, vars

\* No command for a partition of the table, and no power cut, ever touches x-boot: the
\* moved entries can creep into the next partition but never below their own.  Only a
\* command for a name the table does not have does, in the blocks it writes or erases.
THEOREM XbootSafe == Spec => []XbootKept
<1>1. Init => XInv
  <2> SUFFICES ASSUME Init PROVE XInv
    OBVIOUS
  <2>2. job.pc = "poll"
    BY DEF Init, Polling
  <2>3. EntriesAbove
    BY TableStart DEF Init, EntriesAbove
  <2>4. JobAbove
    BY <2>2 DEF JobAbove
  <2>5. XbootKept /\ IsChip(cell)
    BY DEF Init, XbootKept, XbootBlocks, IsChip
  <2> QED
    BY <2>3, <2>4, <2>5 DEF XInv
<1>2. XInv => XbootKept
  BY DEF XInv
<1>3. XInv /\ [Next]_vars => XInv'
  BY XStep
<1> QED
  BY <1>1, <1>2, <1>3, PTL DEF Spec

-----------------------------------------------------------------------------
(* Types *)

\* The places of a write that is under way.
JobOK ==
    /\ job.pc = "poll" => job.ptn = Unnamed
    /\ job.pc \in {"convert", "write"} =>
          /\ buf \in Images
          /\ job.blk >= ptable[job.ptn].start
          /\ job.n >= job.lead + Sure(job.ptn, buf)
          /\ job.ptn \in Raw => job.lead = 0
    /\ job.pc = "convert" => job.blk = ptable[job.ptn].start

TInv == TypeOK /\ JobOK

LEMMA TableType ==
    /\ PTABLE \in [Ptns -> [start : 0 .. NBlocks, length : 0 .. NBlocks]]
    /\ \A p \in Named : PTABLE[p].start = Offset[p] /\ PTABLE[p].length = Length[p]
<1>1. ASSUME NEW p \in Named
      PROVE  Offset[p] \in 0 .. NBlocks /\ Length[p] \in 0 .. NBlocks
  BY TableAssumption
<1>2. 0 \in 0 .. NBlocks
  BY TableAssumption
<1>3. ASSUME NEW p \in Ptns
      PROVE  (IF p = Unnamed THEN [start |-> 0, length |-> 0]
              ELSE [start |-> Offset[p], length |-> Length[p]])
                 \in [start : 0 .. NBlocks, length : 0 .. NBlocks]
  <2>1. CASE p = Unnamed
    BY <1>2, <2>1
  <2>2. CASE p # Unnamed
    BY <1>1, <2>2 DEF Ptns
  <2> QED
    BY <2>1, <2>2
<1> QED
  BY <1>3, TableAssumption DEF PTABLE, Ptns

LEMMA PollingType ==
    /\ Polling \in [pc : {"poll", "convert", "write", "off", "hung"}, ptn : Ptns,
                    blk : 0 .. NBlocks, i : Nat, lead : {0, 1}, n : Nat]
    /\ Polling.pc = "poll" /\ Polling.ptn = Unnamed
BY TableAssumption DEF Polling, Ptns

LEMMA EraseTypes ==
    ASSUME TypeOK, NEW p \in Ptns, FlashErase(p)
    PROVE  cell' \in [Blocks -> Contents] /\ bad' \subseteq Blocks
BY DEF FlashErase, TypeOK, Contents

LEMMA NamelessType ==
    ASSUME TypeOK, NEW p \in Ptns
    PROVE  NamelessErase(p) \subseteq Int
<1>1. ptable[p].start \in Int /\ ptable[p].length \in Int
  BY DEF TypeOK
<1>2. Window(p) \subseteq Int
  BY <1>1 DEF Window
<1> QED
  BY <1>2 DEF NamelessErase, TypeOK

LEMMA PieceType ==
    ASSUME NEW img \in Images, NEW lead \in {0, 1}, NEW i \in Nat
    PROVE  Piece([img |-> img, lead |-> lead], i) \in Contents
<1> DEFINE w == [img |-> img, lead |-> lead]
<1>1. w.img = img /\ w.lead = lead
  OBVIOUS
<1>2. CASE i < lead
  BY <1>1, <1>2 DEF Piece, Contents
<1>3. CASE ~(i < lead)
  <2>1. i - lead \in Nat
    BY <1>3
  <2>2. Piece(w, i) = <<img, i - lead>>
    BY <1>1, <1>3 DEF Piece
  <2> QED
    BY <2>1, <2>2 DEF Contents
<1> QED
  BY <1>2, <1>3

\* What the writer will be given: the lead, and all blocks that are sure to be passed.
LEMMA PassedType ==
    ASSUME NEW p, NEW img \in Images, NEW k \in Passed(p, img)
    PROVE  /\ k \in Nat /\ Size[img] \in Nat
           /\ Sure(p, img) \in Nat /\ k >= Sure(p, img)
<1>1. Size[img] \in Nat \ {0}
  BY ImagesAssumption
<1>2. CASE p \in Converted
  <2>1. k = Size[img] - 1 \/ k = Size[img]
    BY <1>2 DEF Passed
  <2> QED
    BY <1>1, <1>2, <2>1 DEF Sure
<1>3. CASE p \notin Converted
  BY <1>1, <1>3 DEF Passed, Sure
<1> QED
  BY <1>2, <1>3

LEMMA HurtType ==
    ASSUME TypeOK, NEW p \in Ptns
    PROVE  HurtByErase(p) \subseteq Ptns
BY DEF HurtByErase, Owners, TypeOK, Ptns

LEMMA TypeInit == Init => TInv
<1> SUFFICES ASSUME Init PROVE TInv
  OBVIOUS
<1>1. cell \in [Blocks -> Contents] /\ bad \subseteq Blocks
  BY DEF Init, Contents
<1>2. ptable \in [Ptns -> [start : 0 .. NBlocks, length : 0 .. NBlocks]]
  BY TableType DEF Init
<1> QED
  BY <1>1, <1>2, PollingType, TableAssumption
     DEF Init, TInv, TypeOK, JobOK, NoStream, Nothing, Ptns

\* One step keeps the types: one case per action.
LEMMA TypeStep == TInv /\ [Next]_vars => TInv'
<1> SUFFICES ASSUME TInv, [Next]_vars PROVE TInv'
  OBVIOUS
<1>t. /\ TypeOK /\ JobOK
      /\ job \in [pc : {"poll", "convert", "write", "off", "hung"}, ptn : Ptns,
                  blk : 0 .. NBlocks, i : Nat, lead : {0, 1}, n : Nat]
      /\ NBlocks \in Nat
  BY TableAssumption DEF TInv, TypeOK
<1>1. ASSUME NEW name \in FlashNames, FlashStart(name) PROVE TInv'
  <2> DEFINE p == FlashTarget(name)
  <2>1. p \in Ptns
    BY <1>1 DEF FlashStart, Rejected
  <2>2. cell' \in [Blocks -> Contents] /\ bad' \subseteq Blocks
    BY <1>1, <1>t, <2>1, EraseTypes DEF FlashStart
  <2>3. ptable[p].start \in 0 .. NBlocks
    BY <1>t, <2>1 DEF TypeOK
  <2>4. hurt' \subseteq Ptns /\ nameless' \subseteq Int
    BY <1>1, <1>t, <2>1, HurtType, NamelessType DEF FlashStart
  <2>5. /\ buf' = buf /\ buf \in Images /\ ptable' = ptable /\ first' = first
        /\ counted' = counted
    BY <1>1, <1>t DEF FlashStart, TypeOK
  <2>6. Lead(p) \in {0, 1} /\ (p \in Raw => Lead(p) = 0)
    BY DEF Lead, Raw, Converted
  <2>7. PICK k \in Passed(p, buf) :
            /\ job' = IF Lead(p) + k = 0 THEN Polling
                      ELSE [pc |-> IF p \in Converted THEN "convert" ELSE "write",
                            ptn |-> p, blk |-> ptable[p].start, i |-> 0,
                            lead |-> Lead(p), n |-> Lead(p) + k]
            /\ told' = IF Lead(p) + k = 0 THEN [ptn |-> p, img |-> buf] ELSE Nothing
    BY <1>1 DEF FlashStart
  <2>8. k \in Nat /\ Sure(p, buf) \in Nat /\ k >= Sure(p, buf)
    BY <2>5, <2>7, PassedType
  <2>9. Lead(p) + k \in Nat /\ Lead(p) + k >= Lead(p) + Sure(p, buf)
    BY <2>6, <2>8
  <2>10. told' \in [ptn : Ptns, img : Images \cup {NoImage}]
    BY <2>1, <2>5, <2>7 DEF Nothing, Ptns
  <2>11. /\ job' \in [pc : {"poll", "convert", "write", "off", "hung"}, ptn : Ptns,
                       blk : 0 .. NBlocks, i : Nat, lead : {0, 1}, n : Nat]
         /\ JobOK'
    <3>1. CASE Lead(p) + k = 0
      BY <2>7, <3>1, PollingType DEF JobOK
    <3>2. CASE Lead(p) + k # 0
      <4> HIDE DEF p
      <4>1. /\ job'.pc \in {"convert", "write"} /\ job'.ptn = p /\ job'.blk = ptable[p].start
            /\ job'.lead = Lead(p) /\ job'.n = Lead(p) + k
            /\ job' \in [pc : {"poll", "convert", "write", "off", "hung"}, ptn : Ptns,
                          blk : 0 .. NBlocks, i : Nat, lead : {0, 1}, n : Nat]
        BY <2>1, <2>3, <2>6, <2>7, <2>9, <3>2
      <4>2. ptable[p].start \in Int
        BY <2>3
      <4>3. Sure(job'.ptn, buf') = Sure(p, buf)
        BY <2>5, <4>1
      <4>4. Sure(job.ptn, buf)' = Sure(job'.ptn, buf')
        BY DEF Sure
      <4> QED
        BY <2>5, <2>6, <2>9, <4>1, <4>2, <4>3, <4>4 DEF JobOK
    <3> QED
      BY <3>1, <3>2
  <2> QED
    BY <1>t, <2>2, <2>4, <2>5, <2>10, <2>11 DEF TInv, TypeOK
<1>2. ASSUME NEW name \in EraseNames, EraseCommand(name) PROVE TInv'
  <2> DEFINE p == EraseTarget(name)
  <2>1. p \in Ptns
    BY <1>2 DEF EraseCommand
  <2>2. cell' \in [Blocks -> Contents] /\ bad' \subseteq Blocks
    BY <1>2, <1>t, <2>1, EraseTypes DEF EraseCommand
  <2>3. /\ job' \in [pc : {"poll", "convert", "write", "off", "hung"}, ptn : Ptns,
                     blk : 0 .. NBlocks, i : Nat, lead : {0, 1}, n : Nat]
        /\ job'.pc \notin {"convert", "write"} /\ (job'.pc = "poll" => job'.ptn = Unnamed)
    <3>1. CASE job' = Polling
      BY <3>1, PollingType
    <3>2. CASE job' = [Polling EXCEPT !.pc = "hung", !.ptn = p]
      BY <3>2, <2>1, PollingType
    <3> QED
      BY <1>2, <3>1, <3>2 DEF EraseCommand
  <2>4. /\ hurt' \subseteq Ptns /\ nameless' \subseteq Int
        /\ told' \in [ptn : Ptns, img : Images \cup {NoImage}]
    BY <1>2, <1>t, <2>1, HurtType, NamelessType DEF EraseCommand, TypeOK, Nothing, Ptns
  <2>5. UNCHANGED <<ptable, buf, counted, first>>
    BY <1>2 DEF EraseCommand
  <2> QED
    BY <1>t, <2>2, <2>3, <2>4, <2>5 DEF TInv, TypeOK, JobOK
<1>3. CASE ConvertBlock
  <2>1. job.ptn \in Ptns /\ ptable[job.ptn].start \in 0 .. NBlocks /\ job.pc = "convert"
    BY <1>3, <1>t DEF ConvertBlock, TypeOK
  <2>2. cell' \in [Blocks -> Contents] /\ bad' \subseteq Blocks
    BY <1>3, <1>t, <2>1, EraseTypes DEF ConvertBlock, TypeOK, chip
  <2>3. hurt' \subseteq Ptns
    BY <1>3, <1>t, <2>1, HurtType DEF ConvertBlock, TypeOK
  <2>4. /\ job' \in [pc : {"poll", "convert", "write", "off", "hung"}, ptn : Ptns,
                     blk : 0 .. NBlocks, i : Nat, lead : {0, 1}, n : Nat]
        /\ job'.pc = "write" /\ job'.ptn = job.ptn /\ job'.blk = ptable[job.ptn].start
        /\ job'.lead = job.lead /\ job'.n = job.n
    BY <1>3, <1>t, <2>1 DEF ConvertBlock
  <2>5. UNCHANGED <<ptable, buf, first, told, nameless>> /\ counted' = TRUE
    BY <1>3 DEF ConvertBlock
  <2>6. ptable[job.ptn].start \in Int /\ buf \in Images
    BY <1>t, <2>1 DEF JobOK
  <2>7. JobOK'
    BY <1>t, <2>1, <2>4, <2>5, <2>6 DEF JobOK, Sure
  <2> QED
    BY <1>t, <2>2, <2>3, <2>4, <2>5, <2>7 DEF TInv, TypeOK
<1>4. CASE SkipBadBlock
  <2>1. /\ job.blk \in Blocks /\ job.pc = "write" /\ job' = [job EXCEPT !.blk = job.blk + 1]
        /\ UNCHANGED <<cell, bad, ptable, buf, counted, first, told, hurt, nameless>>
    BY <1>4, <1>t DEF SkipBadBlock, TypeOK, chip, history
  <2>2. /\ job' \in [pc : {"poll", "convert", "write", "off", "hung"}, ptn : Ptns,
                     blk : 0 .. NBlocks, i : Nat, lead : {0, 1}, n : Nat]
        /\ job'.pc = "write" /\ job'.ptn = job.ptn /\ job'.blk = job.blk + 1
        /\ job'.lead = job.lead /\ job'.n = job.n
    BY <1>t, <2>1 DEF Blocks
  <2>3. ptable[job.ptn].start \in Int /\ job.blk \in Int
    BY <1>t, <2>1 DEF TypeOK, Blocks
  <2>4. JobOK'
    BY <1>t, <2>1, <2>2, <2>3 DEF JobOK, Sure
  <2> QED
    BY <1>t, <2>1, <2>2, <2>4 DEF TInv, TypeOK
<1>5. CASE WriteBlock
  <2>1. /\ job.pc = "write" /\ job.blk \in Blocks /\ job.ptn \in Ptns /\ buf \in Images
        /\ UNCHANGED <<buf, bad, counted>>
    BY <1>5, <1>t DEF WriteBlock, JobOK
  <2>2. cell' \in [Blocks -> Contents]
    <3>1. Piece(Stream, job.i) \in Contents /\ Junk \in Contents
      BY <1>t, <2>1, PieceType DEF Contents, Stream
    <3> QED
      BY <1>5, <1>t, <2>1, <3>1 DEF WriteBlock, TypeOK
  <2>3. [start |-> job.blk + 1, length |-> 1] \in [start : 0 .. NBlocks, length : 0 .. NBlocks]
    <3>1. job.blk + 1 \in 0 .. NBlocks /\ 1 \in 0 .. NBlocks
      BY <2>1, TableAssumption DEF Blocks
    <3> QED
      BY <3>1
  <2>4. ptable' \in [Ptns -> [start : 0 .. NBlocks, length : 0 .. NBlocks]]
    BY <1>5, <1>t, <2>1, <2>3 DEF WriteBlock, MoveEntry, TypeOK
  <2>5. /\ first' \in [Ptns -> [img : Images \cup {NoImage}, lead : {0, 1}]]
        /\ told' \in [ptn : Ptns, img : Images \cup {NoImage}]
    BY <1>5, <1>t, <2>1 DEF WriteBlock, TypeOK, Stream
  <2>6. hurt' \subseteq Ptns /\ nameless' \subseteq Int
    BY <1>5, <1>t, <2>1 DEF WriteBlock, TypeOK, Owners, Ptns, Blocks
  <2>7. /\ job' \in [pc : {"poll", "convert", "write", "off", "hung"}, ptn : Ptns,
                     blk : 0 .. NBlocks, i : Nat, lead : {0, 1}, n : Nat]
        /\ JobOK'
    <3>1. CASE LastBlock
      <4>1. job' = Polling
        BY <1>5, <3>1 DEF WriteBlock
      <4> QED
        BY <4>1, PollingType DEF JobOK
    <3>2. CASE ~LastBlock
      <4>1. job' = [job EXCEPT !.pc = IF job.ptn \in Converted THEN "convert" ELSE "write",
                               !.blk = job.blk + 1, !.i = job.i + 1]
        BY <1>5, <3>2 DEF WriteBlock
      <4>2. job.blk + 1 \in 0 .. NBlocks /\ job.i + 1 \in Nat /\ job.blk \in Int
        BY <1>t, <2>1 DEF Blocks
      <4>3. /\ job' \in [pc : {"poll", "convert", "write", "off", "hung"}, ptn : Ptns,
                         blk : 0 .. NBlocks, i : Nat, lead : {0, 1}, n : Nat]
            /\ job'.pc \in {"convert", "write"} /\ job'.ptn = job.ptn /\ job'.blk = job.blk + 1
            /\ job'.pc = "convert" <=> job.ptn \in Converted
            /\ job'.lead = job.lead /\ job'.n = job.n
        BY <1>t, <4>1, <4>2
      <4>4. CASE job.ptn \in Converted
        <5>1. ptable'[job.ptn] = [start |-> job.blk + 1, length |-> 1]
          BY <1>5, <1>t, <2>1, <4>4 DEF WriteBlock, MoveEntry, TypeOK
        <5>2. ptable'[job'.ptn].start = job.blk + 1
          BY <4>3, <5>1
        <5> QED
          BY <1>t, <2>1, <4>2, <4>3, <5>2 DEF JobOK, Sure
      <4>5. CASE job.ptn \notin Converted
        <5>1. ptable' = ptable
          BY <1>5, <3>2, <4>5 DEF WriteBlock, MoveEntry
        <5>2. ptable[job.ptn].start \in Int /\ ptable[job.ptn].start <= job.blk
          BY <1>t, <2>1 DEF TypeOK, JobOK
        <5>3. job'.pc = "write"
          BY <4>3, <4>5
        <5> QED
          BY <1>t, <2>1, <4>2, <4>3, <5>1, <5>2, <5>3 DEF JobOK, Sure
      <4> QED
        BY <4>4, <4>5
    <3> QED
      BY <3>1, <3>2
  <2> QED
    BY <1>t, <2>1, <2>2, <2>4, <2>5, <2>6, <2>7 DEF TInv, TypeOK
<1>6. CASE NewSession /\ buf' \in {buf, NoImage} /\ counted' \in {counted, FALSE}
  BY <1>6, <1>t, TableType, PollingType
     DEF NewSession, TInv, TypeOK, JobOK, chip, NoStream, Nothing, Ptns
<1>7. CASE RunOffChip
  <2>1. /\ job' = [job EXCEPT !.pc = "off"]
        /\ UNCHANGED <<cell, bad, ptable, buf, counted, first, told, hurt, nameless>>
    BY <1>7 DEF RunOffChip, chip, history
  <2>2. /\ job' \in [pc : {"poll", "convert", "write", "off", "hung"}, ptn : Ptns,
                     blk : 0 .. NBlocks, i : Nat, lead : {0, 1}, n : Nat]
        /\ job'.pc = "off"
    BY <1>t, <2>1
  <2> QED
    BY <1>t, <2>1, <2>2 DEF TInv, TypeOK, JobOK
<1>8. ASSUME NEW img \in Images, Download(img) PROVE TInv'
  BY <1>8, <1>t DEF Download, TInv, TypeOK, JobOK, chip, history
<1>9. CASE UNCHANGED vars
  BY <1>9, <1>t DEF TInv, TypeOK, JobOK, vars
<1> QED
  BY <1>1, <1>2, <1>3, <1>4, <1>5, <1>6, <1>7, <1>8, <1>9
     DEF Next, Command, FlashRejected, EraseRejected, RebootBootloader, PowerCycle

\* Every variable keeps its type, whatever names the host uses: the table's entries
\* stay inside the chip although they move, and a write always has an image.
THEOREM TypeCorrect == Spec => []TypeOK
<1>1. TInv => TypeOK
  BY DEF TInv
<1> QED
  BY <1>1, TypeInit, TypeStep, PTL DEF Spec

-----------------------------------------------------------------------------
(* The first image of a session stays *)

\* Good blocks of p before b: the number of the image's block that belongs into b.
Good(p, b) == Cardinality((Offset[p] .. b - 1) \ bad)

\* The first n blocks of a stream lie in p up to b, as a reader from Offset[p] finds
\* them.
Laid(p, w, n, b) ==
    /\ n = Good(p, b)
    /\ \A x \in Offset[p] .. b - 1 : x \notin bad => cell[x] = Piece(w, Good(p, x))

Working(p) == job.ptn = p /\ job.pc \in {"convert", "write"}

\* The blocks of p that its next write may reach without an erase.
Ahead(p, b) ==
    \/ job.ptn = p /\ job.pc = "write" /\ b >= job.blk
    \/ job.ptn = p /\ job.pc = "convert" /\ b >= ptable[p].start
    \/ job.ptn # p /\ ptable[p] # PTABLE[p] /\ b >= ptable[p].start

Clean(p) ==
    \A b \in Part(p) : cell[b] # Junk /\ (Ahead(p, b) => cell[b] = Blank)

Begun(p) ==
    Working(p) /\ first[p] = NoStream => Laid(p, Stream, job.i, job.blk)

\* The blocks of its first image that a partition is sure to hold, lead and all.
Held(p) == first[p].lead + Sure(p, first[p].img)

Booted(p) ==
    first[p] # NoStream =>
        \E e \in Offset[p] .. Offset[p] + Length[p] :
            e <= ptable[p].start /\ Good(p, e) >= Held(p) /\ Laid(p, first[p], Good(p, e), e)

Kept(p) == Clean(p) /\ Begun(p) /\ Booted(p)

\* An entry is where board_init put it until the first flash has ended, and then
\* behind the first block of its partition.
Entry(p) ==
    /\ ptable[p] = PTABLE[p] \/ (ptable[p].start > Offset[p] /\ ptable[p].length = 1)
    /\ p \in Raw => first[p].lead = 0
    /\ first[p] # NoStream => ptable[p] # PTABLE[p] /\ first[p].img \in Images
    /\ first[p] = NoStream /\ job.ptn # p => ptable[p] = PTABLE[p]
    /\ Working(p) /\ ptable[p] = PTABLE[p] /\ job.pc = "convert" => job.i = 0

SInv == \A p \in Named : Entry(p) /\ (p \notin hurt => Kept(p))

LEMMA Geometry ==
    ASSUME NEW p \in Named
    PROVE  /\ p \in Ptns /\ p # Unnamed
           /\ Offset[p] \in Nat /\ Length[p] \in Nat /\ Length[p] > 0
           /\ Offset[p] \in Part(p) /\ Part(p) \subseteq Blocks /\ Part(p) \subseteq Int
           /\ \A x \in Int : x \in Part(p) <=> x >= Offset[p] /\ x < Offset[p] + Length[p]
           /\ PTABLE[p].start = Offset[p] /\ PTABLE[p].length = Length[p]
<1>1. /\ p \in Ptns /\ p # Unnamed
      /\ Offset[p] \in Nat /\ Length[p] \in Nat /\ Length[p] > 0
      /\ Offset[p] + Length[p] <= NBlocks /\ NBlocks \in Nat
  BY TableAssumption DEF Ptns
<1>2. Part(p) = Offset[p] .. Offset[p] + Length[p] - 1
  BY <1>1 DEF Part
<1>3. Part(p) \subseteq Blocks
  BY <1>1, <1>2 DEF Blocks
<1> QED
  BY <1>1, <1>2, <1>3, TableType

\* Blank, Junk and the blocks of images are all different.
LEMMA Kinds ==
    /\ Blank # Junk /\ Old # Junk
    /\ \A w : w.img \in Images => \A i \in Nat : Piece(w, i) # Junk
BY ImagesAssumption DEF Blank, Junk, Old, FF, Piece

LEMMA GoodType ==
    ASSUME NEW p \in Named, NEW b \in Int
    PROVE  /\ IsFiniteSet((Offset[p] .. b - 1) \ bad)
           /\ Good(p, b) \in Nat
           /\ b <= Offset[p] => Good(p, b) = 0
<1>1. Offset[p] \in Int
  BY Geometry
<1>2. IsFiniteSet(Offset[p] .. b - 1)
  BY <1>1, FS_Interval
<1>3. IsFiniteSet((Offset[p] .. b - 1) \ bad)
  BY <1>2, FS_Subset
<1>4. Cardinality((Offset[p] .. b - 1) \ bad) \in Nat
  BY <1>3, FS_CardinalityType
<1>5. ASSUME b <= Offset[p] PROVE Good(p, b) = 0
  <2>1. (Offset[p] .. b - 1) \ bad = {}
    BY <1>1, <1>5
  <2> QED
    BY <2>1, FS_EmptySet DEF Good
<1> QED
  BY <1>3, <1>4, <1>5 DEF Good

LEMMA GoodStep ==
    ASSUME NEW p \in Named, NEW b \in Int, b >= Offset[p]
    PROVE  Good(p, b + 1) = Good(p, b) + (IF b \in bad THEN 0 ELSE 1)
<1> DEFINE before == (Offset[p] .. b - 1) \ bad
<1>1. Offset[p] \in Int /\ (b + 1) - 1 = b
  BY Geometry
<1>2. Offset[p] .. b = (Offset[p] .. b - 1) \cup {b}
  BY <1>1
<1>3. IsFiniteSet(before) /\ Cardinality(before) \in Nat /\ b \notin before
  BY <1>1, GoodType DEF Good
<1>4. CASE b \in bad
  <2>1. (Offset[p] .. b) \ bad = before
    BY <1>2, <1>4
  <2> QED
    BY <1>1, <1>3, <1>4, <2>1 DEF Good
<1>5. CASE b \notin bad
  <2>1. (Offset[p] .. b) \ bad = before \cup {b}
    BY <1>2, <1>5
  <2>2. Cardinality(before \cup {b}) = Cardinality(before) + 1
    BY <1>3, FS_AddElement
  <2> QED
    BY <1>1, <1>5, <2>1, <2>2 DEF Good
<1> QED
  BY <1>4, <1>5

\* What lies below b stays laid when nothing below b changes.
LEMMA LaidStays ==
    ASSUME NEW p \in Named, NEW b \in Int, NEW w, NEW n, Laid(p, w, n, b),
           \A x \in Int : Offset[p] <= x /\ x < b =>
              cell'[x] = cell[x] /\ (x \in bad' <=> x \in bad)
    PROVE  Laid(p, w, n, b)'
<1>1. Offset[p] \in Int
  BY Geometry
<1>2. ASSUME NEW y \in Int, y <= b PROVE Good(p, y)' = Good(p, y)
  <2>1. \A x \in Offset[p] .. y - 1 : x \in bad' <=> x \in bad
    BY <1>1, <1>2
  <2>2. (Offset[p] .. y - 1) \ bad' = (Offset[p] .. y - 1) \ bad
    BY <2>1
  <2> QED
    BY <2>2 DEF Good
<1>3. Good(p, b)' = Good(p, b)
  BY <1>2
<1>4. ASSUME NEW x \in Offset[p] .. b - 1, x \notin bad'
      PROVE  cell'[x] = Piece(w, Good(p, x)')
  <2>1. x \in Int /\ Offset[p] <= x /\ x < b /\ x <= b
    BY <1>1
  <2>2. cell'[x] = cell[x] /\ x \notin bad
    BY <1>4, <2>1
  <2>3. Good(p, x)' = Good(p, x)
    BY <1>2, <2>1
  <2> QED
    BY <2>2, <2>3 DEF Laid
<1> QED
  BY <1>3, <1>4 DEF Laid

\* The number of good blocks in front of b stays when none of them changes its mark.
LEMMA GoodStays ==
    ASSUME NEW p \in Named, NEW b \in Int,
           \A x \in Int : Offset[p] <= x /\ x < b => (x \in bad' <=> x \in bad)
    PROVE  Good(p, b)' = Good(p, b)
<1>1. Offset[p] \in Int
  BY Geometry
<1>2. (Offset[p] .. b - 1) \ bad' = (Offset[p] .. b - 1) \ bad
  BY <1>1
<1> QED
  BY <1>2 DEF Good

\* What a first image left stays when nothing of it changes and the entry only moves up.
LEMMA BootedStays ==
    ASSUME NEW p \in Named, NEW e \in Offset[p] .. Offset[p] + Length[p],
           Good(p, e) >= Held(p), Laid(p, first[p], Good(p, e), e),
           first'[p] = first[p], e <= ptable'[p].start,
           \A x \in Int : Offset[p] <= x /\ x < e =>
              cell'[x] = cell[x] /\ (x \in bad' <=> x \in bad)
    PROVE  Booted(p)'
<1>1. e \in Int
  BY Geometry
<1>2. PICK w : w = first[p]
  OBVIOUS
<1>3. PICK n : n = Good(p, e)
  OBVIOUS
<1>4. Laid(p, w, n, e)
  BY <1>2, <1>3
<1>5. Laid(p, w, n, e)'
  BY <1>1, <1>4, LaidStays
<1>6. Good(p, e)' = Good(p, e)
  BY <1>1, GoodStays
<1>7. Held(p)' = Held(p)
  BY DEF Held, Sure
<1>8. Laid(p, first[p], Good(p, e), e)'
  BY <1>2, <1>3, <1>5, <1>6
<1> QED
  BY <1>6, <1>7, <1>8 DEF Booted

LEMMA SessionInit == Init => SInv
<1> SUFFICES ASSUME Init, NEW p \in Named PROVE Entry(p) /\ Kept(p)
  BY DEF SInv
<1>1. job.ptn = Unnamed /\ job.pc = "poll" /\ ptable = PTABLE /\ first[p] = NoStream
      /\ first[p].lead = 0
  BY Geometry DEF Init, Polling, NoStream
<1>2. \A b \in Part(p) : cell[b] = Old
  BY Geometry DEF Init
<1>3. ~Working(p) /\ \A b \in Part(p) : ~Ahead(p, b)
  BY <1>1, Geometry DEF Working, Ahead
<1> QED
  BY <1>1, <1>2, <1>3, Kinds DEF Entry, Kept, Clean, Begun, Booted

\* A partition that is not written, whose blocks nobody touches, stays as it is.
LEMMA OthersStay ==
    ASSUME TypeOK, NEW p \in Named, Kept(p), ~Working(p), ~Working(p)',
           job.ptn = p => job'.ptn = p,
           \A b \in Part(p) : cell'[b] = cell[b] /\ (b \in bad' <=> b \in bad),
           ptable'[p] = ptable[p], first'[p] = first[p]
    PROVE  Kept(p)'
<1>1. Clean(p)'
  <2>1. \A b \in Part(p) : Ahead(p, b)' => Ahead(p, b)
    BY DEF Ahead, Working
  <2> QED
    BY <2>1 DEF Clean, Kept
<1>2. Booted(p)'
  <2>1. CASE first[p] = NoStream
    BY <2>1 DEF Booted
  <2>2. CASE first[p] # NoStream
    <3>1. PICK e \in Offset[p] .. Offset[p] + Length[p] :
              e <= ptable[p].start /\ Good(p, e) >= Held(p) /\ Laid(p, first[p], Good(p, e), e)
      BY <2>2 DEF Kept, Booted
    <3>2. \A x \in Int : Offset[p] <= x /\ x < e => x \in Part(p)
      BY Geometry
    <3>3. \A x \in Int : Offset[p] <= x /\ x < e =>
                cell'[x] = cell[x] /\ (x \in bad' <=> x \in bad)
      BY <3>2
    <3> QED
      BY <3>1, <3>3, BootedStays
  <2> QED
    BY <2>1, <2>2
<1> QED
  BY <1>1, <1>2 DEF Kept, Begun

\* An erase for q hurts every other partition it reaches, and no other one is healed.
LEMMA EraseHurts ==
    ASSUME NEW q \in Ptns, NEW p \in Named, p # q, p \notin HurtByErase(q)
    PROVE  p \notin hurt /\ Part(p) \cap Window(q) = {}
<1>1. Part(p) \cap Window(q) = {}
  BY DEF HurtByErase, Owners
<1>2. ~(Part(p) \subseteq Window(q))
  BY <1>1, Geometry
<1> QED
  BY <1>1, <1>2 DEF HurtByErase

\* The erase of the window of q itself: all of the partition, or, once its entry has
\* moved, blocks behind the first image only.
LEMMA EraseOwn ==
    ASSUME TInv, NEW q \in Named, Entry(q), q \notin hurt => Kept(q),
           FlashErase(q), ptable'[q] = ptable[q], first'[q] = first[q], buf' = buf,
           q \notin HurtByErase(q), job.pc \in {"poll", "convert"},
           job.pc = "convert" => Working(q),
           Working(q) => Working(q)' /\ job'.i = job.i /\ job'.lead = job.lead,
           Working(q)' => job'.blk = ptable[q].start /\ (~Working(q) => job'.i = 0)
    PROVE  Kept(q)'
<1>n. /\ ptable[q].start \in Int /\ ptable[q].length \in Int
      /\ Offset[q] \in Int /\ Length[q] \in Int
      /\ cell \in [Blocks -> Contents]
  BY Geometry DEF TInv, TypeOK
<1>0. /\ \A b \in Blocks : cell'[b] = IF b \in Window(q) THEN Blank ELSE cell[b]
      /\ \A b : b \notin Window(q) => (b \in bad' <=> b \in bad)
  BY DEF FlashErase
<1>1. CASE ptable[q] = PTABLE[q]
  <2>1. Window(q) = Part(q) /\ first[q] = NoStream
    BY <1>1, Geometry DEF Window, Part, Entry
  <2>2. \A b \in Part(q) : cell'[b] = Blank
    BY <1>0, <2>1, Geometry
  <2>3. Clean(q)'
    BY <2>2, Kinds DEF Clean
  <2>4. ASSUME Working(q)' PROVE Laid(q, Stream, job.i, job.blk)'
    <3>1. job'.i = 0 /\ job'.blk = Offset[q]
      BY <1>1, <2>4, Geometry DEF Entry, Working
    <3>2. Good(q, Offset[q])' = 0
      <4>1. (Offset[q] .. Offset[q] - 1) \ bad' = {}
        BY <1>n
      <4> QED
        BY <4>1, FS_EmptySet DEF Good
    <3>3. Good(q, job.blk)' = 0
      BY <3>1, <3>2 DEF Good
    <3>4. \A x \in Offset[q] .. job'.blk - 1 : FALSE
      BY <3>1, <1>n
    <3> QED
      BY <3>1, <3>3, <3>4 DEF Laid
  <2> QED
    BY <2>1, <2>3, <2>4 DEF Kept, Begun, Booted
<1>2. CASE ptable[q] # PTABLE[q]
  <2>1. /\ ptable[q].start > Offset[q] /\ Window(q) = ptable[q].start .. ptable[q].start
    BY <1>2, <1>n DEF Entry, Window
  <2>2. Kept(q)
    <3>1. Offset[q] \notin Window(q) /\ Offset[q] \in Part(q)
      BY <2>1, <1>n, Geometry
    <3> QED
      BY <3>1 DEF HurtByErase
  <2>3. \A x \in Int : x < ptable[q].start => x \notin Window(q)
    BY <2>1, <1>n
  <2>4. Clean(q)'
    <3> SUFFICES ASSUME NEW b \in Part(q)
                 PROVE  cell'[b] # Junk /\ (Ahead(q, b)' => cell'[b] = Blank)
      BY DEF Clean
    <3>1. b \in Blocks /\ b \in Int /\ cell[b] # Junk
      BY <2>2, Geometry DEF Kept, Clean
    <3>2. Ahead(q, b)' => b >= ptable[q].start
      BY DEF Ahead, Working
    <3>3. b >= ptable[q].start => cell[b] = Blank
      <4>1. Working(q) \/ job.ptn # q
        BY Geometry DEF TInv, JobOK, Working
      <4>2. b >= ptable[q].start => Ahead(q, b)
        BY <1>2, <4>1 DEF Ahead, Working
      <4> QED
        BY <2>2, <4>2 DEF Kept, Clean
    <3> QED
      BY <1>0, <3>1, <3>2, <3>3, Kinds
  <2>5. Booted(q)'
    <3>1. CASE first[q] = NoStream
      BY <3>1 DEF Booted
    <3>2. CASE first[q] # NoStream
      <4>1. PICK e \in Offset[q] .. Offset[q] + Length[q] :
                e <= ptable[q].start /\ Good(q, e) >= Held(q) /\ Laid(q, first[q], Good(q, e), e)
        BY <2>2, <3>2 DEF Kept, Booted
      <4>2. \A x \in Int : Offset[q] <= x /\ x < e => x \in Blocks /\ x < ptable[q].start
        BY <4>1, <1>n, Geometry
      <4>3. \A x \in Int : Offset[q] <= x /\ x < e =>
                  cell'[x] = cell[x] /\ (x \in bad' <=> x \in bad)
        BY <1>0, <2>3, <4>2
      <4> QED
        BY <4>1, <4>3, BootedStays
    <3> QED
      BY <3>1, <3>2
  <2>6. Begun(q)'
    <3> SUFFICES ASSUME Working(q)', first[q] = NoStream
                 PROVE  Laid(q, Stream, job.i, job.blk)'
      BY DEF Begun
    <3>0. job.pc = "convert" \/ job.ptn # q
      BY Geometry DEF TInv, JobOK
    <3>1. Working(q) /\ job.pc = "convert"
      BY <1>2, <3>0 DEF Entry
    <3>2. /\ job.blk = ptable[q].start /\ job'.blk = job.blk /\ job'.i = job.i
          /\ Stream' = Stream
      BY <3>1 DEF TInv, JobOK, Working, Stream
    <3>3. Laid(q, Stream, job.i, job.blk)
      BY <2>2, <3>1 DEF Kept, Begun
    <3>4. \A x \in Int : Offset[q] <= x /\ x < job.blk =>
                cell'[x] = cell[x] /\ (x \in bad' <=> x \in bad)
      <4>1. job.blk \in 0 .. NBlocks /\ NBlocks \in Nat
        BY TableAssumption DEF TInv, TypeOK
      <4>2. \A x \in Int : Offset[q] <= x /\ x < job.blk => x \in Blocks
        BY <4>1, Geometry DEF Blocks
      <4> QED
        BY <1>0, <2>3, <3>2, <4>2
    <3>5. job.blk \in Int
      BY <3>2, <1>n
    <3> DEFINE w == Stream
               n == job.i
               b == job.blk
    <3>6. Laid(q, w, n, b)'
      BY <3>2, <3>3, <3>4, <3>5, LaidStays
    <3> QED
      BY <3>2, <3>6
  <2> QED
    BY <2>4, <2>5, <2>6 DEF Kept
<1> QED
  BY <1>1, <1>2

\* A flash begins: the window of its entry is erased.
LEMMA SessionFlash ==
    ASSUME TInv, SInv, NEW name \in FlashNames, FlashStart(name)
    PROVE  SInv'
<1> DEFINE q == FlashTarget(name)
<1>1. /\ q \in Ptns /\ job.pc = "poll" /\ job.ptn = Unnamed /\ FlashErase(q)
      /\ job' = Polling \/ (job'.ptn = q /\ job'.blk = ptable[q].start /\ job'.i = 0)
      /\ UNCHANGED <<ptable, first, buf>> /\ hurt' = HurtByErase(q)
  BY DEF FlashStart, Rejected, TInv, JobOK
<1>0. Polling.pc = "poll" /\ Polling.ptn = Unnamed
  BY DEF Polling
<1> HIDE DEF q
<1>2. ASSUME NEW p \in Named PROVE Entry(p)'
  <2>1. Entry(p) /\ job.ptn # p
    BY <1>1, Geometry DEF SInv
  <2> QED
    BY <1>0, <1>1, <2>1 DEF Entry, Working
<1>3. ASSUME NEW p \in Named, p = q, p \notin hurt' PROVE Kept(p)'
  <2>1. ~Working(p) /\ Entry(p) /\ (p \notin hurt => Kept(p))
    BY <1>1 DEF Working, SInv
  <2>2. Working(p)' => job'.blk = ptable[p].start /\ job'.i = 0
    BY <1>0, <1>1, <1>3 DEF Working
  <2> QED
    BY <1>1, <1>3, <2>1, <2>2, EraseOwn
<1>4. ASSUME NEW p \in Named, p # q, p \notin hurt' PROVE Kept(p)'
  <2>1. p \notin hurt /\ Part(p) \cap Window(q) = {}
    BY <1>1, <1>4, EraseHurts
  <2>2. \A b \in Part(p) : cell'[b] = cell[b] /\ (b \in bad' <=> b \in bad)
    BY <1>1, <2>1, Geometry DEF FlashErase
  <2>3. Kept(p) /\ ~Working(p) /\ ~Working(p)' /\ job.ptn # p
    BY <1>0, <1>1, <1>4, <2>1, Geometry DEF SInv, Working
  <2>4. ptable'[p] = ptable[p] /\ first'[p] = first[p] /\ TypeOK
    BY <1>1 DEF TInv
  <2> QED
    BY <2>2, <2>3, <2>4, OthersStay
<1> QED
  BY <1>2, <1>3, <1>4 DEF SInv

LEMMA SessionErase ==
    ASSUME TInv, SInv, NEW name \in EraseNames, EraseCommand(name)
    PROVE  SInv'
<1> DEFINE q == EraseTarget(name)
<1>1. /\ q \in Ptns /\ job.pc = "poll" /\ job.ptn = Unnamed /\ FlashErase(q)
      /\ job'.pc \notin {"convert", "write"}
      /\ UNCHANGED <<ptable, first, buf>> /\ hurt' = HurtByErase(q)
  BY DEF EraseCommand, TInv, JobOK, Polling
<1> HIDE DEF q
<1>2. ASSUME NEW p \in Named PROVE Entry(p)'
  <2>1. Entry(p) /\ job.ptn # p
    BY <1>1, Geometry DEF SInv
  <2> QED
    BY <1>1, <2>1 DEF Entry, Working
<1>3. ASSUME NEW p \in Named, p = q, p \notin hurt' PROVE Kept(p)'
  <2>1. ~Working(p) /\ ~Working(p)' /\ Entry(p) /\ (p \notin hurt => Kept(p))
    BY <1>1 DEF Working, SInv
  <2> QED
    BY <1>1, <1>3, <2>1, EraseOwn
<1>4. ASSUME NEW p \in Named, p # q, p \notin hurt' PROVE Kept(p)'
  <2>1. p \notin hurt /\ Part(p) \cap Window(q) = {}
    BY <1>1, <1>4, EraseHurts
  <2>2. \A b \in Part(p) : cell'[b] = cell[b] /\ (b \in bad' <=> b \in bad)
    BY <1>1, <2>1, Geometry DEF FlashErase
  <2>3. Kept(p) /\ ~Working(p) /\ ~Working(p)' /\ job.ptn # p
    BY <1>1, <1>4, <2>1, Geometry DEF SInv, Working
  <2>4. ptable'[p] = ptable[p] /\ first'[p] = first[p] /\ TypeOK
    BY <1>1 DEF TInv
  <2> QED
    BY <2>2, <2>3, <2>4, OthersStay
<1> QED
  BY <1>2, <1>3, <1>4 DEF SInv

\* flash_write for the next block of a converted image.
LEMMA SessionConvert ==
    ASSUME TInv, SInv, ConvertBlock
    PROVE  SInv'
<1> DEFINE q == job.ptn
<1>1. /\ q \in Ptns /\ job.pc = "convert" /\ job'.pc = "write" /\ job'.ptn = job.ptn
      /\ job'.blk = ptable[job.ptn].start /\ job.blk = ptable[job.ptn].start
      /\ job'.i = job.i /\ job'.lead = job.lead /\ Stream' = Stream
      /\ UNCHANGED <<ptable, first, buf>>
  BY DEF ConvertBlock, TInv, JobOK, TypeOK, Stream
<1>2. ASSUME NEW p \in Named PROVE Entry(p)'
  <2>1. Entry(p)
    BY DEF SInv
  <2> QED
    BY <1>1, <2>1 DEF Entry, Working
<1>3. CASE job.ptn = "system"
  <2>1. UNCHANGED <<cell, bad, hurt>>
    BY <1>3 DEF ConvertBlock, chip
  <2> SUFFICES ASSUME NEW p \in Named, p \notin hurt PROVE Kept(p)'
    BY <1>2, <2>1 DEF SInv
  <2>2. Kept(p)
    BY DEF SInv
  <2>3. Clean(p)'
    <3>1. \A b : Ahead(p, b)' => Ahead(p, b)
      BY <1>1 DEF Ahead
    <3> QED
      BY <2>1, <2>2, <3>1 DEF Kept, Clean
  <2>4. Begun(p)'
    BY <1>1, <2>1, <2>2 DEF Kept, Begun, Working, Laid, Good
  <2>5. Booted(p)'
    BY <1>1, <2>1, <2>2 DEF Kept, Booted, Laid, Good, Held, Sure
  <2> QED
    BY <2>3, <2>4, <2>5 DEF Kept
<1>4. CASE job.ptn # "system"
  <2>1. FlashErase(job.ptn) /\ hurt' = HurtByErase(job.ptn)
    BY <1>4 DEF ConvertBlock
  <2>2. ASSUME NEW p \in Named, p = job.ptn, p \notin hurt' PROVE Kept(p)'
    <3>1. Working(p) /\ Working(p)' /\ Entry(p) /\ (p \notin hurt => Kept(p))
      BY <1>1, <2>2 DEF Working, SInv
    <3>2. FlashErase(p) /\ p \notin HurtByErase(p) /\ job'.blk = ptable[p].start
      BY <1>1, <2>1, <2>2
    <3> QED
      BY <1>1, <3>1, <3>2, EraseOwn
  <2>3. ASSUME NEW p \in Named, p # job.ptn, p \notin hurt' PROVE Kept(p)'
    <3>1. p \notin hurt /\ Part(p) \cap Window(job.ptn) = {}
      BY <1>1, <2>1, <2>3, EraseHurts
    <3>2. \A b \in Part(p) : cell'[b] = cell[b] /\ (b \in bad' <=> b \in bad)
      BY <2>1, <3>1, Geometry DEF FlashErase
    <3>3. Kept(p) /\ ~Working(p) /\ ~Working(p)'
      BY <1>1, <2>3, <3>1 DEF SInv, Working
    <3>4. ptable'[p] = ptable[p] /\ first'[p] = first[p] /\ TypeOK
      BY <1>1 DEF TInv
    <3> QED
      BY <2>3, <3>2, <3>3, <3>4, OthersStay
  <2> QED
    BY <1>2, <2>2, <2>3 DEF SInv
<1> QED
  BY <1>3, <1>4

\* The writer passes a bad block, or the end of the chip.
LEMMA SessionSkip ==
    ASSUME TInv, SInv, SkipBadBlock \/ RunOffChip
    PROVE  SInv'
<1>1. /\ job.pc = "write" /\ job'.ptn = job.ptn /\ job'.i = job.i /\ Stream' = Stream
      /\ UNCHANGED <<cell, bad, ptable, first, buf, hurt>>
      /\ job.blk \in Int
  BY TableAssumption DEF SkipBadBlock, RunOffChip, chip, history, TInv, TypeOK, Stream
<1>2. \/ job'.pc = "write" /\ job'.blk = job.blk + 1 /\ job.blk \in bad
      \/ job'.pc = "off"
  BY DEF SkipBadBlock, RunOffChip, TInv, TypeOK
<1> SUFFICES ASSUME NEW p \in Named PROVE Entry(p)' /\ (p \notin hurt => Kept(p)')
  BY <1>1 DEF SInv
<1>3. Entry(p)'
  <2>1. Entry(p)
    BY DEF SInv
  <2> QED
    BY <1>1, <1>2, <2>1 DEF Entry, Working
<1>4. ASSUME p \notin hurt PROVE Kept(p)'
  <2>1. Kept(p)
    BY <1>4 DEF SInv
  <2>2. Clean(p)'
    <3>1. \A b \in Part(p) : Ahead(p, b)' => Ahead(p, b)
      BY <1>1, <1>2, Geometry DEF Ahead
    <3> QED
      BY <1>1, <2>1, <3>1 DEF Kept, Clean
  <2>3. Booted(p)'
    BY <1>1, <2>1 DEF Kept, Booted, Laid, Good, Held, Sure
  <2>4. Begun(p)'
    <3> SUFFICES ASSUME Working(p)', first[p] = NoStream
                 PROVE  Laid(p, Stream, job.i, job.blk)'
      BY <1>1 DEF Begun
    <3>1. job.ptn = p /\ job'.blk = job.blk + 1 /\ job.blk \in bad
      BY <1>1, <1>2 DEF Working
    <3>2. Laid(p, Stream, job.i, job.blk)
      BY <1>1, <2>1, <3>1 DEF Kept, Begun, Working
    <3>3. job.blk >= Offset[p] /\ Offset[p] \in Int
      <4>1. ptable[p].start >= Offset[p] /\ ptable[p].start \in Int /\ Offset[p] \in Int
        BY Geometry DEF SInv, Entry, TInv, TypeOK
      <4> QED
        BY <1>1, <3>1, <4>1 DEF TInv, JobOK
    <3>4. job.i = Good(p, job.blk + 1)
      <4>1. Good(p, job.blk) \in Nat
        BY <1>1, GoodType
      <4> QED
        BY <1>1, <3>1, <3>2, <3>3, <4>1, GoodStep DEF Laid
    <3>5. \A x \in Offset[p] .. job.blk : x \notin bad => cell[x] = Piece(Stream, Good(p, x))
      BY <1>1, <3>1, <3>2, <3>3 DEF Laid
    <3>6. Offset[p] .. job'.blk - 1 = Offset[p] .. job.blk
      BY <1>1, <3>1, <3>3
    <3> QED
      BY <1>1, <3>1, <3>4, <3>5, <3>6 DEF Laid, Good
  <2> QED
    BY <2>2, <2>3, <2>4 DEF Kept
<1> QED
  BY <1>3, <1>4

\* A block is programmed: it belongs to the image being written, or the partition of
\* somebody else is hurt.
LEMMA SessionWrite ==
    ASSUME TInv, SInv, WriteBlock
    PROVE  SInv'
<1> DEFINE q == job.ptn
<1>1. /\ job.pc = "write" /\ job.blk \in Blocks /\ job.blk \notin bad /\ job.blk \in Int
      /\ job.i \in Nat /\ q \in Ptns /\ buf \in Images /\ buf # NoImage
      /\ cell \in [Blocks -> Contents] /\ Stream.img = buf /\ Stream.lead = job.lead
      /\ Stream # NoStream /\ job.n \in Nat /\ job.n >= job.lead + Sure(job.ptn, buf)
      /\ q \in Raw => job.lead = 0
      /\ ptable \in [Ptns -> [start : 0 .. NBlocks, length : 0 .. NBlocks]]
      /\ first \in [Ptns -> [img : Images \cup {NoImage}, lead : {0, 1}]]
      /\ UNCHANGED <<bad, buf>> /\ ptable[q].start <= job.blk /\ ptable[q].start \in Int
  BY ImagesAssumption DEF WriteBlock, TInv, TypeOK, JobOK, Blocks, Stream, NoStream
<1>2. \A b \in Blocks : b # job.blk => cell'[b] = cell[b]
  BY <1>1 DEF WriteBlock
<1>3. /\ \A p \in Ptns : p # q => ptable'[p] = ptable[p] /\ first'[p] = first[p]
      /\ first'[q] = IF LastBlock /\ first[q] = NoStream THEN Stream ELSE first[q]
      /\ IF q \in Converted \/ LastBlock
         THEN ptable'[q] = [start |-> job.blk + 1, length |-> 1]
         ELSE ptable'[q] = ptable[q]
  BY <1>1 DEF WriteBlock, MoveEntry
<1>4. IF LastBlock THEN job' = Polling
      ELSE /\ job'.ptn = q /\ job'.blk = job.blk + 1 /\ job'.i = job.i + 1
           /\ Stream' = Stream
           /\ job'.pc = IF q \in Converted THEN "convert" ELSE "write"
  BY <1>1 DEF WriteBlock, TInv, TypeOK, Stream
<1>5. hurt' = hurt \cup (Owners({job.blk}) \ {q})
                   \cup (IF job.blk \notin Part(q) /\ first[q] = NoStream THEN {q} ELSE {})
  BY DEF WriteBlock
<1> SUFFICES ASSUME NEW p \in Named PROVE Entry(p)' /\ (p \notin hurt' => Kept(p)')
  BY DEF SInv
<1>6. Entry(p) /\ p \in Ptns /\ p # Unnamed /\ Offset[p] \in Int
  BY Geometry DEF SInv
<1>7. CASE p # q
  <2>1. job'.ptn # p
    BY <1>4, <1>6, <1>7, PollingType
  <2>2. Entry(p)'
    BY <1>3, <1>6, <1>7, <2>1 DEF Entry, Working
  <2>3. ASSUME p \notin hurt' PROVE Kept(p)'
    <3>1. p \notin hurt /\ job.blk \notin Part(p)
      BY <1>5, <1>7, <2>3 DEF Owners
    <3>2. \A b \in Part(p) : cell'[b] = cell[b] /\ (b \in bad' <=> b \in bad)
      BY <1>1, <1>2, <3>1, Geometry
    <3>3. Kept(p) /\ ~Working(p) /\ ~Working(p)' /\ TypeOK
      BY <1>7, <2>1, <3>1 DEF SInv, Working, TInv
    <3> QED
      BY <1>3, <1>6, <1>7, <2>1, <3>2, <3>3, OthersStay
  <2> QED
    BY <2>2, <2>3
<1>8. CASE p = q
  <2>1. job.blk >= Offset[p] /\ PTABLE[p].start = Offset[p]
    BY <1>1, <1>6, <1>8, Geometry DEF Entry
  <2>2. Entry(p)'
    <3>1. CASE q \in Converted \/ LastBlock
      <4>1. ptable'[p].start = job.blk + 1 /\ ptable'[p].length = 1
        BY <1>3, <1>8, <3>1
      <4>2. ptable'[p].start > Offset[p] /\ ptable'[p] # PTABLE[p]
        BY <1>1, <1>6, <2>1, <4>1
      <4>3. first'[p] = NoStream => job'.ptn = p
        BY <1>1, <1>3, <1>4, <1>8
      <4>4. /\ p \in Raw => first'[p].lead = 0
            /\ first'[p] # NoStream => first'[p].img \in Images
        BY <1>1, <1>3, <1>6, <1>8 DEF Entry
      <4> QED
        BY <4>1, <4>2, <4>3, <4>4 DEF Entry
    <3>2. CASE ~(q \in Converted \/ LastBlock)
      <4>1. ptable'[p] = ptable[p] /\ first'[p] = first[p] /\ job'.ptn = p /\ job'.pc = "write"
        BY <1>3, <1>4, <1>8, <3>2
      <4> QED
        BY <1>6, <4>1 DEF Entry
    <3> QED
      BY <3>1, <3>2
  <2>3. ASSUME p \notin hurt' PROVE Kept(p)'
    <3>1. Kept(p) /\ (job.blk \in Part(p) \/ first[p] # NoStream)
      BY <1>5, <1>8, <2>3 DEF SInv
    <3>2. job.blk \in Part(p) => cell[job.blk] = Blank /\ cell'[job.blk] = Piece(Stream, job.i)
      <4>1. Ahead(p, job.blk)
        BY <1>1, <1>8 DEF Ahead
      <4> QED
        BY <1>1, <3>1, <4>1 DEF Kept, Clean, WriteBlock
    <3>3. Clean(p)'
      <4> SUFFICES ASSUME NEW b \in Part(p)
                   PROVE  cell'[b] # Junk /\ (Ahead(p, b)' => cell'[b] = Blank)
        BY DEF Clean
      <4>1. b \in Int /\ b \in Blocks
        BY Geometry
      <4>2. Ahead(p, b)' => b >= job.blk + 1
        <5>1. CASE LastBlock
          <6>1. job'.ptn # p /\ ptable'[p].start = job.blk + 1
            BY <1>3, <1>4, <1>6, <1>8, <5>1, PollingType
          <6> QED
            BY <6>1 DEF Ahead
        <5>2. CASE ~LastBlock
          <6>1. job'.ptn = p /\ job'.blk = job.blk + 1
                /\ (job'.pc = "convert" => ptable'[p].start = job.blk + 1)
            BY <1>3, <1>4, <1>8, <5>2
          <6> QED
            BY <6>1 DEF Ahead
        <5> QED
          BY <5>1, <5>2
      <4>3. b >= job.blk + 1 => b # job.blk /\ b >= job.blk
        BY <1>1, <4>1
      <4>4. b >= job.blk => cell[b] = Blank
        BY <1>1, <1>8, <3>1 DEF Kept, Clean, Ahead
      <4>5. b = job.blk => cell'[b] # Junk
        BY <1>1, <3>2, Kinds
      <4> QED
        BY <1>2, <3>1, <4>1, <4>2, <4>3, <4>4, <4>5 DEF Kept, Clean
    <3>4. ASSUME first[p] = NoStream
          PROVE  \A n, e, w : n = job.i + 1 /\ e = job.blk + 1 /\ w = Stream =>
                    Laid(p, w, n, e)'
      <4>1. Laid(p, Stream, job.i, job.blk) /\ job.blk \in Part(p)
        BY <1>1, <1>8, <3>1, <3>4 DEF Kept, Begun, Working
      <4>2. Good(p, job.blk) = job.i /\ Good(p, job.blk + 1) = job.i + 1
        BY <1>1, <2>1, <4>1, GoodStep DEF Laid
      <4>3. \A x \in Int : Offset[p] <= x /\ x < job.blk => x \in Blocks /\ x # job.blk
        BY <1>1, <1>6, Geometry, TableAssumption DEF Blocks
      <4>4. \A x \in Offset[p] .. job.blk : x \notin bad => cell'[x] = Piece(Stream, Good(p, x))
        <5> SUFFICES ASSUME NEW x \in Offset[p] .. job.blk, x \notin bad
                     PROVE  cell'[x] = Piece(Stream, Good(p, x))
          OBVIOUS
        <5>1. CASE x = job.blk
          BY <3>2, <4>1, <4>2, <5>1
        <5>2. CASE x # job.blk
          <6>0. job.blk \in Int /\ Offset[p] \in Int
            BY <1>1, <1>6
          <6>1. x \in Int /\ Offset[p] <= x /\ x < job.blk
            BY <5>2, <6>0
          <6>2. x \in Offset[p] .. job.blk - 1 /\ cell'[x] = cell[x]
            BY <1>1, <1>2, <1>6, <4>3, <6>1
          <6> QED
            BY <4>1, <6>2 DEF Laid
        <5> QED
          BY <5>1, <5>2
      <4>5. (job.blk + 1) - 1 = job.blk
        BY <1>1
      <4>6. \A x : Good(p, x)' = Good(p, x)
        BY <1>1 DEF Good
      <4> SUFFICES ASSUME NEW n, NEW e, NEW w,
                          n = job.i + 1, e = job.blk + 1, w = Stream
                   PROVE  Laid(p, w, n, e)'
        OBVIOUS
      <4>7. n = Good(p, e)'
        BY <4>2, <4>6
      <4>8. \A x \in Offset[p] .. e - 1 : x \notin bad' => cell'[x] = Piece(w, Good(p, x)')
        BY <1>1, <4>4, <4>5, <4>6
      <4> QED
        BY <4>7, <4>8 DEF Laid
    <3>5. Begun(p)'
      <4> SUFFICES ASSUME Working(p)', first'[p] = NoStream
                   PROVE  Laid(p, Stream, job.i, job.blk)'
        BY DEF Begun
      <4>1. ~LastBlock
        BY <1>4, PollingType DEF Working
      <4>2. first[p] = NoStream /\ job'.blk = job.blk + 1 /\ job'.i = job.i + 1 /\ Stream' = Stream
        BY <1>1, <1>3, <1>4, <1>8, <4>1
      <4> QED
        BY <3>4, <4>2
    <3>6. Booted(p)'
      <4>1. CASE first[p] # NoStream
        <5>1. first'[p] = first[p]
          BY <1>3, <1>8, <4>1
        <5>2. PICK e \in Offset[p] .. Offset[p] + Length[p] :
                  /\ e <= ptable[p].start /\ Good(p, e) >= Held(p)
                  /\ Laid(p, first[p], Good(p, e), e)
          BY <3>1, <4>1 DEF Kept, Booted
        <5>3. e \in Int /\ e <= job.blk
          BY <1>1, <1>6, <1>8, <5>2
        <5>4. e <= ptable'[p].start
          BY <1>1, <1>3, <1>8, <5>2, <5>3
        <5>5. \A x \in Int : Offset[p] <= x /\ x < e =>
                    cell'[x] = cell[x] /\ (x \in bad' <=> x \in bad)
          <6>1. \A x \in Int : Offset[p] <= x /\ x < e => x \in Part(p) /\ x # job.blk
            BY <1>1, <5>2, <5>3, Geometry
          <6> QED
            BY <1>1, <1>2, <6>1, Geometry
        <5> QED
          BY <5>1, <5>2, <5>4, <5>5, BootedStays
      <4>2. CASE first[p] = NoStream /\ LastBlock
        <5>1. first'[p] = Stream /\ ptable'[p].start = job.blk + 1 /\ job.blk \in Part(p)
          BY <1>3, <1>8, <3>1, <4>2
        <5>2. job.n = job.i + 1
          BY <4>2 DEF LastBlock
        <5>3. job.blk + 1 \in Offset[p] .. Offset[p] + Length[p]
          BY <1>1, <5>1, Geometry
        <5>4. \A n, e, w : n = job.i + 1 /\ e = job.blk + 1 /\ w = Stream => Laid(p, w, n, e)'
          BY <3>4, <4>2
        <5>5. PICK e \in Offset[p] .. Offset[p] + Length[p] : e = job.blk + 1
          BY <5>3
        <5>6. PICK n : n = job.i + 1
          OBVIOUS
        <5>7. Laid(p, first[p], n, e)' /\ e <= ptable'[p].start
          BY <1>1, <5>1, <5>4, <5>5, <5>6
        <5>8. Good(p, e)' = n
          BY <5>7 DEF Laid
        <5>9. Held(p)' = job.lead + Sure(job.ptn, buf)
          BY <1>1, <1>8, <5>1 DEF Held, Sure
        <5>10. n >= Held(p)'
          BY <1>1, <5>2, <5>6, <5>9
        <5> QED
          BY <5>7, <5>8, <5>10 DEF Booted
      <4>3. CASE first[p] = NoStream /\ ~LastBlock
        BY <1>3, <1>8, <4>3 DEF Booted
      <4> QED
        BY <4>1, <4>2, <4>3
    <3> QED
      BY <3>3, <3>5, <3>6 DEF Kept
  <2> QED
    BY <2>2, <2>3
<1> QED
  BY <1>7, <1>8

\* A restart loads the table anew; a download touches nothing of this.
LEMMA SessionRest ==
    ASSUME TInv, SInv, NewSession \/ (\E img \in Images : Download(img)) \/ UNCHANGED vars
    PROVE  SInv'
<1> SUFFICES ASSUME NEW p \in Named PROVE Entry(p)' /\ (p \notin hurt' => Kept(p)')
  BY DEF SInv
<1>1. Entry(p) /\ (p \notin hurt => Kept(p)) /\ p \in Ptns /\ p # Unnamed
  BY Geometry DEF SInv
<1>2. CASE NewSession
  <2>1. /\ ptable' = PTABLE /\ first'[p] = NoStream /\ first'[p].lead = 0 /\ job'.ptn # p /\ ~Working(p)'
        /\ UNCHANGED <<hurt, cell>>
    BY <1>1, <1>2, PollingType DEF NewSession, Working, chip, NoStream
  <2>2. \A b : ~Ahead(p, b)'
    BY <2>1 DEF Ahead
  <2> QED
    BY <1>1, <2>1, <2>2 DEF Entry, Kept, Clean, Begun, Booted
<1>3. CASE \E img \in Images : Download(img)
  <2>1. /\ UNCHANGED <<cell, bad, ptable, job, first, hurt>> /\ ~Working(p)
    BY <1>1, <1>3 DEF Download, chip, history, TInv, JobOK, Working
  <2> QED
    BY <1>1, <2>1
       DEF Entry, Kept, Clean, Begun, Booted, Ahead, Working, Laid, Good, Held, Sure
<1>4. CASE UNCHANGED vars
  BY <1>1, <1>4
     DEF vars, Entry, Kept, Clean, Begun, Booted, Ahead, Working, Laid, Good, Held, Sure, Stream
<1> QED
  BY <1>2, <1>3, <1>4

LEMMA SessionStep == TInv /\ SInv /\ [Next]_vars => SInv'
<1> SUFFICES ASSUME TInv, SInv, [Next]_vars PROVE SInv'
  OBVIOUS
<1> QED
  BY SessionFlash, SessionErase, SessionConvert, SessionSkip, SessionWrite, SessionRest
     DEF Next, Command, FlashRejected, EraseRejected, RebootBootloader, PowerCycle

\* A partition that only its own commands have touched holds no block that was
\* programmed without an erase, for every table, every image and every sequence of
\* flashes, erases, restarts and power failures.
THEOREM NoJunk == Spec => []NoJunkInside
<1>1. SInv => NoJunkInside
  BY DEF SInv, Kept, Clean, NoJunkInside
<1> QED
  BY <1>1, TypeInit, SessionInit, TypeStep, SessionStep, PTL DEF Spec

\* The first image that is flashed to a partition is what the next start finds there,
\* whatever is flashed and erased later in the session and whatever bad blocks an
\* erase cures, as long as no other partition's command reaches into it: all of it when
\* it was written raw; all but perhaps its last block, and behind the block of 0xff that
\* an earlier image may have caused, when it was converted.
THEOREM FirstStays == Spec => []BootsFirstFlash
<1>1. TInv /\ SInv => BootsFirstFlash
  <2> SUFFICES ASSUME TInv, SInv, NEW p \in Named, p \notin hurt, first[p] # NoStream
               PROVE  /\ Loads(p, first[p], Sure(p, first[p].img))
                      /\ p \in Raw => first[p].lead = 0
    BY DEF BootsFirstFlash
  <2>1. PICK e \in Offset[p] .. Offset[p] + Length[p] :
                 Good(p, e) >= Held(p) /\ Laid(p, first[p], Good(p, e), e)
    BY DEF SInv, Kept, Booted
  <2>2. ASSUME NEW b \in Blocks, b \notin bad, b >= Offset[p], Good(p, b) < Held(p)
        PROVE  cell[b] = Piece(first[p], Good(p, b))
    <3>1. b \in Int /\ e \in Int /\ Offset[p] \in Int
      BY Geometry DEF Blocks
    <3>2. b < e
      <4> SUFFICES ASSUME e <= b PROVE FALSE
        BY <3>1
      <4>1. (Offset[p] .. e - 1) \ bad \subseteq (Offset[p] .. b - 1) \ bad
        BY <3>1
      <4>2. Good(p, e) <= Good(p, b)
        BY <3>1, <4>1, GoodType, FS_Subset DEF Good
      <4>3. Good(p, e) \in Nat /\ Good(p, b) \in Nat /\ Held(p) \in Int
        <5>1. Good(p, e) \in Nat /\ Good(p, b) \in Nat
          BY <3>1, GoodType
        <5>2. first[p].img \in Images /\ first[p].lead \in {0, 1}
          BY Geometry DEF SInv, Entry, TInv, TypeOK
        <5>3. Size[first[p].img] \in Nat
          BY <5>2, ImagesAssumption
        <5> QED
          BY <5>1, <5>2, <5>3 DEF Held, Sure
      <4>4. Good(p, e) >= Held(p) /\ Good(p, b) < Held(p)
        BY <2>1, <2>2
      <4> QED
        BY <4>2, <4>3, <4>4
    <3>3. b \in Offset[p] .. e - 1
      BY <2>2, <3>1, <3>2
    <3> QED
      BY <2>1, <2>2, <3>3 DEF Laid
  <2>3. p \in Raw => first[p].lead = 0
    BY DEF SInv, Entry
  <2> QED
    BY <2>2, <2>3 DEF Loads, Good, Held
<1> QED
  BY <1>1, TypeInit, SessionInit, TypeStep, SessionStep, PTL DEF Spec
=============================================================================
