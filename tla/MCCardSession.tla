--------------------------- MODULE MCCardSession ---------------------------
(* CardSession for TLC: partitions that touch, as boot, recovery and misc do. *)
EXTENDS CardSession

CONSTANTS ImgA, ImgD, ImgR

MCPtns  == {"unnamed", "boot", "recovery"}
MCStart == [p \in MCPtns |-> CASE p = "unnamed" -> 0 [] p = "boot" -> 1 [] p = "recovery" -> 4]
MCLen   == [p \in MCPtns |-> CASE p = "unnamed" -> 0 [] p = "boot" -> 3 [] p = "recovery" -> 3]

\* A full chunk and a rest; two chunks, too long for boot; one without the magic, whose
\* rest is less than a sector.
MCBytes == [i \in Images |-> CASE i = ImgA -> 6 [] i = ImgD -> 8 [] i = ImgR -> 5]

=============================================================================
