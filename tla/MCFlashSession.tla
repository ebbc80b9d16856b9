--------------------------- MODULE MCFlashSession ---------------------------
(* A chip of five blocks: x-boot (1), boot (2), system (2). *)
EXTENDS FlashSession

CONSTANTS ImgA, ImgB

MCNamed  == {"boot", "system"}
MCOffset == [boot |-> 1, system |-> 3]
MCLength == [boot |-> 2, system |-> 2]
MCSize   == [img \in {ImgA, ImgB} |-> IF img = ImgA THEN 1 ELSE 3]
MCSmall  == [img \in {ImgA, ImgB} |-> 1]

=============================================================================
