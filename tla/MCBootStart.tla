---------------------------- MODULE MCBootStart ----------------------------
(* BootStart for TLC: three samples of a few values at each level. *)
EXTENDS BootStart

\* Up to 10 is low; a full battery's SADC may time out.
MCAdc == [l \in Levels |-> CASE l = "low"  -> 8 .. 10
                             [] l = "good" -> {11, 12}
                             [] l = "full" -> {0, 12}]

=============================================================================
