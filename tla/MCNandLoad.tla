----------------------------- MODULE MCNandLoad -----------------------------
(* NandLoad for TLC: how a page may read at the three voltages. *)
EXTENDS NandLoad

MCLevels == {0, 1, 2}

\* Correctable at one voltage only; each step at a different one; not at all.
MCKinds == {<<{0}, {0, 1, 2}>>, <<{2}, {2}>>, <<{0}, {1}>>, <<{}, {0, 1, 2}>>}

=============================================================================
