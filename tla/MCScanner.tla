----------------------------- MODULE MCScanner ------------------------------
(* Instances of Scanner for TLC. *)
EXTENDS Scanner

\* From the first block, from the middle, to the tip and beyond, within a page.
SomeRanges == {<<0, 3>>, <<1, 4>>, <<2, 7>>, <<5, 6>>, <<3, 3>>, <<0, 15>>}
=============================================================================
