----------------------------- MODULE PsipeDmaMC -----------------------------
(* Instances of PsipeDma for TLC: every offset and every length that fits   *)
(* in the pages, over scattered and over adjacent frames.                   *)
EXTENDS PsipeDma

MCFrames == {2, 3, 5}
MCUnaligned == 1 .. P - 1
MCAligned == {0}
MCLens == 1 .. P * MaxPages
=============================================================================
