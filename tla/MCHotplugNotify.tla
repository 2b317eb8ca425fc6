--------------------------- MODULE MCHotplugNotify --------------------------
(***************************************************************************)
(* Instances of HotplugNotify for TLC.                                     *)
(***************************************************************************)
EXTENDS HotplugNotify, TLC

CONSTANTS p1, p2

\* One of each exit, or one of an exit and one of neither.
OneEach  == p1 :> "wan" @@ p2 :> "modem"
OneOther == p1 :> "wan" @@ p2 :> "other"
Bursts   == {OneEach, OneOther}
=============================================================================
