---------------------------- MODULE MCBackfiller ----------------------------
(* Instances of Backfiller for TLC: histories of a few changes.            *)
EXTENDS Backfiller, TLC

\* A slot per change; a slot with two changes.
Apart == 0 :> 1 @@ 1 :> 2 @@ 2 :> 3 @@ 3 :> 4
Shared == 0 :> 1 @@ 1 :> 1 @@ 2 :> 2 @@ 3 :> 2

\* A pause of more than one window before the last two changes.
Wide == 0 :> 1 @@ 1 :> 1 @@ 2 :> 6 @@ 3 :> 6
=============================================================================
