------------------------------ MODULE MCProgress ------------------------------
(* Instances of Progress for TLC. *)
EXTENDS Progress

Sized == {"file", "stream", "sequential"}
TwoUrls == <<Sized, {"unsized"}>>
\* The bar does not look at "-nv".
SomeDisplays == {<<TRUE, "normal">>, <<FALSE, "normal">>, <<TRUE, "quiet">>}
AllDisplays == SomeDisplays \cup {<<TRUE, "noverbose">>}
AllOutcomes == {"ok", "failed"}
=============================================================================
