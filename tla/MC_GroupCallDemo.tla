--------------------------- MODULE MC_GroupCallDemo ---------------------------
(* Three remote devices; the client may report no device, one, two in      *)
(* either order or all three, up to three times.                           *)
EXTENDS GroupCallDemo

CONSTANTS d1, d2, d3

MCDemuxIds == {d1, d2, d3}
MCRosters == {<<>>, <<d1>>, <<d1, d2>>, <<d2, d1>>, <<d1, d2, d3>>}
=============================================================================
