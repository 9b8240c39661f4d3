----------------------------- MODULE MCFatImage -----------------------------
(* FatImage with clusters of two bytes or four entries, and names of one   *)
(* or two characters.                                                      *)
EXTENDS FatImage

MCLower   == {"a", "b", "c"}
MCUpperOf == [x \in MCLower |-> CASE x = "a" -> "A" [] x = "b" -> "B" [] x = "c" -> "C"]

MCNames    == {<<"A">>, <<"b", "c">>}
MCPrefixes == {<<"A">>, <<"A", "B">>}
MCDirNames == {<<"D">>}
MCSizes    == {0, 1, 3}
MCTwoSizes == {1, 3}
MCNone     == {}
MCStart    == {"start"}
MCEmpty    == {"empty"}
MCLoaderDir  == <<"E">>
MCLoaderName == <<"X">>
MCRpiName    == <<"K">>
=============================================================================
