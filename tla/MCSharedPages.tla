--------------------------- MODULE MCSharedPages ---------------------------
EXTENDS SharedPages, TLC

CONSTANTS p1, p2

MCProcs == {p1, p2}
MCOne == {p1}
MCMappings == {<<{}, TRUE>>} \cup {<<w, FALSE>> : w \in {{}, {p1}}}
MCWritable == {<<{p1}, FALSE>>}
=============================================================================
