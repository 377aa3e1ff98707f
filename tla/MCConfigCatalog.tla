--------------------------- MODULE MCConfigCatalog ---------------------------
(* ConfigCatalog for TLC.                                                  *)
EXTENDS ConfigCatalog

CONSTANTS l1, l2

OneLoad == {l1}
TwoLoads == {l1, l2}
Chrome == {"chrome"}

\* The texts 152, 152.0.9.75, 152.0.10: numbers and texts order them
\* differently, and 152 starts all of them.
ThreeVersions == {<<152>>, <<152, 0, 9, 75>>, <<152, 0, 10>>}

\* The texts 152, 152.0, 152.1: two keys of one length start with 152.
TiedVersions == {<<152>>, <<152, 0>>, <<152, 1>>}
=============================================================================
