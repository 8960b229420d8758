--------------------------- MODULE MCImageLayout ---------------------------
(* ImageLayout at the sizes of the code: one behaviour for each grey level.*)
EXTENDS ImageLayout
=============================================================================
