-------------------------- MODULE MCSemanticIndex --------------------------
(* Two sources; a content with two chunks, one with one, one with none; an
   upgrade of the extractor and an upgrade of the embedding profile. *)
EXTENDS SemanticIndex

MCChunks == [c \in Contents |-> CASE c = "long" -> {1, 2} [] c = "short" -> {1} [] OTHER -> {}]
MCDistance ==
    [v \in {<<"long", 1>>, <<"long", 2>>, <<"short", 1>>} |-> v[2]]
MCFormat == <<"f1", "f2", "f2">>
MCProfile == <<"p1", "p1", "p2">>
=============================================================================
