---------------------------- MODULE MCRagSystem ----------------------------
(* Two delimiters, of two characters and of one.  The documents have a     *)
(* break behind the middle of a chunk, before it, or none, and one is      *)
(* empty; chunk_overlap is none, less than chunk_size, or as large.        *)
EXTENDS RagSystem, TLC

MCDelimiterSize == <<2, 1>>
Doc(size, wide, narrow) == [size |-> size, ends |-> <<wide, narrow>>]
MCCorpora == {<<Doc(9, {8}, {4, 6, 7}), Doc(2, {2}, {})>>, <<Doc(0, {}, {})>>}
MCSettings == {[size |-> 4, overlap |-> 0], [size |-> 4, overlap |-> 1], [size |-> 3, overlap |-> 3]}
MCSymmetry == Permutations(Ingestions)
=============================================================================
