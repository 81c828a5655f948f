------------------------- MODULE MCGenerationRoutes -------------------------
(* Two requests on one code; prompts of up to four categories for up to    *)
(* three prompts, so that some categories have no share.  The texts are a  *)
(* blank, a name of one character, a name with punctuation and its plain   *)
(* form, another name, punctuation alone, and one over each limit.         *)
EXTENDS GenerationRoutes, TLC

CONSTANTS r1, r2, p1

MCTexts ==
    {[word |-> "none", marks |-> 0, size |-> 0],
     [word |-> "x", marks |-> 0, size |-> 1],
     [word |-> "brand", marks |-> 1, size |-> 3],
     [word |-> "brand", marks |-> 0, size |-> 2],
     [word |-> "other", marks |-> 0, size |-> 2],
     [word |-> "marks", marks |-> 2, size |-> 2],
     [word |-> "tale", marks |-> 0, size |-> 5]}

MCTermSizes == {2}

Symmetry == Permutations(Requests)
=============================================================================
