--------------------------- MODULE EditContent_MC ---------------------------
(* Instances of EditContent for TLC: what users type and what files hold. *)
EXTENDS EditContent, TLC

CONSTANTS s1, s2, f1, o1, o2, w1, w2

Symmetry == Permutations({s1, s2})

Ended(w)    == [word |-> w, marks |-> <<Stop>>, tail |-> FALSE]
Ellipsis    == [word |-> NoWord, marks |-> <<Stop, Stop>>, tail |-> FALSE]
DotThenText == [word |-> NoWord, marks |-> <<Stop>>, tail |-> TRUE]

(* A word, and a word that ends a sentence. *)
PlainInputs == {<<Plain(w1)>>, <<Ended(w2)>>}

(* A word with marks of their own after it, and a mark glued to text. *)
MarkInputs == {<<Plain(w1), Ellipsis>>, <<DotThenText>>}

(* A sentence, and the empty one after it that takes what is appended. *)
OneFile == {<<o1, Stop>>}

(* A file with a blank line between two others. *)
LinedFiles == {<<o1, Newline, Newline, o2, Stop>>}

(* A blank line, and the empty sentence after it. *)
MarkFiles == {<<Newline>>}
=============================================================================
