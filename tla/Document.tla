------------------------------ MODULE Document ------------------------------
(***************************************************************************)
(* The document format of the storage server: how a file is read into      *)
(* sentences, how sentences are written back, and how a write session's    *)
(* edits turn one sentence into several.  A file is a sequence of words    *)
(* and marks: spaces only separate words and are left out.                 *)
(***************************************************************************)
EXTENDS Integers, Sequences, FiniteSets, SequencesExt

CONSTANTS
  Word,    \* what users type between spaces and marks
  NoWord   \* a token with no text before its first mark

Stop    == "."    \* stands for '.', '!' and '?'
Newline == "\n"
Open    == " "    \* the delimiter of a sentence that has none

Mark == {Stop, Newline}

ASSUME WordAssumption == Word \cap (Mark \cup {Open}) = {} /\ NoWord \notin Word

Sentence == [words : Seq(Word), delim : Mark \cup {Open}]
Blank    == [words |-> <<>>, delim |-> Open]

(* A token of an update: the text before its first mark, the marks that    *)
(* follow one another there, and whether any text comes after them.        *)
Token == [word : Word \cup {NoWord}, marks : Seq(Mark), tail : BOOLEAN]

Plain(w) == [word |-> w, marks |-> <<>>, tail |-> FALSE]

-----------------------------------------------------------------------------
\* One step of a left-to-right scan: a mark closes the sentence begun.
Scan(acc, x) ==
  IF x \in Mark
  THEN [done |-> Append(acc.done, [words |-> acc.begun, delim |-> x]), begun |-> <<>>]
  ELSE [acc EXCEPT !.begun = Append(@, x)]

\* parse_file_to_list: the last sentence of the list is always an open one.
Parse(file) ==
  LET end == FoldLeft(Scan, [done |-> <<>>, begun |-> <<>>], file)
  IN Append(end.done, [words |-> end.begun, delim |-> Open])

\* Leaves out sentences without words.
FlushMutant(list) ==
  FlattenSeq([k \in DOMAIN list |->
    IF list[k].words = <<>> THEN <<>>
    ELSE list[k].words \o (IF list[k].delim = Open THEN <<>> ELSE <<list[k].delim>>)])

\* flush_list_to_file: an open sentence writes no mark.
Flush(list) ==
  FlattenSeq([k \in DOMAIN list |->
    list[k].words \o (IF list[k].delim = Open THEN <<>> ELSE <<list[k].delim>>)])

\* The words of a list of sentences, in order.
Words(list) == FlattenSeq([k \in DOMAIN list |-> list[k].words])

-----------------------------------------------------------------------------
\* count_words_in_string: tokens that are not made of marks only.
CountWords(content) ==
  Cardinality({k \in DOMAIN content : content[k].word # NoWord \/ content[k].tail})

\* One edit of apply_session_edits_to_sentence: its tokens enter in order.
InsertTokens(tokens, edit) ==
  SubSeq(tokens, 1, edit.at) \o edit.content \o SubSeq(tokens, edit.at + 1, Len(tokens))

\* Every edit's index lies within the tokens present when its turn comes.
EditsApply(words, edits) ==
  \A k \in DOMAIN edits :
    edits[k].at \in 0..(Len(words) + Len(FlattenSeq([j \in 1..(k - 1) |-> edits[j].content])))

EditedTokens(words, edits) ==
  FoldLeft(InsertTokens, [k \in DOMAIN words |-> Plain(words[k])], edits)

\* A token with marks closes the sentence begun; every further mark is a
\* sentence of its own, and the text after the marks is dropped.
Split(acc, t) ==
  LET begun == IF t.word = NoWord THEN acc.begun ELSE Append(acc.begun, t.word)
  IN IF t.marks = <<>>
     THEN [acc EXCEPT !.begun = begun]
     ELSE [done  |-> acc.done \o [k \in DOMAIN t.marks |->
                       [words |-> IF k = 1 THEN begun ELSE <<>>, delim |-> t.marks[k]]],
           begun |-> <<>>]

\* What follows the last mark gets no delimiter.
RebuildMutant(tokens, delim) ==
  LET end == FoldLeft(Split, [done |-> <<>>, begun |-> <<>>], tokens)
  IN IF end.begun = <<>> THEN end.done
     ELSE Append(end.done, [words |-> end.begun, delim |-> Open])

\* The sentences that replace one with these tokens: what follows the last
\* mark keeps the sentence's own delimiter, and nothing yields no sentence.
Rebuild(tokens, delim) ==
  LET end == FoldLeft(Split, [done |-> <<>>, begun |-> <<>>], tokens)
  IN IF end.begun = <<>> THEN end.done
     ELSE Append(end.done, [words |-> end.begun, delim |-> delim])

ApplyEdits(sentence, edits) ==
  Rebuild(EditedTokens(sentence.words, edits), sentence.delim)
=============================================================================
