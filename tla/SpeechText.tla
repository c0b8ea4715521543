----------------------------- MODULE SpeechText -----------------------------
(***************************************************************************)
(* What native-stt does to recognised text: normalize_text and the         *)
(* postprocessors (postprocess.rs, CapuPostprocessor of stt-capu).  A text *)
(* is a sequence of characters, one for each class the code tells apart.   *)
(***************************************************************************)
EXTENDS Naturals, Sequences, SequencesExt

Lower == {"a", "aa"}         \* a letter, and one composed with a mark
Upper == {"A", "AA"}
Mark == "mark"               \* a combining mark
Removed == {"zero"}          \* U+FEFF, U+200B, U+200C, U+200D, U+2060
Whitespace == {"sp", "nl"}   \* a space, and whitespace that is a control
Control == {"nl", "bell"}
Characters == Lower \cup Upper \cup {Mark} \cup Removed \cup Whitespace
              \cup Control
Texts == Seq(Characters)

Composed == [a |-> "aa", A |-> "AA"]
Lowered(c) == CASE c = "A" -> "a" [] c = "AA" -> "aa" [] OTHER -> c

\* A mark composes with the letter right before it.
nfc(text) ==
  LET Compose(done, c) ==
        IF c = Mark /\ done # <<>> /\ Last(done) \in DOMAIN Composed
          THEN Append(Front(done), Composed[Last(done)])
          ELSE Append(done, c)
  IN FoldLeft(Compose, <<>>, text)

\* The words between the characters of a set.
Split(text, at) ==
  LET Closed(read) == IF read.word = <<>> THEN read.words
                      ELSE Append(read.words, read.word)
      Put(read, c) ==
        IF c \in at THEN [words |-> Closed(read), word |-> <<>>]
        ELSE [words |-> read.words, word |-> Append(read.word, c)]
  IN Closed(FoldLeft(Put, [words |-> <<>>, word |-> <<>>], text))

\* texts.join(" "): empty texts leave their separators.
Join(texts) ==
  IF texts = <<>> THEN <<>>
  ELSE LET Add(text, next) == text \o <<"sp">> \o next
       IN FoldLeft(Add, Head(texts), Tail(texts))

\* Seeded defect: control characters are dropped before whitespace is seen.
ControlFirst(c) == c \notin Removed \cup Control
\* Whitespace is kept although some of it is control characters.
Kept(c) == c \notin Removed /\ (c \in Whitespace \/ c \notin Control)

Cleaned(text) ==
  LET Clean(cleaned, c) ==
        IF ~Kept(c) THEN cleaned
        ELSE Append(cleaned, IF c \in Whitespace THEN "sp" ELSE c)
  IN FoldLeft(Clean, <<>>, text)

normalize_text(text, lowercase) ==
  LET collapsed == Join(Split(Cleaned(nfc(text)), {"sp"}))
  IN IF lowercase THEN [i \in DOMAIN collapsed |-> Lowered(collapsed[i])]
     ELSE collapsed

clean_text(text) == normalize_text(text, TRUE)
finalize_text(text) == normalize_text(text, FALSE)

\* str::trim
Trim(text) ==
  LET solid == {i \in DOMAIN text : text[i] \notin Whitespace} IN
  IF solid = {} THEN <<>>
  ELSE SubSeq(text, CHOOSE i \in solid : \A j \in solid : i <= j,
                    CHOOSE i \in solid : \A j \in solid : i >= j)
-----------------------------------------------------------------------------
(* Postprocessor::process_text and combine_segment_texts, by mode.         *)

Modes == {"none", "normalize", "clean_lower", "capu"}

\* The worker puts marks and capitals into the text, and keeps its words
\* (external).
Punctuate(text) ==
  [i \in DOMAIN text |-> IF i = 1 /\ text[i] = "a" THEN "A" ELSE text[i]]

process_text(mode, text) ==
  CASE mode = "none" -> text
    [] mode = "normalize" -> finalize_text(text)
    [] mode = "clean_lower" -> clean_text(text)
    [] mode = "capu" -> Punctuate(clean_text(text))

combine_segment_texts(mode, texts) ==
  CASE mode \in {"none", "capu"} -> Join(texts)
    [] mode = "normalize" -> finalize_text(Join(texts))
    [] mode = "clean_lower" -> clean_text(Join(texts))

\* Seeded defect: the full text is put together from the unprocessed segments.
CombinesRaw(result, mode) ==
  IF result.segments = <<>>
    THEN [result EXCEPT !.text = process_text(mode, @)]
    ELSE [result EXCEPT
            !.text = Join([i \in DOMAIN result.segments |->
                             result.segments[i].text]),
            !.segments = [i \in DOMAIN @ |->
               [@[i] EXCEPT !.text = process_text(mode, @)]]]

\* process_result of every postprocessor; no segments stands for None.
process_result(result, mode) ==
  IF result.segments = <<>>
    THEN [result EXCEPT !.text = process_text(mode, @)]
    ELSE LET texts == [i \in DOMAIN result.segments |->
                        process_text(mode, result.segments[i].text)]
         IN [result EXCEPT
               !.text = combine_segment_texts(mode, texts),
               !.segments = [i \in DOMAIN @ |->
                               [@[i] EXCEPT !.text = texts[i]]]]
=============================================================================
