------------------------- MODULE RecognitionProofs -------------------------
(***************************************************************************)
(* Proofs about Recognition, for all audio, detectors and recognisers: the *)
(* files that are resolved are those of the lock, the recogniser gets      *)
(* enough audio, the times of a segment are those of its speech, and the   *)
(* words that are heard reach the answer, whatever texts are heard.        *)
(***************************************************************************)
EXTENDS Recognition, SpeechTextProofs
-----------------------------------------------------------------------------
(* The preference among file names.                                        *)

\* The names are four, and none of them is "none".
LEMMA NamesFact ==
  /\ Names \in Seq(NameSet) /\ Len(Names) = 4 /\ DOMAIN Names = 1..4
  /\ NameSet = {"first", "second", "epoch-1", "epoch-2"}
  /\ "none" \notin NameSet
  /\ \A i, j \in DOMAIN Names : Names[i] = Names[j] => i = j
<1>1. /\ Len(Names) = 4 /\ DOMAIN Names = 1..4
      /\ Names[1] = "first" /\ Names[2] = "second"
      /\ Names[3] = "epoch-1" /\ Names[4] = "epoch-2"
  BY DEF Names
<1>2. NameSet = {"first", "second", "epoch-1", "epoch-2"}
  BY <1>1 DEF NameSet
<1>3. Names \in Seq(NameSet)
  BY <1>2 DEF Names
<1>4. "none" \notin NameSet
  BY <1>2
<1>5. \A i, j \in DOMAIN Names : Names[i] = Names[j] => i = j
  BY <1>1
<1> QED
  BY <1>1, <1>2, <1>3, <1>4, <1>5

\* A set of indices of names has a first element.
LEMMA FirstIndex ==
  ASSUME NEW I \in SUBSET (1..4), I # {}
  PROVE  Min(I) \in I /\ \A i \in I : Min(I) <= i
<1>1. \E x \in I : \A y \in I : x <= y
  <2>1. CASE 1 \in I  BY <2>1
  <2>2. CASE 1 \notin I /\ 2 \in I  BY <2>2
  <2>3. CASE 1 \notin I /\ 2 \notin I /\ 3 \in I  BY <2>3
  <2>4. CASE 1 \notin I /\ 2 \notin I /\ 3 \notin I
    <3>1. PICK x \in I : TRUE
      OBVIOUS
    <3>2. \A y \in I : y = 4
      BY <2>4
    <3> QED
      BY <3>1, <3>2
  <2> QED
    BY <2>1, <2>2, <2>3, <2>4
<1> QED
  BY <1>1 DEF Min

\* The file that is found is there; if the registry names none, no file that
\* is there is preferred to it.
LEMMA FoundIsFirst ==
  ASSUME NEW part \in Parts, dir[part] \in SUBSET NameSet, Found(part) # "none"
  PROVE  /\ Found(part) \in dir[part]
         /\ asked[part] = "none" =>
              \A i, j \in DOMAIN Names :
                Names[i] \in dir[part] /\ Names[j] = Found(part) => j <= i
<1>1. CASE asked[part] # "none"
  BY <1>1 DEF Found
<1>2. CASE asked[part] = "none"
  <2> DEFINE I == {i \in 1..Len(Names) : Names[i] \in dir[part]}
  <2>1. I \in SUBSET (1..4)
    BY NamesFact
  <2>2. Found(part) = IF (IF I # {} THEN Min(I) ELSE 0) = 0 THEN "none"
                      ELSE Names[IF I # {} THEN Min(I) ELSE 0]
    BY <1>2 DEF Found, SelectInSeq
  <2>3. I # {} /\ Found(part) = Names[Min(I)]
    BY <2>2
  <2>4. Min(I) \in I /\ \A i \in I : Min(I) <= i
    BY <2>1, <2>3, FirstIndex
  <2> QED
    BY <2>3, <2>4, NamesFact
<1> QED
  BY <1>1, <1>2
-----------------------------------------------------------------------------
(* Arithmetic of the audio.                                                *)

\* Feeding whole windows loses samples at the end, and adds none.
LEMMA FedWithin ==
  ASSUME RateAssumption, NEW n \in Nat
  PROVE  /\ pad_samples \in Nat /\ Fed(n) \in Nat
         /\ Fed(n) <= pad_samples + n
<1>1. \A x \in Nat, w \in Nat \ {0} :
        x \div w \in Nat /\ (x \div w) * w \in Nat /\ (x \div w) * w <= x
  <2> SUFFICES ASSUME NEW x \in Nat, NEW w \in Nat \ {0}
               PROVE  /\ x \div w \in Nat /\ (x \div w) * w \in Nat
                      /\ (x \div w) * w <= x
    OBVIOUS
  <2>1. x \div w \in Nat
    OBVIOUS
  <2>2. x = w * (x \div w) + (x % w) /\ x % w \in Nat
    OBVIOUS
  <2> QED
    BY <2>1, <2>2
<1>2. Rate \div 2 \in Nat
  BY DEF RateAssumption
<1>3. pad_samples \in Nat
  BY <1>1, <1>2 DEF pad_samples, RateAssumption
<1> QED
  BY <1>1, <1>3 DEF Fed, RateAssumption

\* What the recogniser is given.
LEMMA InputFact ==
  ASSUME RateAssumption, NEW n \in Nat, NEW text
  PROVE  LET input == Input(n, text) IN
         /\ input = [leading |-> input.leading, trailing |-> input.trailing,
                     len |-> n, text |-> text]
         /\ input.leading \in Nat /\ input.trailing \in Nat
         /\ input.leading + n + input.trailing >= Rate
         /\ input.trailing - input.leading \in {0, 1}
         /\ n >= Rate => input.trailing = 0
<1> DEFINE pad == pad_for_decoder(n)
<1>1. /\ pad = [leading |-> pad.leading, trailing |-> pad.trailing]
      /\ pad.leading \in Nat /\ pad.trailing \in Nat
      /\ pad.leading + n + pad.trailing >= Rate
      /\ pad.trailing - pad.leading \in {0, 1}
      /\ n >= Rate => pad.trailing = 0
  BY DEF pad_for_decoder, RateAssumption
<1>2. Input(n, text) = [leading |-> pad.leading, trailing |-> pad.trailing,
                        len |-> n, text |-> text]
  BY DEF Input
<1> HIDE DEF pad
<1> QED
  BY <1>1, <1>2
-----------------------------------------------------------------------------
(* The inductive invariant.                                                *)

\* The texts that are heard, and what the segments of a result have of them.
AllHeard == Heard(TRUE) \cup Heard(FALSE)
Trimmed == {Trim(text) : text \in AllHeard}
Processed == {process_text(m, text) : m \in Modes, text \in Trimmed}
Reported(texts) == [start : Nat, end : Nat, text : texts]

\* The state before the texts, typed.
Shape ==
  /\ dir \in [Parts -> SUBSET NameSet]
  /\ vad \in BOOLEAN /\ mode \in Modes
  /\ stage \in {"resolve", "decode", "detect", "collect", "whole",
                "recognise", "postprocess", "done", "failed"}
  /\ samples \in Nat
  /\ speech \in Seq([start : Nat, len : Nat \ {0}])
  /\ segments \in Seq(Span)
  /\ inputs \in Seq([leading : Nat, trailing : Nat, len : Nat,
                     text : AllHeard])
  /\ result = [text |-> result.text, segments |-> result.segments]
  /\ result.segments \in
       Seq(Reported(IF stage = "done" THEN Processed ELSE Trimmed))

\* Beyond resolving, the files are those that were found and validated.
Resolved ==
  stage \notin {"resolve", "failed"} =>
    \A part \in Parts :
      /\ chosen[part] = Found(part) /\ Found(part) # "none"
      /\ Validated(part, Found(part))

\* What was detected lies in what was fed, in order.
Ordered ==
  \A i \in DOMAIN speech :
    /\ speech[i].start + speech[i].len <= Fed(samples)
    /\ \A j \in 1..(i - 1) : speech[j].start + speech[j].len <= speech[i].start

\* How far the recognition is: what is there at each stage.
Progress ==
  /\ stage \in {"resolve", "decode", "detect", "whole"} => speech = <<>>
  /\ stage \in {"resolve", "decode", "detect", "collect", "whole"} =>
       segments = <<>> /\ inputs = <<>> /\ result.segments = <<>>
  /\ stage \in {"detect", "collect", "recognise"} => vad
  /\ stage = "whole" => ~vad
  /\ ~vad => result.segments = <<>>
  /\ stage = "recognise" =>
       /\ Len(inputs) + Len(segments) = Len(speech)
       /\ \A i \in DOMAIN segments : segments[i] = Timed(speech[Len(inputs) + i])

\* What the recogniser was given: the i-th segment, or the whole audio.
Supplied ==
  /\ vad => Len(inputs) <= Len(speech)
  /\ \A i \in DOMAIN inputs :
       /\ inputs[i] = Input(inputs[i].len, inputs[i].text)
       /\ vad => inputs[i].len = speech[i].len
       /\ ~vad => inputs[i].len = samples

\* Every segment of the result is one of those that were recognised, in order.
FromSpeech ==
  /\ \A i \in DOMAIN result.segments :
       \E k \in 1..Len(inputs) :
         /\ k \in DOMAIN speech
         /\ result.segments[i].start = Timed(speech[k]).start
         /\ result.segments[i].end = Timed(speech[k]).end
  /\ \A i, j \in DOMAIN result.segments :
       i < j => result.segments[i].start <= result.segments[j].start

RecognitionInv ==
  Shape /\ Resolved /\ Ordered /\ Progress /\ Supplied /\ FromSpeech
-----------------------------------------------------------------------------
(* What the operators of the steps return.                                 *)

\* The silence before the audio is cut off a segment, down to its start.
LEMMA TimedFact ==
  ASSUME RateAssumption, NEW interval \in [start : Nat, len : Nat \ {0}]
  PROVE  LET timed == Timed(interval) IN
         /\ timed \in Span /\ timed.len = interval.len
         /\ timed.start = IF interval.start - pad_samples < 0 THEN 0
                          ELSE interval.start - pad_samples
         /\ timed.end = timed.start + interval.len
<1>1. pad_samples \in Nat
  BY FedWithin
<1> QED
  BY <1>1 DEF Timed, Span

\* A function on the first numbers is a sequence.
LEMMA ListIsSequence ==
  ASSUME NEW S, NEW n \in Nat, NEW f, f = [i \in 1..n |-> f[i]],
         \A i \in 1..n : f[i] \in S
  PROVE  f \in Seq(S)
<1>1. f \in [1..n -> S]
  OBVIOUS
<1> QED
  BY <1>1

\* Postprocessing keeps the segments and their times.
LEMMA ProcessKeepsSegments ==
  ASSUME Shape, stage # "done", NEW m \in Modes
  PROVE  LET after == process_result(result, m) IN
         /\ after = [text |-> after.text, segments |-> after.segments]
         /\ after.segments \in Seq(Reported(Processed))
         /\ DOMAIN after.segments = DOMAIN result.segments
         /\ \A i \in DOMAIN after.segments :
              /\ after.segments[i].start = result.segments[i].start
              /\ after.segments[i].end = result.segments[i].end
<1> DEFINE after == process_result(result, m)
           texts == [i \in DOMAIN result.segments |->
                       process_text(m, result.segments[i].text)]
<1>1. /\ result = [text |-> result.text, segments |-> result.segments]
      /\ result.segments \in Seq(Reported(Trimmed))
  BY DEF Shape
<1>2. CASE result.segments = <<>>
  <2>1. after = [text |-> process_text(m, result.text), segments |-> <<>>]
    BY <1>1, <1>2 DEF process_result
  <2> QED
    BY <1>2, <2>1
<1>3. CASE result.segments # <<>>
  <2> DEFINE new == [i \in DOMAIN result.segments |->
                       [result.segments[i] EXCEPT !.text = texts[i]]]
  <2>1. after = [text |-> combine_segment_texts(m, texts), segments |-> new]
    <3>1. after = [result EXCEPT !.text = combine_segment_texts(m, texts),
                                 !.segments = new]
      BY <1>3 DEF process_result
    <3> HIDE DEF after, new, texts
    <3> QED
      BY <1>1, <3>1
  <2>2. \A i \in DOMAIN result.segments :
          /\ new[i] \in Reported(Processed)
          /\ new[i].start = result.segments[i].start
          /\ new[i].end = result.segments[i].end
    <3> SUFFICES ASSUME NEW i \in DOMAIN result.segments
                 PROVE  /\ new[i] \in Reported(Processed)
                        /\ new[i].start = result.segments[i].start
                        /\ new[i].end = result.segments[i].end
      OBVIOUS
    <3>1. result.segments[i] \in Reported(Trimmed)
      BY <1>1
    <3>2. texts[i] \in Processed
      BY <3>1 DEF Reported, Processed
    <3> HIDE DEF texts
    <3> QED
      BY <3>1, <3>2 DEF Reported
  <2>3. /\ DOMAIN new = DOMAIN result.segments
        /\ new \in Seq(Reported(Processed))
    <3>1. /\ DOMAIN new = 1..Len(result.segments)
          /\ Len(result.segments) \in Nat
          /\ DOMAIN new = DOMAIN result.segments
          /\ new = [i \in DOMAIN new |-> new[i]]
      BY <1>1
    <3> HIDE DEF new
    <3> QED
      BY <2>2, <3>1, ListIsSequence
  <2> HIDE DEF after, new
  <2> QED
    BY <2>1, <2>2, <2>3 DEF after
<1> HIDE DEF after
<1> QED
  BY <1>2, <1>3 DEF after
-----------------------------------------------------------------------------
(* The invariant holds initially, and every step keeps it.                 *)

LEMMA InvInitially == RateAssumption /\ Init => RecognitionInv
<1> SUFFICES ASSUME RateAssumption, Init PROVE RecognitionInv
  OBVIOUS
<1>1. /\ speech = <<>> /\ segments = <<>> /\ inputs = <<>>
      /\ result = [text |-> <<>>, segments |-> <<>>]
      /\ stage = "resolve" /\ samples = 0
  BY DEF Init, NoResult
<1>2. Shape
  BY <1>1 DEF Init, Shape
<1>3. Resolved
  BY <1>1 DEF Resolved
<1>4. Ordered
  BY <1>1 DEF Ordered
<1>5. Progress
  BY <1>1 DEF Progress
<1>6. Supplied
  BY <1>1 DEF Supplied
<1>7. FromSpeech
  BY <1>1 DEF FromSpeech
<1> QED
  BY <1>2, <1>3, <1>4, <1>5, <1>6, <1>7 DEF RecognitionInv

\* What was detected, one by one.
LEMMA SpeechElement ==
  ASSUME Shape, NEW i \in DOMAIN speech
  PROVE  speech[i] \in [start : Nat, len : Nat \ {0}]
<1>1. speech \in Seq([start : Nat, len : Nat \ {0}])
  BY DEF Shape
<1> DEFINE S == [start : Nat, len : Nat \ {0}]
<1>2. speech \in Seq(S)
  BY <1>1
<1> HIDE DEF S
<1>3. DOMAIN speech = 1..Len(speech)
  BY <1>2
<1>4. speech[i] \in S
  BY <1>2, <1>3, ElementOfSeq
<1> QED
  BY <1>4 DEF S

\* The recognition of a segment appends at most one reported segment.
LEMMA Appended ==
  ASSUME RateAssumption, RecognitionInv, Recognise
  PROVE  /\ vad /\ stage' = "recognise" /\ UNCHANGED <<choiceVars, speech, samples>>
         /\ Len(inputs) + 1 \in DOMAIN speech
         /\ \E text \in AllHeard :
              /\ inputs' =
                   Append(inputs, Input(speech[Len(inputs) + 1].len, text))
              /\ \/ UNCHANGED result
                 \/ LET timed == Timed(speech[Len(inputs) + 1]) IN
                    /\ result' = [text |-> result.text,
                                  segments |-> result'.segments]
                    /\ result'.segments =
                         Append(result.segments,
                                [start |-> timed.start, end |-> timed.end,
                                 text |-> Trim(text)])
<1> DEFINE k == Len(inputs) + 1
           segment == Head(segments)
<1>1. /\ stage = "recognise" /\ segments # <<>> /\ Progress /\ Shape
      /\ stage' = stage /\ UNCHANGED <<choiceVars, speech, samples>>
  BY DEF Recognise, RecognitionInv
<1>2. /\ vad /\ Len(inputs) + Len(segments) = Len(speech)
      /\ segment = Timed(speech[k])
      /\ k \in DOMAIN speech
  <2>1. /\ Len(segments) \in Nat \ {0} /\ DOMAIN segments = 1..Len(segments)
        /\ Len(inputs) \in Nat /\ segment = segments[1]
        /\ Len(speech) \in Nat /\ DOMAIN speech = 1..Len(speech)
    BY <1>1 DEF Shape
  <2>2. /\ vad /\ Len(inputs) + Len(segments) = Len(speech)
        /\ \A i \in DOMAIN segments :
             segments[i] = Timed(speech[Len(inputs) + i])
    BY <1>1 DEF Progress
  <2>3. 1 \in DOMAIN segments
    BY <2>1
  <2>4. segment = Timed(speech[k])
    BY <2>1, <2>2, <2>3
  <2>5. k \in DOMAIN speech
    BY <2>1, <2>2
  <2> QED
    BY <2>2, <2>4, <2>5
<1>3. segment.len = speech[k].len
  <2>1. speech[k] \in [start : Nat, len : Nat \ {0}]
    BY <1>1, <1>2, SpeechElement
  <2> QED
    BY <1>2, <2>1, TimedFact
<1>4. PICK text \in Heard(vad) :
        /\ inputs' = Append(inputs, Input(segment.len, text))
        /\ result' = IF Trim(text) = <<>> THEN result
                     ELSE [result EXCEPT !.segments = Append(@,
                             [start |-> segment.start, end |-> segment.end,
                              text |-> Trim(text)])]
  BY DEF Recognise
<1>5. text \in AllHeard
  BY <1>2 DEF AllHeard
<1>6. result = [text |-> result.text, segments |-> result.segments]
  BY <1>1 DEF Shape
<1> HIDE DEF k, segment
<1>7. \/ UNCHANGED result
      \/ /\ result' = [text |-> result.text, segments |-> result'.segments]
         /\ result'.segments =
              Append(result.segments,
                     [start |-> segment.start, end |-> segment.end,
                      text |-> Trim(text)])
  BY <1>4, <1>6
<1> QED
  BY <1>1, <1>2, <1>3, <1>4, <1>5, <1>7 DEF k

\* What was appended is typed.
LEMMA ShapeOfRecognise ==
  ASSUME RateAssumption, RecognitionInv, Recognise
  PROVE  Shape'
<1>1. Shape /\ stage = "recognise" /\ segments # <<>>
  BY DEF RecognitionInv, Recognise
<1>2. PICK text \in AllHeard :
        /\ inputs' = Append(inputs, Input(speech[Len(inputs) + 1].len, text))
        /\ \/ UNCHANGED result
           \/ LET timed == Timed(speech[Len(inputs) + 1]) IN
              /\ result' = [text |-> result.text, segments |-> result'.segments]
              /\ result'.segments =
                   Append(result.segments,
                          [start |-> timed.start, end |-> timed.end,
                           text |-> Trim(text)])
  BY Appended
<1>3. speech[Len(inputs) + 1] \in [start : Nat, len : Nat \ {0}]
  BY <1>1, Appended, SpeechElement
<1>4. inputs' \in Seq([leading : Nat, trailing : Nat, len : Nat,
                       text : AllHeard])
  <2>1. Input(speech[Len(inputs) + 1].len, text) \in
          [leading : Nat, trailing : Nat, len : Nat, text : AllHeard]
    BY <1>3, InputFact
  <2> QED
    BY <1>1, <1>2, <2>1 DEF Shape
<1>5. /\ result' = [text |-> result'.text, segments |-> result'.segments]
      /\ result'.segments \in Seq(Reported(Trimmed))
  <2>1. /\ result = [text |-> result.text, segments |-> result.segments]
        /\ result.segments \in Seq(Reported(Trimmed))
    BY <1>1 DEF Shape
  <2>2. Trim(text) \in Trimmed
    BY DEF Trimmed
  <2> DEFINE timed == Timed(speech[Len(inputs) + 1])
  <2>3. timed.start \in Nat /\ timed.end \in Nat
    BY <1>3, TimedFact DEF Span
  <2> HIDE DEF timed
  <2>4. [start |-> timed.start, end |-> timed.end, text |-> Trim(text)]
          \in Reported(Trimmed)
    BY <2>2, <2>3 DEF Reported
  <2> DEFINE new == [start |-> timed.start, end |-> timed.end,
                     text |-> Trim(text)]
  <2>5. CASE UNCHANGED result
    BY <2>1, <2>5
  <2>6. CASE /\ result' = [text |-> result.text, segments |-> result'.segments]
             /\ result'.segments = Append(result.segments, new)
    <3>1. new \in Reported(Trimmed)
      BY <2>4
    <3> HIDE DEF new
    <3>2. result'.segments \in Seq(Reported(Trimmed))
      BY <2>1, <2>6, <3>1
    <3>3. result'.text = result.text
      BY <2>6
    <3> QED
      BY <2>6, <3>2, <3>3
  <2> QED
    BY <1>2, <2>5, <2>6 DEF timed
<1>6. segments' \in Seq(Span)
  BY <1>1 DEF Recognise, Shape
<1>7. /\ stage' = "recognise" /\ UNCHANGED <<choiceVars, speech, samples>>
  BY Appended
<1> QED
  BY <1>1, <1>4, <1>5, <1>6, <1>7 DEF Shape, choiceVars

\* Types.
LEMMA ShapeStep ==
  ASSUME RateAssumption, RecognitionInv, [Next]_vars
  PROVE  Shape'
<1> USE DEF RecognitionInv
<1>1. CASE Resolve
  BY <1>1 DEF Resolve, Shape, choiceVars
<1>2. CASE Decode
  BY <1>2 DEF Decode, Shape, choiceVars, RateAssumption
<1>3. CASE Detect
  <2>1. speech' \in Seq([start : Nat, len : Nat \ {0}])
    <3>1. CASE \E count \in 0..MaxSpeech :
                 speech' \in Intervals(Fed(samples), count)
      <4>1. PICK count \in 0..MaxSpeech :
                   speech' \in Intervals(Fed(samples), count)
        BY <3>1
      <4>2. Fed(samples) \in Nat
        BY FedWithin DEF Shape
      <4>3. count \in Nat
        BY DEF RateAssumption
      <4>4. speech' \in [1..count -> [start : Nat, len : Nat \ {0}]]
        BY <4>1, <4>2 DEF Intervals
      <4> DEFINE S == [start : Nat, len : Nat \ {0}]
      <4>5. speech' \in [1..count -> S]
        BY <4>4
      <4> HIDE DEF S
      <4>6. /\ speech' = [i \in 1..count |-> speech'[i]]
            /\ \A i \in 1..count : speech'[i] \in S
        BY <4>5
      <4>7. speech' \in Seq(S)
        BY <4>3, <4>6, ListIsSequence
      <4> QED
        BY <4>7 DEF S
    <3>2. CASE UNCHANGED speech
      BY <3>2 DEF Shape
    <3> QED
      BY <1>3, <3>1, <3>2 DEF Detect
  <2> QED
    BY <1>3, <2>1 DEF Detect, Shape, choiceVars
<1>4. CASE Collect
  <2>1. segments' \in Seq(Span)
    <3>1. /\ segments' = [i \in 1..Len(speech) |-> Timed(speech[i])]
          /\ Len(speech) \in Nat
      BY <1>4 DEF Collect, Shape
    <3>2. \A i \in 1..Len(speech) : Timed(speech[i]) \in Span
      <4>1. 1..Len(speech) = DOMAIN speech
        BY DEF Shape
      <4> QED
        BY <4>1, TimedFact, SpeechElement
    <3> QED
      BY <3>1, <3>2
  <2> QED
    BY <1>4, <2>1 DEF Collect, Shape, choiceVars
<1>5. CASE Whole
  <2>1. PICK text \in Heard(vad) :
          /\ inputs' = Append(inputs, Input(samples, text))
          /\ result' = [result EXCEPT !.text = Trim(text)]
    BY <1>5 DEF Whole
  <2>2. text \in AllHeard
    BY DEF AllHeard, Shape
  <2>3. Input(samples, text) \in
          [leading : Nat, trailing : Nat, len : Nat, text : AllHeard]
    BY <2>2, InputFact DEF Shape
  <2>4. inputs' \in Seq([leading : Nat, trailing : Nat, len : Nat,
                         text : AllHeard])
    BY <2>1, <2>3 DEF Shape
  <2>5. /\ stage = "whole"
        /\ result = [text |-> result.text, segments |-> result.segments]
        /\ result.segments \in Seq(Reported(Trimmed))
    BY <1>5 DEF Whole, Shape
  <2>6. /\ result' = [text |-> result'.text, segments |-> result'.segments]
        /\ result'.segments \in Seq(Reported(Trimmed))
    BY <2>1, <2>5
  <2> QED
    BY <1>5, <2>4, <2>6 DEF Whole, Shape, choiceVars
<1>6. CASE Recognise
  BY <1>6, ShapeOfRecognise
<1>7. CASE Recognised
  <2>1. /\ stage = "recognise"
        /\ result = [text |-> result.text, segments |-> result.segments]
        /\ result.segments \in Seq(Reported(Trimmed))
    BY <1>7 DEF Recognised, Shape
  <2>2. /\ result' = [text |-> result'.text, segments |-> result'.segments]
        /\ result'.segments \in Seq(Reported(Trimmed))
    BY <1>7, <2>1 DEF Recognised
  <2> QED
    BY <1>7, <2>2 DEF Recognised, Shape, choiceVars
<1>8. CASE Postprocess
  <2>1. CASE stage' = "done" /\ result' = process_result(result, mode)
    <3>1. stage # "done" /\ mode \in Modes
      BY <1>8 DEF Postprocess, Shape
    <3>2. /\ result' = [text |-> result'.text, segments |-> result'.segments]
          /\ result'.segments \in Seq(Reported(Processed))
      BY <2>1, <3>1, ProcessKeepsSegments
    <3> QED
      BY <1>8, <2>1, <3>2 DEF Postprocess, Shape, choiceVars
  <2>2. CASE stage' = "failed" /\ UNCHANGED result
    BY <1>8, <2>2 DEF Postprocess, Shape, choiceVars
  <2> QED
    BY <1>8, <2>1, <2>2 DEF Postprocess
<1>9. CASE UNCHANGED vars
  BY <1>9 DEF vars, choiceVars, Shape
<1> QED
  BY <1>1, <1>2, <1>3, <1>4, <1>5, <1>6, <1>7, <1>8, <1>9 DEF Next

\* What is found depends on the directory and the registry.
LEMMA FoundKept ==
  ASSUME UNCHANGED <<dir, locked, intact, asked>>, NEW part
  PROVE  /\ Found(part)' = Found(part)
         /\ Validated(part, Found(part))' = Validated(part, Found(part))
<1>1. Found(part)' = Found(part)
  BY DEF Found, SelectInSeq
<1> QED
  BY <1>1 DEF Validated

\* The files that were resolved.
LEMMA ResolvedStep ==
  ASSUME RecognitionInv, [Next]_vars
  PROVE  Resolved'
<1>1. Resolved /\ Shape
  BY DEF RecognitionInv
<1>2. CASE Resolve
  <2>1. UNCHANGED <<dir, locked, intact, asked>> /\ stage = "resolve"
    BY <1>2 DEF Resolve, choiceVars
  <2>2. CASE stage' = "failed"
    BY <2>2 DEF Resolved
  <2>3. CASE stage' # "failed"
    <3>1. \A part \in Parts :
            /\ chosen'[part] = Found(part) /\ Found(part) # "none"
            /\ Validated(part, Found(part))
      BY <1>2, <2>3 DEF Resolve
    <3> QED
      BY <2>1, <3>1, FoundKept DEF Resolved
  <2> QED
    BY <2>2, <2>3
<1>3. CASE ~Resolve
  <2>1. UNCHANGED <<choiceVars, chosen>>
    BY <1>3 DEF Next, vars, Decode, Detect, Collect, Whole, Recognise,
                Recognised, Postprocess
  <2>2. stage' \notin {"resolve", "failed"} =>
          stage \notin {"resolve", "failed"}
    BY <1>3 DEF Next, vars, Decode, Detect, Collect, Whole, Recognise,
                Recognised, Postprocess
  <2> QED
    BY <1>1, <2>1, <2>2, FoundKept DEF Resolved, choiceVars
<1> QED
  BY <1>2, <1>3

\* What was detected.
LEMMA OrderedStep ==
  ASSUME RateAssumption, RecognitionInv, [Next]_vars
  PROVE  Ordered'
<1>1. Ordered /\ Shape /\ Progress
  BY DEF RecognitionInv
<1>2. CASE Detect /\ \E count \in 0..MaxSpeech :
                       speech' \in Intervals(Fed(samples), count)
  <2>1. PICK count \in 0..MaxSpeech : speech' \in Intervals(Fed(samples), count)
    BY <1>2
  <2>2. UNCHANGED samples
    BY <1>2 DEF Detect
  <2>3. DOMAIN speech' = 1..count
    BY <2>1 DEF Intervals
  <2>4. \A i \in 1..count :
          /\ speech'[i].start + speech'[i].len <= Fed(samples)
          /\ \A j \in 1..(i - 1) :
               speech'[j].start + speech'[j].len <= speech'[i].start
    BY <2>1 DEF Intervals
  <2> QED
    BY <2>2, <2>3, <2>4 DEF Ordered, Fed, pad_samples
<1>3. CASE Decode
  <2>1. speech' = <<>>
    BY <1>1, <1>3 DEF Decode, Progress
  <2> QED
    BY <2>1 DEF Ordered
<1>4. CASE UNCHANGED <<speech, samples>>
  BY <1>1, <1>4 DEF Ordered, Fed, pad_samples
<1>5. \/ Decode \/ UNCHANGED <<speech, samples>>
      \/ Detect /\ \E count \in 0..MaxSpeech :
                     speech' \in Intervals(Fed(samples), count)
  BY DEF Next, vars, Resolve, Detect, Collect, Whole, Recognise, Recognised,
         Postprocess
<1> QED
  BY <1>2, <1>3, <1>4, <1>5

\* How far the recognition is.
LEMMA ProgressStep ==
  ASSUME RateAssumption, RecognitionInv, [Next]_vars
  PROVE  Progress'
<1>1. Progress /\ Shape /\ RecognitionInv
  BY DEF RecognitionInv
<1>2. CASE Resolve
  BY <1>1, <1>2 DEF Resolve, Progress, choiceVars
<1>3. CASE Decode
  BY <1>1, <1>3 DEF Decode, Progress, choiceVars
<1>4. CASE Detect
  BY <1>1, <1>4 DEF Detect, Progress, choiceVars
<1>5. CASE Collect
  <2>1. /\ stage = "collect" /\ vad /\ inputs = <<>>
        /\ result.segments = <<>>
        /\ UNCHANGED <<vad, speech, inputs, result>>
        /\ stage' \in {"recognise", "postprocess"}
        /\ Len(speech) \in Nat /\ DOMAIN speech = 1..Len(speech)
        /\ segments' = [i \in 1..Len(speech) |-> Timed(speech[i])]
    BY <1>1, <1>5 DEF Collect, Progress, Shape, choiceVars
  <2>2. Len(inputs') = 0 /\ Len(segments') = Len(speech)
    BY <2>1
  <2>3. \A i \in DOMAIN segments' :
          segments'[i] = Timed(speech'[Len(inputs') + i])
    BY <2>1, <2>2
  <2>4. UNCHANGED pad_samples
    BY DEF pad_samples
  <2> QED
    BY <2>1, <2>2, <2>3 DEF Progress, Timed, pad_samples
<1>6. CASE Whole
  BY <1>1, <1>6 DEF Whole, Progress, Shape, choiceVars
<1>7. CASE Recognise
  <2>1. /\ vad /\ stage' = "recognise" /\ UNCHANGED <<vad, speech>>
    BY <1>1, <1>7, Appended DEF choiceVars
  <2>2. /\ segments' = Tail(segments) /\ segments # <<>>
        /\ Len(inputs') = Len(inputs) + 1 /\ Len(inputs) \in Nat
    BY <1>1, <1>7, Appended DEF Recognise, Shape
  <2>3. /\ stage = "recognise"
        /\ Len(inputs) + Len(segments) = Len(speech)
        /\ \A i \in DOMAIN segments :
             segments[i] = Timed(speech[Len(inputs) + i])
    BY <1>1, <1>7 DEF Recognise, Progress
  <2>4. /\ Len(segments) \in Nat /\ Len(segments') = Len(segments) - 1
        /\ DOMAIN segments = 1..Len(segments)
        /\ DOMAIN segments' = 1..(Len(segments) - 1)
        /\ \A i \in 1..(Len(segments) - 1) : segments'[i] = segments[i + 1]
    BY <1>1, <2>2 DEF Shape
  <2>5. Len(inputs') + Len(segments') = Len(speech)
    BY <2>2, <2>3, <2>4
  <2>6. \A i \in DOMAIN segments' :
          segments'[i] = Timed(speech[Len(inputs') + i])
    <3> SUFFICES ASSUME NEW i \in DOMAIN segments'
                 PROVE  segments'[i] = Timed(speech[Len(inputs') + i])
      OBVIOUS
    <3>1. i + 1 \in DOMAIN segments /\ segments'[i] = segments[i + 1]
      BY <2>4
    <3>2. segments[i + 1] = Timed(speech[Len(inputs) + (i + 1)])
      BY <2>3, <3>1
    <3>3. Len(inputs) + (i + 1) = Len(inputs') + i
      BY <2>2, <2>4
    <3> QED
      BY <3>1, <3>2, <3>3
  <2> QED
    BY <2>1, <2>5, <2>6 DEF Progress, Timed, pad_samples
<1>8. CASE Recognised
  BY <1>1, <1>8 DEF Recognised, Progress, choiceVars
<1>9. CASE Postprocess
  <2>1. DOMAIN result'.segments = DOMAIN result.segments
    <3>1. CASE result' = process_result(result, mode)
      BY <1>1, <1>9, <3>1, ProcessKeepsSegments DEF Postprocess, Shape
    <3> QED
      BY <1>9, <3>1 DEF Postprocess
  <2>2. ~vad => result'.segments = <<>>
    <3>1. ~vad => DOMAIN result'.segments = {}
      BY <1>1, <2>1 DEF Progress
    <3>2. PICK S : result'.segments \in Seq(S)
      <4>1. Shape'
        BY <1>9, ShapeStep DEF Next
      <4> QED
        BY <4>1 DEF Shape
    <3>3. /\ Len(result'.segments) \in Nat
          /\ DOMAIN result'.segments = 1..Len(result'.segments)
      BY <3>2
    <3>4. ~vad => Len(result'.segments) = 0
      <4>1. Len(result'.segments) # 0 => 1 \in DOMAIN result'.segments
        BY <3>3
      <4> QED
        BY <3>1, <4>1
    <3> QED
      BY <3>2, <3>4, EmptySeq
  <2> QED
    BY <1>9, <2>2 DEF Postprocess, Progress, choiceVars
<1>10. CASE UNCHANGED vars
  BY <1>1, <1>10 DEF vars, choiceVars, Progress, Timed, pad_samples
<1> QED
  BY <1>2, <1>3, <1>4, <1>5, <1>6, <1>7, <1>8, <1>9, <1>10 DEF Next

\* What the recogniser was given.
LEMMA SuppliedStep ==
  ASSUME RateAssumption, RecognitionInv, [Next]_vars
  PROVE  Supplied'
<1>1. Supplied /\ Shape /\ Progress
  BY DEF RecognitionInv
<1>2. CASE inputs = <<>> /\ UNCHANGED inputs /\ Shape'
  <2>1. inputs' = <<>> /\ Len(inputs') = 0 /\ DOMAIN inputs' = {}
    BY <1>2
  <2>2. Len(speech') \in Nat
    BY <1>2 DEF Shape
  <2> QED
    BY <2>1, <2>2 DEF Supplied
<1>3. CASE UNCHANGED <<vad, inputs, speech, samples>>
  BY <1>1, <1>3 DEF Supplied, Input, pad_for_decoder
<1>4. CASE Whole
  <2>1. PICK text \in Heard(vad) : inputs' = Append(inputs, Input(samples, text))
    BY <1>4 DEF Whole
  <2>2. /\ inputs = <<>> /\ ~vad /\ UNCHANGED <<vad, samples>>
        /\ samples \in Nat
    BY <1>1, <1>4 DEF Whole, Progress, Shape, choiceVars
  <2>3. DOMAIN inputs' = {1} /\ inputs'[1] = Input(samples, text)
    BY <2>1, <2>2
  <2>4. /\ inputs'[1] = Input(inputs'[1].len, inputs'[1].text)
        /\ inputs'[1].len = samples
    BY <2>2, <2>3, InputFact
  <2> QED
    BY <2>2, <2>3, <2>4 DEF Supplied, Input, pad_for_decoder
<1>5. CASE Recognise
  <2> DEFINE k == Len(inputs) + 1
  <2>1. PICK text \in AllHeard :
          inputs' = Append(inputs, Input(speech[k].len, text))
    BY <1>5, Appended
  <2>2. vad /\ k \in DOMAIN speech /\ UNCHANGED <<vad, speech>>
    BY <1>5, Appended DEF choiceVars
  <2>3. /\ Len(inputs) \in Nat /\ DOMAIN inputs = 1..Len(inputs)
        /\ Len(speech) \in Nat /\ DOMAIN speech = 1..Len(speech)
    BY <1>1 DEF Shape
  <2>4. /\ Len(inputs') = k /\ DOMAIN inputs' = 1..k
        /\ \A i \in 1..Len(inputs) : inputs'[i] = inputs[i]
        /\ inputs'[k] = Input(speech[k].len, text)
    BY <1>1, <2>1 DEF Shape
  <2>5. /\ inputs'[k] = Input(inputs'[k].len, inputs'[k].text)
        /\ inputs'[k].len = speech[k].len
    <3>1. speech[k].len \in Nat
      BY <1>1, <2>2, SpeechElement
    <3> QED
      BY <2>4, <3>1, InputFact
  <2>6. \A i \in 1..k :
          /\ inputs'[i] = Input(inputs'[i].len, inputs'[i].text)
          /\ inputs'[i].len = speech[i].len
    <3> SUFFICES ASSUME NEW i \in 1..k
                 PROVE  /\ inputs'[i] = Input(inputs'[i].len, inputs'[i].text)
                        /\ inputs'[i].len = speech[i].len
      OBVIOUS
    <3>1. CASE i = k
      BY <2>5, <3>1
    <3>2. CASE i # k
      <4>1. i \in DOMAIN inputs /\ inputs'[i] = inputs[i]
        BY <2>3, <2>4, <3>2
      <4> QED
        BY <1>1, <2>2, <4>1 DEF Supplied
    <3> QED
      BY <3>1, <3>2
  <2> QED
    BY <2>2, <2>3, <2>4, <2>6 DEF Supplied, Input, pad_for_decoder
<1>6. (inputs = <<>> /\ UNCHANGED inputs) \/ UNCHANGED <<vad, inputs, speech, samples>>
      \/ Whole \/ Recognise
  BY <1>1 DEF Next, vars, choiceVars, Resolve, Decode, Detect, Collect,
              Recognised, Postprocess, Progress
<1> QED
  BY <1>2, <1>3, <1>4, <1>5, <1>6, ShapeStep

\* Speech that was detected later starts later, and is reported to.
LEMMA TimedInOrder ==
  ASSUME RateAssumption, Shape, Ordered,
         NEW i \in DOMAIN speech, NEW j \in DOMAIN speech, i < j
  PROVE  Timed(speech[i]).start <= Timed(speech[j]).start
<1>1. /\ speech[i] \in [start : Nat, len : Nat \ {0}]
      /\ speech[j] \in [start : Nat, len : Nat \ {0}]
  BY SpeechElement
<1>2. i \in 1..(j - 1)
  <2>1. DOMAIN speech = 1..Len(speech) /\ Len(speech) \in Nat
    BY DEF Shape
  <2> QED
    BY <2>1
<1>3. speech[i].start + speech[i].len <= speech[j].start
  BY <1>2 DEF Ordered
<1>4. pad_samples \in Nat
  BY FedWithin DEF Shape
<1> QED
  BY <1>1, <1>3, <1>4, TimedFact

\* Every reported segment is one that was recognised.
LEMMA FromSpeechStep ==
  ASSUME RateAssumption, RecognitionInv, [Next]_vars
  PROVE  FromSpeech'
<1>1. FromSpeech /\ Shape /\ Progress /\ Ordered
  BY DEF RecognitionInv
<1>2. CASE result.segments = <<>> /\ result'.segments = <<>>
  BY <1>2 DEF FromSpeech
<1>3. CASE /\ UNCHANGED <<speech, inputs>>
           /\ DOMAIN result'.segments = DOMAIN result.segments
           /\ \A i \in DOMAIN result'.segments :
                /\ result'.segments[i].start = result.segments[i].start
                /\ result'.segments[i].end = result.segments[i].end
  BY <1>1, <1>3 DEF FromSpeech, Timed, pad_samples
<1>4. CASE Recognise
  <2> DEFINE k == Len(inputs) + 1
             timed == Timed(speech[k])
  <2>1. /\ UNCHANGED speech /\ k \in DOMAIN speech
        /\ Len(inputs) \in Nat /\ Len(inputs') = k
    <3>1. UNCHANGED speech /\ k \in DOMAIN speech
      BY <1>4, Appended
    <3>2. \E input : inputs' = Append(inputs, input)
      BY <1>4, Appended
    <3>3. Len(inputs) \in Nat /\ Len(inputs') = k
      BY <1>1, <3>2 DEF Shape
    <3> QED
      BY <3>1, <3>3
  <2>2. /\ Len(result.segments) \in Nat
        /\ DOMAIN result.segments = 1..Len(result.segments)
        /\ result.segments \in Seq(Reported(Trimmed))
    BY <1>1, <1>4 DEF Shape, Recognise
  <2>3. CASE UNCHANGED result
    BY <1>1, <2>1, <2>3 DEF FromSpeech, Timed, pad_samples
  <2>4. CASE \E text : result'.segments =
                         Append(result.segments,
                                [start |-> timed.start, end |-> timed.end,
                                 text |-> text])
    <3> DEFINE m == Len(result.segments) + 1
               new == result'.segments
    <3>1. PICK text : new = Append(result.segments,
                                   [start |-> timed.start, end |-> timed.end,
                                    text |-> text])
      BY <2>4
    <3>2. /\ DOMAIN new = 1..m
          /\ \A i \in 1..(m - 1) : new[i] = result.segments[i]
          /\ new[m].start = timed.start /\ new[m].end = timed.end
      BY <2>2, <3>1
    <3> HIDE DEF new, timed
    <3>3. \A i \in 1..(m - 1) : \E l \in 1..Len(inputs) :
            /\ l \in DOMAIN speech
            /\ new[i].start = Timed(speech[l]).start
            /\ new[i].end = Timed(speech[l]).end
      BY <1>1, <2>2, <3>2 DEF FromSpeech
    <3>4. \A i \in 1..(m - 1) : new[i].start <= new[m].start
      <4> SUFFICES ASSUME NEW i \in 1..(m - 1)
                   PROVE  new[i].start <= new[m].start
        OBVIOUS
      <4>1. PICK l \in 1..Len(inputs) :
              l \in DOMAIN speech /\ new[i].start = Timed(speech[l]).start
        BY <3>3
      <4>2. l < k
        BY <2>1
      <4>3. Timed(speech[l]).start <= Timed(speech[k]).start
        BY <1>1, <2>1, <4>1, <4>2, TimedInOrder
      <4> QED
        BY <3>2, <4>1, <4>3 DEF timed
    <3>5. \A i \in 1..m : \E l \in 1..Len(inputs') :
            /\ l \in DOMAIN speech
            /\ new[i].start = Timed(speech[l]).start
            /\ new[i].end = Timed(speech[l]).end
      <4> SUFFICES ASSUME NEW i \in 1..m
                   PROVE  \E l \in 1..Len(inputs') :
                            /\ l \in DOMAIN speech
                            /\ new[i].start = Timed(speech[l]).start
                            /\ new[i].end = Timed(speech[l]).end
        OBVIOUS
      <4>1. CASE i = m
        <5>1. k \in 1..Len(inputs')
          BY <2>1
        <5> QED
          BY <2>1, <3>2, <4>1, <5>1 DEF timed
      <4>2. CASE i # m
        <5>1. i \in 1..(m - 1) /\ 1..Len(inputs) \subseteq 1..Len(inputs')
          BY <2>1, <2>2, <4>2
        <5> QED
          BY <3>3, <5>1
      <4> QED
        BY <4>1, <4>2
    <3>6. \A i, j \in 1..m : i < j => new[i].start <= new[j].start
      <4> SUFFICES ASSUME NEW i \in 1..m, NEW j \in 1..m, i < j
                   PROVE  new[i].start <= new[j].start
        OBVIOUS
      <4>1. i \in 1..(m - 1)
        BY <2>2
      <4>2. CASE j = m
        BY <3>4, <4>1, <4>2
      <4>3. CASE j # m
        <5>1. j \in 1..(m - 1) /\ i \in DOMAIN result.segments
              /\ j \in DOMAIN result.segments
          BY <2>2, <4>1, <4>3
        <5>2. result.segments[i].start <= result.segments[j].start
          BY <1>1, <5>1 DEF FromSpeech
        <5> QED
          BY <3>2, <4>1, <5>1, <5>2
      <4> QED
        BY <4>2, <4>3
    <3> QED
      BY <2>1, <3>2, <3>5, <3>6 DEF FromSpeech, Timed, pad_samples, new
  <2> QED
    BY <1>4, <2>3, <2>4, Appended
<1>5. CASE Postprocess
  <2>1. CASE result' = process_result(result, mode)
    <3>1. stage # "done" /\ mode \in Modes /\ UNCHANGED <<speech, inputs>>
      BY <1>1, <1>5 DEF Postprocess, Shape
    <3> QED
      BY <1>1, <1>3, <2>1, <3>1, ProcessKeepsSegments
  <2>2. CASE UNCHANGED result
    BY <1>1, <1>3, <1>5, <2>2 DEF Postprocess
  <2> QED
    BY <1>5, <2>1, <2>2 DEF Postprocess
<1>6. \/ result.segments = <<>> /\ result'.segments = <<>>
      \/ UNCHANGED <<speech, inputs, result>>
      \/ Recognised \/ Recognise \/ Postprocess
  <2>1. CASE Whole
    <3>1. result.segments = <<>>
      BY <1>1, <2>1 DEF Whole, Progress
    <3>2. result'.segments = result.segments
      BY <1>1, <2>1 DEF Whole, Shape
    <3> QED
      BY <3>1, <3>2
  <2> QED
    BY <1>1, <2>1 DEF Next, vars, Resolve, Decode, Detect, Collect, Progress
<1>7. CASE Recognised
  <2>1. result'.segments = result.segments /\ UNCHANGED <<speech, inputs>>
    BY <1>1, <1>7 DEF Recognised, Shape
  <2> QED
    BY <1>3, <2>1
<1> QED
  BY <1>2, <1>3, <1>4, <1>5, <1>6, <1>7

\* The invariant of every reachable state.
LEMMA InvAlways == RateAssumption => (Spec => []RecognitionInv)
<1> SUFFICES ASSUME RateAssumption PROVE Spec => []RecognitionInv
  OBVIOUS
<1>1. Init => RecognitionInv
  BY InvInitially
<1>2. RecognitionInv /\ [Next]_vars => RecognitionInv'
  <2> SUFFICES ASSUME RecognitionInv, [Next]_vars PROVE RecognitionInv'
    OBVIOUS
  <2> QED
    BY ShapeStep, ResolvedStep, OrderedStep, ProgressStep, SuppliedStep,
       FromSpeechStep DEF RecognitionInv
<1> QED
  BY <1>1, <1>2, PTL DEF Spec
-----------------------------------------------------------------------------
(* The texts: what is heard reaches the answer.                            *)

ListWords(list) == FlattenSeq([i \in DOMAIN list |-> Words(list[i].text)])
InputWords == ListWords(inputs)
SegmentWords == ListWords(result.segments)

\* The rest of the types.
Typed ==
  /\ chosen \in [Parts -> NameSet \cup {"none"}]
  /\ samples \in 0..MaxSamples
  /\ result.text \in Texts

\* Until the text is processed, the segments or the text have the words that
\* were heard.
Told ==
  /\ stage \notin {"postprocess", "done", "failed"} => result.text = <<>>
  /\ stage = "recognise" \/ (stage = "postprocess" /\ result.segments # <<>>)
       => InputWords = SegmentWords
  /\ stage = "postprocess" /\ result.segments = <<>>
       => InputWords = Words(result.text)

TextInv == Typed /\ Told /\ AnswerReadsAsSegments /\ WordsKept

Given == RateAssumption /\ HeardAssumption
-----------------------------------------------------------------------------
(* The words of a text, of the inputs, and of the segments.                *)

LEMMA WordsAre ==
  /\ \A t \in Texts : Words(t) = Mapped(WordFn, Split(nfc(t), Whitespace))
  /\ \A t \in Texts : Words(t) \in Seq(Texts)
  /\ Words(<<>>) = <<>>
  /\ \A t \in Texts : Trim(t) \in Texts /\ Words(Trim(t)) = Words(t)
  /\ \A t \in Texts : WordsAt({"sp"})[finalize_text(t)] = Words(t)
<1>1. ASSUME NEW t \in Texts
      PROVE  /\ Words(t) = Mapped(WordFn, Split(nfc(t), Whitespace))
             /\ Words(t) \in Seq(Texts)
  <2> DEFINE split == Split(nfc(t), Whitespace)
             Visible(word) ==
               FlattenSeq([i \in DOMAIN word |->
                 IF word[i] \in Removed \cup Control THEN <<>> ELSE <<word[i]>>])
             shown == [i \in DOMAIN split |-> Visible(split[i])]
  <2>1. Words(t) = FlattenSeq([i \in DOMAIN shown |->
                     IF shown[i] = <<>> THEN <<>> ELSE <<nfc(shown[i])>>])
    BY DEF Words
  <2>2. ASSUME NEW word \in Texts PROVE Visible(word) = Shown(word)
    <3>1. /\ DOMAIN word = 1..Len(word)
          /\ \A i \in 1..Len(word) : word[i] \in Characters
      BY ElementOfSeq, LenProperties DEF Texts
    <3>2. \A i \in DOMAIN word :
            ShowFn[word[i]] = IF word[i] \in Removed \cup Control THEN <<>>
                              ELSE <<word[i]>>
      BY <3>1 DEF ShowFn
    <3>3. [i \in DOMAIN word |-> ShowFn[word[i]]] =
            [i \in DOMAIN word |-> IF word[i] \in Removed \cup Control THEN <<>>
                                   ELSE <<word[i]>>]
      BY <3>2
    <3> QED
      BY <3>3 DEF Shown, Mapped
  <2>3. split \in Seq(Texts)
    BY NfcSteps, SplitSteps
  <2> HIDE DEF split, Visible
  <2>4. \A i \in DOMAIN split : split[i] \in Texts
    BY <2>3, ElementOfSeq, LenProperties
  <2>5. \A i \in DOMAIN split :
          WordFn[split[i]] = IF shown[i] = <<>> THEN <<>> ELSE <<nfc(shown[i])>>
    BY <2>2, <2>4 DEF WordFn
  <2>6. [i \in DOMAIN split |-> WordFn[split[i]]] =
          [i \in DOMAIN shown |-> IF shown[i] = <<>> THEN <<>> ELSE <<nfc(shown[i])>>]
    BY <2>5
  <2>7. Words(t) = Mapped(WordFn, split)
    BY <2>1, <2>6 DEF Mapped
  <2>8. Mapped(WordFn, split) \in Seq(Texts)
    BY <2>3, WordFnFacts, MappedSteps
  <2> QED
    BY <2>7, <2>8 DEF split
<1>2. <<>> \in Texts
  BY EmptySeq DEF Texts
<1>3. Words(<<>>) = <<>>
  <2>1. Split(nfc(<<>>), Whitespace) = <<>>
    BY <1>2, WordsTyped
  <2> QED
    BY <1>1, <1>2, <2>1, WordFnFacts, MappedSteps
<1>4. \A t \in Texts : Trim(t) \in Texts /\ Words(Trim(t)) = Words(t)
  BY <1>1, WordsTrimmed, WordsTyped
<1>5. \A t \in Texts : WordsAt({"sp"})[finalize_text(t)] = Words(t)
  BY <1>1, FinalizeKeepsWords
<1> QED
  BY <1>1, <1>3, <1>4, <1>5

\* Records with a text, one after another.
WordsOf(R) == [r \in R |-> Words(r.text)]

LEMMA WordsOfList ==
  ASSUME NEW R, \A r \in R : r.text \in Texts
  PROVE  /\ Gives(WordsOf(R), R, Texts)
         /\ \A list \in Seq(R) : ListWords(list) = Mapped(WordsOf(R), list)
         /\ ListWords(<<>>) = <<>>
         /\ \A list \in Seq(R) : ListWords(list) \in Seq(Texts)
         /\ \A list \in Seq(R), r \in R :
              ListWords(Append(list, r)) = ListWords(list) \o Words(r.text)
<1>1. Gives(WordsOf(R), R, Texts)
  BY WordsAre DEF WordsOf, Gives
<1>2. ASSUME NEW list \in Seq(R)
      PROVE  ListWords(list) = Mapped(WordsOf(R), list)
  <2>1. \A i \in DOMAIN list : list[i] \in R
    BY ElementOfSeq, LenProperties
  <2>2. [i \in DOMAIN list |-> Words(list[i].text)] =
          [i \in DOMAIN list |-> WordsOf(R)[list[i]]]
    BY <2>1 DEF WordsOf
  <2> QED
    BY <2>2 DEF Mapped, ListWords
<1>3. \A list \in Seq(R), r \in R :
        /\ Append(list, r) \in Seq(R)
        /\ Mapped(WordsOf(R), list) \in Seq(Texts)
        /\ Mapped(WordsOf(R), Append(list, r)) =
             Mapped(WordsOf(R), list) \o WordsOf(R)[r]
  BY <1>1, MappedSteps, AppendProperties
<1>4. ListWords(<<>>) = <<>>
  <2>1. <<>> \in Seq(R)
    BY EmptySeq
  <2> QED
    BY <1>1, <1>2, <2>1, MappedSteps
<1>5. \A r \in R : WordsOf(R)[r] = Words(r.text)
  BY DEF WordsOf
<1>6. \A list \in Seq(R) : ListWords(list) \in Seq(Texts)
  BY <1>1, <1>2, MappedSteps
<1>7. \A list \in Seq(R), r \in R :
        ListWords(Append(list, r)) = ListWords(list) \o Words(r.text)
  BY <1>2, <1>3, <1>5
<1> QED
  BY <1>1, <1>2, <1>4, <1>6, <1>7
-----------------------------------------------------------------------------
(* The invariant of the texts.                                             *)

InputRecord == [leading : Nat, trailing : Nat, len : Nat, text : Texts]

\* What is heard, trimmed and processed is text.
LEMMA TextTypes ==
  ASSUME HeardAssumption, Shape
  PROVE  /\ AllHeard \subseteq Texts
         /\ inputs \in Seq(InputRecord)
         /\ result = [text |-> result.text, segments |-> result.segments]
         /\ result.segments \in Seq(Reported(Texts))
<1>1. AllHeard \subseteq Texts
  BY DEF AllHeard, HeardAssumption
<1>2. Trimmed \subseteq Texts
  BY <1>1, WordsAre DEF Trimmed
<1>3. Processed \subseteq Texts
  BY <1>2, ProcessedTyped DEF Processed
<1>4. inputs \in Seq(InputRecord)
  <2> DEFINE S == [leading : Nat, trailing : Nat, len : Nat, text : AllHeard]
  <2>1. inputs \in Seq(S) /\ S \subseteq InputRecord
    BY <1>1 DEF Shape, InputRecord
  <2> HIDE DEF S
  <2> QED
    BY <2>1, SeqMonotonic
<1>5. result.segments \in Seq(Reported(Texts))
  <2> DEFINE S == Reported(IF stage = "done" THEN Processed ELSE Trimmed)
  <2>1. result.segments \in Seq(S) /\ S \subseteq Reported(Texts)
    BY <1>2, <1>3 DEF Shape, Reported
  <2> HIDE DEF S
  <2> QED
    BY <2>1, SeqMonotonic
<1> QED
  BY <1>1, <1>4, <1>5 DEF Shape

\* The text of a processed result.
LEMMA ResultText ==
  ASSUME NEW m \in Modes, NEW r, r = [text |-> r.text, segments |-> r.segments],
         r.text \in Texts, r.segments \in Seq(Reported(Texts))
  PROVE  LET after == process_result(r, m)
             texts == [i \in DOMAIN r.segments |-> process_text(m, r.segments[i].text)]
         IN
         /\ after.text \in Texts
         /\ texts \in Seq(Texts)
         /\ r.segments = <<>> =>
              /\ after.segments = <<>>
              /\ after.text = process_text(m, r.text)
         /\ r.segments # <<>> =>
              /\ after.text = combine_segment_texts(m, texts)
              /\ DOMAIN after.segments = DOMAIN r.segments
              /\ \A i \in DOMAIN r.segments :
                   /\ r.segments[i].text \in Texts
                   /\ after.segments[i].text = texts[i]
<1> DEFINE after == process_result(r, m)
           list == r.segments
           n == Len(list)
           texts == [i \in DOMAIN list |-> process_text(m, list[i].text)]
<1>1. n \in Nat /\ DOMAIN list = 1..n /\ \A i \in 1..n : list[i] \in Reported(Texts)
  BY ElementOfSeq, LenProperties
<1>2. \A i \in 1..n : list[i].text \in Texts
  BY <1>1 DEF Reported
<1>3. texts \in Seq(Texts)
  <2>1. texts = [i \in 1..n |-> texts[i]] /\ \A i \in 1..n : texts[i] \in Texts
    BY <1>1, <1>2, ProcessedTyped
  <2> HIDE DEF texts, list, n
  <2> QED
    BY <1>1, <2>1, ListIsSequence
<1>4. CASE list = <<>>
  <2>1. after = [text |-> process_text(m, r.text), segments |-> <<>>]
    BY <1>4 DEF process_result
  <2>2. process_text(m, r.text) \in Texts
    BY ProcessedTyped
  <2> HIDE DEF after, texts
  <2> QED
    BY <1>3, <1>4, <2>1, <2>2 DEF after, texts
<1>5. CASE list # <<>>
  <2> DEFINE new == [i \in DOMAIN list |-> [list[i] EXCEPT !.text = texts[i]]]
  <2>1. after = [text |-> combine_segment_texts(m, texts), segments |-> new]
    <3>1. after = [r EXCEPT !.text = combine_segment_texts(m, texts), !.segments = new]
      BY <1>5 DEF process_result
    <3> HIDE DEF after, new, texts
    <3> QED
      BY <3>1
  <2>2. combine_segment_texts(m, texts) \in Texts
    <3> HIDE DEF texts
    <3> QED
      BY <1>3, CombinedTyped
  <2>3. \A i \in DOMAIN list : new[i].text = texts[i]
    <3> HIDE DEF texts
    <3> QED
      BY <1>1 DEF Reported
  <2>4. DOMAIN new = DOMAIN list
    OBVIOUS
  <2> HIDE DEF after, new
  <2>5. /\ after.text = combine_segment_texts(m, texts)
        /\ after.segments = new
    BY <2>1
  <2> QED
    BY <1>1, <1>2, <1>3, <1>5, <2>2, <2>3, <2>4, <2>5 DEF after
<1> QED
  BY <1>4, <1>5

LEMMA TypedStep ==
  ASSUME Given, RecognitionInv, Typed, Told, [Next]_vars
  PROVE  Typed'
<1>0. /\ Shape /\ HeardAssumption /\ result.text \in Texts
      /\ AllHeard \subseteq Texts /\ result.segments \in Seq(Reported(Texts))
      /\ result = [text |-> result.text, segments |-> result.segments]
  BY TextTypes DEF RecognitionInv, Given, Typed
<1> USE DEF Typed
<1>1. CASE Resolve
  <2>1. \A part \in Parts : Found(part) \in NameSet \cup {"none"}
    <3>1. \A part \in Parts : dir[part] \subseteq NameSet
      BY <1>0 DEF Shape
    <3> QED
      BY <3>1, FoundIsFirst
  <2> QED
    BY <1>1, <2>1 DEF Resolve
<1>2. CASE Decode
  <2>1. MaxSamples \in Nat
    BY DEF Given, RateAssumption
  <2> QED
    BY <1>2, <2>1 DEF Decode
<1>3. CASE Detect
  BY <1>3 DEF Detect
<1>4. CASE Collect
  BY <1>4 DEF Collect
<1>5. CASE Whole
  <2>1. PICK text \in Heard(vad) : result' = [result EXCEPT !.text = Trim(text)]
    BY <1>5 DEF Whole
  <2>2. text \in Texts
    BY <1>0 DEF AllHeard, Shape
  <2>3. Trim(text) \in Texts /\ result'.text = Trim(text)
    BY <1>0, <2>1, <2>2, WordsAre
  <2> QED
    BY <1>5, <2>3 DEF Whole
<1>6. CASE Recognise
  <2>1. result'.text = result.text
    BY <1>0, <1>6 DEF Recognise
  <2> QED
    BY <1>6, <2>1 DEF Recognise
<1>7. CASE Recognised
  <2> DEFINE texts == [i \in DOMAIN result.segments |-> result.segments[i].text]
             list == result.segments
             n == Len(list)
  <2>1. texts \in Seq(Texts)
    <3>1. n \in Nat /\ DOMAIN list = 1..n /\ \A i \in 1..n : list[i] \in Reported(Texts)
      BY <1>0, ElementOfSeq, LenProperties
    <3>2. texts = [i \in 1..n |-> texts[i]] /\ \A i \in 1..n : texts[i] \in Texts
      BY <3>1 DEF Reported
    <3> HIDE DEF texts, list, n
    <3> QED
      BY <3>1, <3>2, ListIsSequence
  <2>2. result'.text = Join(texts)
    BY <1>0, <1>7 DEF Recognised
  <2>3. Join(texts) \in Texts
    <3> HIDE DEF texts
    <3> QED
      BY <2>1, JoinSteps
  <2> QED
    BY <1>7, <2>2, <2>3 DEF Recognised
<1>8. CASE Postprocess
  <2>1. CASE result' = process_result(result, mode)
    <3>1. mode \in Modes
      BY <1>0 DEF Shape
    <3>2. result'.text \in Texts
      BY <1>0, <2>1, <3>1, ResultText
    <3> QED
      BY <1>8, <3>2 DEF Postprocess
  <2>2. CASE UNCHANGED result
    BY <1>8, <2>2 DEF Postprocess
  <2> QED
    BY <1>8, <2>1, <2>2 DEF Postprocess
<1>9. CASE UNCHANGED vars
  BY <1>9 DEF vars
<1> QED
  BY <1>1, <1>2, <1>3, <1>4, <1>5, <1>6, <1>7, <1>8, <1>9 DEF Next

LEMMA ToldStep ==
  ASSUME Given, RecognitionInv, Typed, Told, [Next]_vars
  PROVE  Told'
<1>0. /\ Shape /\ Progress /\ result.text \in Texts
      /\ AllHeard \subseteq Texts /\ inputs \in Seq(InputRecord)
      /\ result.segments \in Seq(Reported(Texts))
      /\ result = [text |-> result.text, segments |-> result.segments]
  BY TextTypes DEF RecognitionInv, Given, Typed
<1>a. /\ \A r \in InputRecord : r.text \in Texts
      /\ \A r \in Reported(Texts) : r.text \in Texts
  BY DEF InputRecord, Reported
<1>b. ListWords(<<>>) = <<>> /\ Words(<<>>) = <<>>
  BY <1>a, WordsOfList, WordsAre
<1>1. CASE Resolve \/ Decode \/ Detect
  <2>1. stage \in {"resolve", "decode", "detect"} /\ UNCHANGED result
        /\ stage' \in {"decode", "detect", "whole", "collect", "failed"}
    BY <1>1 DEF Resolve, Decode, Detect
  <2> QED
    BY <2>1 DEF Told
<1>2. CASE Collect
  <2>1. /\ stage = "collect" /\ inputs = <<>> /\ result.segments = <<>>
        /\ UNCHANGED <<inputs, result>> /\ stage' \in {"recognise", "postprocess"}
    BY <1>0, <1>2 DEF Collect, Progress
  <2>2. result.text = <<>>
    BY <2>1 DEF Told
  <2>3. inputs' = <<>> /\ result'.segments = <<>> /\ result'.text = <<>>
    BY <2>1, <2>2
  <2> QED
    BY <1>b, <2>1, <2>3 DEF Told, InputWords, SegmentWords
<1>3. CASE Whole
  <2>1. PICK text \in Heard(vad) :
          /\ inputs' = Append(inputs, Input(samples, text))
          /\ result' = [result EXCEPT !.text = Trim(text)]
    BY <1>3 DEF Whole
  <2>2. text \in Texts
    BY <1>0 DEF AllHeard, Shape
  <2> DEFINE input == Input(samples, text)
  <2>3. input \in InputRecord /\ input.text = text
    BY <1>0, <2>2, InputFact DEF Given, Shape, InputRecord
  <2>4. /\ inputs = <<>> /\ result.segments = <<>> /\ stage' = "postprocess"
        /\ result'.text = Trim(text) /\ result'.segments = <<>>
    BY <1>0, <1>3, <2>1 DEF Whole, Progress
  <2> HIDE DEF input
  <2>5. ListWords(inputs') = ListWords(inputs) \o Words(text)
    BY <1>0, <1>a, <2>1, <2>3, WordsOfList DEF input
  <2>6. ListWords(inputs') = Words(Trim(text))
    <3>1. Words(text) \in Seq(Texts) /\ Words(Trim(text)) = Words(text)
      BY <2>2, WordsAre
    <3>2. <<>> \o Words(text) = Words(text)
      BY <3>1, ConcatEmptySeq
    <3> QED
      BY <1>b, <2>4, <2>5, <3>1, <3>2
  <2> QED
    BY <2>4, <2>6 DEF Told, InputWords
<1>4. CASE Recognise
  <2> DEFINE segment == Head(segments)
             report(text) == [start |-> segment.start, end |-> segment.end,
                              text |-> Trim(text)]
  <2>1. PICK text \in Heard(vad) :
          /\ inputs' = Append(inputs, Input(segment.len, text))
          /\ result' = IF Trim(text) = <<>> THEN result
                       ELSE [result EXCEPT !.segments = Append(@, report(text))]
    BY <1>4 DEF Recognise
  <2>2. text \in Texts
    BY <1>0 DEF AllHeard, Shape
  <2>3. segment \in Span
    BY <1>0, <1>4 DEF Recognise, Shape
  <2> DEFINE input == Input(segment.len, text)
  <2>4. input \in InputRecord /\ input.text = text
    BY <1>0, <2>2, <2>3, InputFact DEF Given, InputRecord, Span
  <2>5. Trim(text) \in Texts /\ Words(Trim(text)) = Words(text)
        /\ Words(text) \in Seq(Texts)
    BY <2>2, WordsAre
  <2>6. report(text) \in Reported(Texts) /\ report(text).text = Trim(text)
    BY <2>3, <2>5 DEF Reported, Span
  <2>7. stage = "recognise" /\ stage' = "recognise"
        /\ ListWords(inputs) = ListWords(result.segments)
        /\ result.text = <<>>
    BY <1>4 DEF Recognise, Told, InputWords, SegmentWords
  <2> HIDE DEF input, report, segment
  <2>8. ListWords(inputs') = ListWords(inputs) \o Words(text)
    BY <1>0, <1>a, <2>1, <2>4, WordsOfList DEF input
  <2>9. result'.text = <<>> /\ ListWords(inputs') = ListWords(result'.segments)
    <3>1. CASE Trim(text) = <<>>
      <4>1. Words(text) = <<>> /\ result' = result
        BY <1>b, <2>1, <2>5, <3>1
      <4>2. ListWords(inputs) \in Seq(Texts)
        BY <1>0, <1>a, WordsOfList
      <4>3. ListWords(inputs) \o <<>> = ListWords(inputs)
        BY <4>2, ConcatEmptySeq
      <4> QED
        BY <2>7, <2>8, <4>1, <4>3
    <3>2. CASE Trim(text) # <<>>
      <4>1. result'.text = result.text
            /\ result'.segments = Append(result.segments, report(text))
        BY <1>0, <2>1, <3>2
      <4>2. ListWords(Append(result.segments, report(text))) =
              ListWords(result.segments) \o Words(report(text).text)
        <5> DEFINE list == result.segments
        <5>1. list \in Seq(Reported(Texts))
          BY <1>0
        <5> HIDE DEF list
        <5>2. ListWords(Append(list, report(text))) =
                ListWords(list) \o Words(report(text).text)
          BY <1>a, <2>6, <5>1, WordsOfList
        <5> QED
          BY <5>2 DEF list
      <4> QED
        BY <2>5, <2>6, <2>7, <2>8, <4>1, <4>2
    <3> QED
      BY <3>1, <3>2
  <2> QED
    BY <2>7, <2>9 DEF Told, InputWords, SegmentWords
<1>5. CASE Recognised
  <2>1. /\ stage = "recognise" /\ stage' = "postprocess" /\ UNCHANGED inputs
        /\ ListWords(inputs) = ListWords(result.segments)
    BY <1>5 DEF Recognised, Told, InputWords, SegmentWords
  <2>2. /\ result'.segments = result.segments
        /\ result'.text = Join([i \in DOMAIN result.segments |->
                                  result.segments[i].text])
    BY <1>0, <1>5 DEF Recognised
  <2>3. ASSUME result.segments = <<>> PROVE result'.text = <<>>
    <3>1. [i \in DOMAIN result.segments |-> result.segments[i].text] = <<>>
      BY <2>3
    <3> QED
      BY <2>2, <3>1, JoinSteps
  <2> QED
    BY <1>b, <2>1, <2>2, <2>3 DEF Told, InputWords, SegmentWords
<1>6. CASE Postprocess
  BY <1>6 DEF Postprocess, Told
<1>7. CASE UNCHANGED vars
  BY <1>7 DEF vars, Told, InputWords, SegmentWords
<1> QED
  BY <1>1, <1>2, <1>3, <1>4, <1>5, <1>6, <1>7 DEF Next

\* Only postprocessing ends a recognition.
LEMMA DoneStep ==
  ASSUME [Next]_vars, stage' = "done"
  PROVE  \/ /\ Postprocess /\ stage = "postprocess"
            /\ result' = process_result(result, mode)
            /\ UNCHANGED <<mode, inputs>>
         \/ UNCHANGED vars
BY DEF Next, Resolve, Decode, Detect, Collect, Whole, Recognise, Recognised,
       Postprocess, choiceVars

LEMMA AnswerStep ==
  ASSUME Given, RecognitionInv, TextInv, [Next]_vars
  PROVE  AnswerReadsAsSegments'
<1>1. CASE UNCHANGED vars
  BY <1>1 DEF vars, TextInv, AnswerReadsAsSegments
<1>2. CASE stage' # "done"
  BY <1>2 DEF AnswerReadsAsSegments
<1>3. CASE stage' = "done" /\ result' = process_result(result, mode)
  <2> DEFINE texts == [i \in DOMAIN result.segments |->
                         process_text(mode, result.segments[i].text)]
             after == process_result(result, mode)
             Reading == FlattenSeq([i \in DOMAIN after.segments |->
                           Split(nfc(after.segments[i].text), Whitespace)])
  <2>1. /\ mode \in Modes /\ result.text \in Texts
        /\ result.segments \in Seq(Reported(Texts))
        /\ result = [text |-> result.text, segments |-> result.segments]
    BY TextTypes DEF RecognitionInv, Given, TextInv, Typed, Shape
  <2>2. ASSUME after.segments # <<>>
        PROVE  Split(nfc(after.text), Whitespace) = Reading
    <3>1. /\ after.text \in Texts /\ texts \in Seq(Texts)
          /\ result.segments # <<>>
          /\ after.text = combine_segment_texts(mode, texts)
          /\ DOMAIN after.segments = DOMAIN result.segments
          /\ \A i \in DOMAIN result.segments :
               /\ result.segments[i].text \in Texts
               /\ after.segments[i].text = texts[i]
      BY <2>1, <2>2, ResultText
    <3>2. /\ DOMAIN texts = DOMAIN result.segments
          /\ \A i \in DOMAIN texts : \E t \in Texts : texts[i] = process_text(mode, t)
      BY <3>1
    <3> HIDE DEF texts, after
    <3>3. WordsAt(Whitespace)[after.text] = Mapped(WordsAt(Whitespace), texts)
      BY <2>1, <3>1, <3>2, CombinedReads
    <3>4. \A i \in DOMAIN texts : texts[i] \in Texts
      BY <3>1, ElementOfSeq, LenProperties
    <3>5. \A i \in DOMAIN after.segments :
            WordsAt(Whitespace)[texts[i]] =
              Split(nfc(after.segments[i].text), Whitespace)
      BY <3>1, <3>2, <3>4, WordsTyped
    <3>6. [i \in DOMAIN texts |-> WordsAt(Whitespace)[texts[i]]] =
            [i \in DOMAIN after.segments |->
               Split(nfc(after.segments[i].text), Whitespace)]
      BY <3>1, <3>2, <3>5
    <3>7. Mapped(WordsAt(Whitespace), texts) = Reading
      BY <3>6 DEF Mapped
    <3> QED
      BY <3>1, <3>3, <3>7, WordsTyped
  <2>3. result' = after
    BY <1>3
  <2> HIDE DEF after
  <2> QED
    BY <2>2, <2>3 DEF AnswerReadsAsSegments
<1> QED
  BY <1>1, <1>2, <1>3, DoneStep

LEMMA KeptStep ==
  ASSUME Given, RecognitionInv, TextInv, [Next]_vars
  PROVE  WordsKept'
<1>1. CASE UNCHANGED vars
  BY <1>1 DEF vars, choiceVars, TextInv, WordsKept
<1>2. CASE stage' # "done"
  BY <1>2 DEF WordsKept
<1>3. ASSUME stage = "postprocess", mode = "normalize",
             result' = process_result(result, mode), UNCHANGED <<mode, inputs>>
      PROVE  WordsKept'
  <2> DEFINE texts == [i \in DOMAIN result.segments |->
                         process_text(mode, result.segments[i].text)]
             after == process_result(result, mode)
             list == result.segments
             R == Reported(Texts)
  <2>1. /\ mode \in Modes /\ result.text \in Texts
        /\ list \in Seq(R)
        /\ result = [text |-> result.text, segments |-> result.segments]
        /\ \A r \in R : r.text \in Texts
    BY TextTypes DEF RecognitionInv, Given, TextInv, Typed, Shape, Reported
  <2>2. /\ list # <<>> => ListWords(inputs) = ListWords(list)
        /\ list = <<>> => ListWords(inputs) = Words(result.text)
    BY <1>3 DEF TextInv, Told, InputWords, SegmentWords
  <2>3. after.text \in Texts
    BY <2>1, ResultText
  <2>4. WordsAt({"sp"})[after.text] = ListWords(inputs)
    <3>1. CASE list = <<>>
      <4>1. after.text = finalize_text(result.text)
        BY <1>3, <2>1, <3>1, ResultText DEF process_text
      <4> QED
        BY <2>1, <2>2, <3>1, <4>1, WordsAre
    <3>2. CASE list # <<>>
      <4>1. /\ texts \in Seq(Texts)
            /\ after.text = combine_segment_texts(mode, texts)
            /\ \A i \in DOMAIN list : list[i].text \in Texts
        BY <2>1, <3>2, ResultText
      <4>2. /\ DOMAIN texts = DOMAIN list
            /\ \A i \in DOMAIN texts : texts[i] = finalize_text(list[i].text)
        BY <1>3 DEF process_text
      <4>3. after.text = finalize_text(Join(texts))
        BY <1>3, <4>1 DEF combine_segment_texts
      <4>4. \A i \in DOMAIN texts :
              /\ texts[i] \in Seq(Plain)
              /\ WordsAt({"sp"})[texts[i]] = Words(list[i].text)
        BY <4>1, <4>2, FinalizedOver, WordsAre
      <4> HIDE DEF texts, list, R
      <4>5. texts \in Seq(Seq(Plain))
        <5> DEFINE P == Seq(Plain)
                   n == Len(texts)
        <5>1. n \in Nat /\ texts = [i \in 1..n |-> texts[i]] /\ DOMAIN texts = 1..n
          BY <4>1, LenProperties
        <5>2. \A i \in 1..n : texts[i] \in P
          BY <4>4, <5>1
        <5> HIDE DEF P, n
        <5>3. texts \in Seq(P)
          BY <5>1, <5>2, ListIsSequence
        <5> QED
          BY <5>3 DEF P
      <4>6. WordsAt({"sp"})[finalize_text(Join(texts))] = Mapped(WordsAt({"sp"}), texts)
        BY <4>5, CharacterFacts, WordsCombined
      <4>7. \A i \in DOMAIN list : list[i] \in R
        BY <2>1, ElementOfSeq, LenProperties
      <4>8. \A i \in DOMAIN texts :
              WordsAt({"sp"})[texts[i]] = WordsOf(R)[list[i]]
        BY <4>2, <4>4, <4>7 DEF WordsOf
      <4>9. Mapped(WordsAt({"sp"}), texts) = Mapped(WordsOf(R), list)
        BY <4>2, <4>8, MappedAlike
      <4>10. Mapped(WordsOf(R), list) = ListWords(list)
        BY <2>1, WordsOfList
      <4> QED
        BY <2>2, <3>2, <4>3, <4>6, <4>9, <4>10
    <3> QED
      BY <3>1, <3>2
  <2>5. Split(nfc(after.text), {"sp"}) = ListWords(inputs)
    BY <2>3, <2>4, WordsTyped
  <2>6. result' = after /\ inputs' = inputs
    BY <1>3
  <2> HIDE DEF after
  <2> QED
    BY <2>5, <2>6 DEF WordsKept, ListWords
<1>4. CASE mode' # "normalize"
  BY <1>4 DEF WordsKept
<1>5. mode' = mode \/ stage' # "done"
  BY DoneStep DEF vars, choiceVars
<1> QED
  BY <1>1, <1>2, <1>3, <1>4, <1>5, DoneStep

LEMMA TextInvAlways == Given => (Spec => [](RecognitionInv /\ TextInv))
<1> SUFFICES ASSUME Given PROVE Spec => [](RecognitionInv /\ TextInv)
  OBVIOUS
<1>1. RateAssumption
  BY DEF Given
<1>2. Spec => []RecognitionInv
  BY <1>1, InvAlways
<1>3. Init => TextInv
  <2> SUFFICES ASSUME Init PROVE TextInv
    OBVIOUS
  <2>1. /\ stage = "resolve" /\ chosen = Nothing /\ samples = 0
        /\ result.text = <<>>
    BY DEF Init, NoResult
  <2>2. Typed
    BY <1>1, <2>1, EmptySeq DEF Typed, Nothing, RateAssumption, Texts
  <2> QED
    BY <2>1, <2>2 DEF TextInv, Told, AnswerReadsAsSegments, WordsKept
<1>4. RecognitionInv /\ TextInv /\ [Next]_vars => TextInv'
  <2> SUFFICES ASSUME RecognitionInv, TextInv, [Next]_vars PROVE TextInv'
    OBVIOUS
  <2>1. Typed /\ Told
    BY DEF TextInv
  <2> QED
    BY <2>1, TypedStep, ToldStep, AnswerStep, KeptStep DEF TextInv
<1> QED
  BY <1>2, <1>3, <1>4, PTL DEF Spec
-----------------------------------------------------------------------------
(* The theorems.                                                           *)

\* A recogniser only sees the files of the asset lock, with its checksums, and
\* the preferred ones of those that are there (resolve_offline_model_assets,
\* validate_model_assets), whatever is in the directory and the registry.
THEOREM RecognitionResolvesLocked ==
  RateAssumption => (Spec => []ResolvesLocked)
<1> SUFFICES ASSUME RateAssumption PROVE Spec => []ResolvesLocked
  OBVIOUS
<1>1. RecognitionInv => ResolvesLocked
  <2> SUFFICES ASSUME Shape, Resolved, stage \notin {"resolve", "failed"},
                      NEW part \in Parts
               PROVE  /\ chosen[part] = locked[part]
                      /\ locked[part] \in dir[part] /\ part \in intact
                      /\ asked[part] = "none" =>
                           \A i, j \in DOMAIN Names :
                             Names[i] \in dir[part] /\ Names[j] = locked[part]
                               => j <= i
    BY DEF RecognitionInv, ResolvesLocked
  <2>1. /\ chosen[part] = Found(part) /\ Found(part) # "none"
        /\ Found(part) = locked[part] /\ part \in intact
    BY DEF Resolved, Validated
  <2>2. dir[part] \in SUBSET NameSet
    BY DEF Shape
  <2> QED
    BY <2>1, <2>2, FoundIsFirst
<1> QED
  BY <1>1, InvAlways, PTL

\* Whatever the recogniser is given, it is the whole segment in the middle of
\* at least a second (decode_segment, pad_for_decoder), and the segments are
\* those of the detector, in their order.
THEOREM RecognitionDecoderGetsEnough ==
  RateAssumption => (Spec => []DecoderGetsEnough)
<1> SUFFICES ASSUME RateAssumption PROVE Spec => []DecoderGetsEnough
  OBVIOUS
<1>1. RecognitionInv => DecoderGetsEnough
  <2> SUFFICES ASSUME Shape, Supplied, NEW i \in DOMAIN inputs
               PROVE  LET input == inputs[i] IN
                      /\ input.leading + input.len + input.trailing >= Rate
                      /\ input.trailing - input.leading \in {0, 1}
                      /\ input.len >= Rate => input.trailing = 0
                      /\ vad => input.len = speech[i].len
                      /\ ~vad => input.len = samples
    BY DEF RecognitionInv, DecoderGetsEnough
  <2>1. inputs[i].len \in Nat
    <3> DEFINE S == [leading : Nat, trailing : Nat, len : Nat, text : AllHeard]
    <3>1. inputs \in Seq(S)
      BY DEF Shape
    <3> HIDE DEF S
    <3>2. i \in 1..Len(inputs)
      BY <3>1
    <3>3. inputs[i] \in S
      BY <3>1, <3>2, ElementOfSeq
    <3> QED
      BY <3>3 DEF S
  <2>2. /\ inputs[i] = Input(inputs[i].len, inputs[i].text)
        /\ vad => inputs[i].len = speech[i].len
        /\ ~vad => inputs[i].len = samples
    BY DEF Supplied
  <2> QED
    BY <2>1, <2>2, InputFact
<1> QED
  BY <1>1, InvAlways, PTL

\* The times a segment is reported with are those of a detected one without
\* the silence put before the audio, in the order of the audio
\* (segment_with_vad): for every rate, detector window and length.
THEOREM RecognitionSegmentTimes ==
  RateAssumption => (Spec => []SegmentTimes)
<1> SUFFICES ASSUME RateAssumption PROVE Spec => []SegmentTimes
  OBVIOUS
<1>1. RecognitionInv => SegmentTimes
  <2> SUFFICES ASSUME Shape, Ordered, FromSpeech,
                      NEW i \in DOMAIN result.segments
               PROVE  LET reported == result.segments[i] IN
                      /\ reported.start <= samples
                      /\ reported.end <= samples + pad_samples
                      /\ \A j \in DOMAIN result.segments :
                           i < j => reported.start <= result.segments[j].start
                      /\ \E k \in DOMAIN speech :
                           LET first == speech[k].start - pad_samples
                               last == first + speech[k].len
                           IN /\ reported.start =
                                   (IF first < 0 THEN 0 ELSE first)
                              /\ reported.end >= last
                              /\ reported.end - reported.start = speech[k].len
    BY DEF RecognitionInv, SegmentTimes
  <2>1. PICK k \in DOMAIN speech :
          /\ result.segments[i].start = Timed(speech[k]).start
          /\ result.segments[i].end = Timed(speech[k]).end
    BY DEF FromSpeech
  <2>2. speech[k] \in [start : Nat, len : Nat \ {0}]
    BY SpeechElement
  <2>3. speech[k].start + speech[k].len <= Fed(samples)
    BY DEF Ordered
  <2>4. /\ samples \in Nat /\ pad_samples \in Nat /\ Fed(samples) \in Nat
        /\ Fed(samples) <= pad_samples + samples
    BY FedWithin DEF Shape
  <2>5. \A j \in DOMAIN result.segments :
          i < j => result.segments[i].start <= result.segments[j].start
    BY DEF FromSpeech
  <2> QED
    BY <2>1, <2>2, <2>3, <2>4, <2>5, TimedFact
<1> QED
  BY <1>1, InvAlways, PTL

\* Every state is of the types, however long the texts that are heard
\* (SttSegment, SttResult): nothing that cuts, composes, joins or normalises
\* them leaves a text.
THEOREM RecognitionTypeCorrect == Given => (Spec => []TypeOK)
<1> SUFFICES ASSUME Given PROVE Spec => []TypeOK
  OBVIOUS
<1>1. RecognitionInv /\ TextInv => TypeOK
  BY TextTypes DEF RecognitionInv, TextInv, Typed, Shape, TypeOK, Given,
                   InputRecord, Reported
<1> QED
  BY <1>1, TextInvAlways, PTL

\* In every mode the text of an answer has the words of its segments, one after
\* another (combine_segment_texts), for all texts of all lengths.
THEOREM RecognitionReadsAsSegments == Given => (Spec => []AnswerReadsAsSegments)
<1> SUFFICES ASSUME Given PROVE Spec => []AnswerReadsAsSegments
  OBVIOUS
<1>1. TextInv => AnswerReadsAsSegments
  BY DEF TextInv
<1> QED
  BY <1>1, TextInvAlways, PTL

\* A normalised answer has every word that was heard, in its place
\* (normalize_text, decode_segment), for all texts of all lengths.
THEOREM RecognitionKeepsWords == Given => (Spec => []WordsKept)
<1> SUFFICES ASSUME Given PROVE Spec => []WordsKept
  OBVIOUS
<1>1. TextInv => WordsKept
  BY DEF TextInv
<1> QED
  BY <1>1, TextInvAlways, PTL
=============================================================================
