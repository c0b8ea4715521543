----------------------------- MODULE Recognition -----------------------------
(***************************************************************************)
(* One recognition, from the request to its result: the files of the model *)
(* are found and validated (assets.rs, checksum.rs), the audio is decoded  *)
(* (audio.rs), segmented and recognised (recognizer.rs), and the text is   *)
(* postprocessed.  ffmpeg, the voice activity detector, the recogniser and *)
(* the punctuation worker are external: they answer anything they may.     *)
(*                                                                         *)
(* Audio is a number of samples; times are counted in samples.             *)
(***************************************************************************)
EXTENDS SpeechText, FiniteSets, Integers

CONSTANTS
  Rate,        \* samples in a second
  Window,      \* samples the detector takes at once
  MaxSamples,  \* bound: samples of the audio
  MaxSpeech,   \* bound: segments the detector finds
  Heard(_)     \* bound: texts it returns, with or without segmentation

ASSUME RateAssumption ==
  /\ Rate \in Nat \ {0} /\ Window \in Nat \ {0}
  /\ MaxSamples \in Nat /\ MaxSpeech \in Nat

ASSUME HeardAssumption == \A segmented \in BOOLEAN : Heard(segmented) \subseteq Texts

Parts == {"encoder", "decoder"}
\* Two names that are looked for, and two that match a pattern, in the order
\* in which they are preferred.
Names == <<"first", "second", "epoch-1", "epoch-2">>
NameSet == {Names[i] : i \in DOMAIN Names}

VARIABLES
  dir,       \* the files of each part in the model directory
  locked,    \* the file of each part the asset lock has an entry for
  intact,    \* parts whose locked file has the checksum of the lock
  asked,     \* the file the registry names for a part, or none
  vad,       \* voice activity detection is enabled
  mode,      \* how the model is postprocessed
  stage,     \* where the recognition is
  chosen,    \* the files that were resolved
  samples,   \* samples decoded
  speech,    \* what the detector found: start and length in what it was fed
  segments,  \* the segments still to recognise
  inputs,    \* history: what the recogniser was given, and returned
  result     \* text, and segments with text

choiceVars == <<dir, locked, intact, asked, vad, mode>>
vars == <<choiceVars, stage, chosen, samples, speech, segments, inputs, result>>

NoResult == [text |-> <<>>, segments |-> <<>>]
Nothing == [part \in Parts |-> "none"]

Init ==
  /\ dir \in [Parts -> SUBSET NameSet]
  /\ locked \in [Parts -> NameSet]
  /\ intact \in SUBSET Parts
  /\ asked \in [Parts -> NameSet \cup {"none"}]
  /\ vad \in BOOLEAN /\ mode \in Modes
  /\ stage = "resolve" /\ chosen = Nothing /\ samples = 0
  /\ speech = <<>> /\ segments = <<>> /\ inputs = <<>> /\ result = NoResult
-----------------------------------------------------------------------------
(* resolve_offline_model_assets and validate_model_assets.                 *)

\* The file the registry names must exist; otherwise the preferred one of
\* those that are there.
Found(part) ==
  IF asked[part] # "none"
    THEN IF asked[part] \in dir[part] THEN asked[part] ELSE "none"
  ELSE LET IsThere(name) == name \in dir[part]
           i == SelectInSeq(Names, IsThere)
       IN IF i = 0 THEN "none" ELSE Names[i]

\* Seeded defect: a file without an entry in the lock is let through.
OnlyMismatches(part, name) == name = locked[part] => part \in intact
Validated(part, name) == name = locked[part] /\ part \in intact

Resolve ==
  LET found == [part \in Parts |-> Found(part)] IN
  /\ stage = "resolve"
  /\ IF \A part \in Parts : found[part] # "none" /\ Validated(part, found[part])
       THEN stage' = "decode" /\ chosen' = found
       ELSE stage' = "failed" /\ UNCHANGED chosen
  /\ UNCHANGED <<choiceVars, samples, speech, segments, inputs, result>>
-----------------------------------------------------------------------------
(* decode_audio_bytes, segment_with_vad.                                   *)

\* ffmpeg cannot be found, fails, or yields nothing.
Decode ==
  /\ stage = "decode"
  /\ \/ /\ samples' \in 1..MaxSamples
        /\ stage' = IF vad THEN "detect" ELSE "whole"
     \/ stage' = "failed" /\ UNCHANGED samples
  /\ UNCHANGED <<choiceVars, chosen, speech, segments, inputs, result>>

\* Half a second of silence, in whole windows, goes before the audio.
pad_samples == ((Rate \div 2) \div Window) * Window
\* Only whole windows are fed.
Fed(n) == ((pad_samples + n) \div Window) * Window

\* Disjoint intervals, in order, of at most n samples.
Intervals(n, count) ==
  {s \in [1..count -> [start : 0..n, len : 1..n]] :
     \A i \in 1..count :
       /\ s[i].start + s[i].len <= n
       /\ \A j \in 1..(i - 1) : s[j].start + s[j].len <= s[i].start}

\* Every window is fed, then the detector is flushed.
Detect ==
  /\ stage = "detect"
  /\ \/ /\ \E count \in 0..MaxSpeech : speech' \in Intervals(Fed(samples), count)
        /\ stage' = "collect"
     \/ stage' = "failed" /\ UNCHANGED speech  \* no detector
  /\ UNCHANGED <<choiceVars, chosen, samples, segments, inputs, result>>

\* Seeded defect: the subtraction does not saturate.
Underflows(interval) ==
  LET start == interval.start - pad_samples
  IN [start |-> start, end |-> start + interval.len, len |-> interval.len]
\* Seeded defect: the silence before the audio is not taken off.
AsFed(interval) == [start |-> interval.start,
                    end |-> interval.start + interval.len,
                    len |-> interval.len]
Timed(interval) ==
  LET start == IF interval.start < pad_samples THEN 0
               ELSE interval.start - pad_samples
  IN [start |-> start, end |-> start + interval.len, len |-> interval.len]

Collect ==
  /\ stage = "collect"
  /\ segments' = [i \in DOMAIN speech |-> Timed(speech[i])]
  /\ stage' = IF speech = <<>> THEN "postprocess" ELSE "recognise"
  /\ UNCHANGED <<choiceVars, chosen, samples, speech, inputs, result>>
-----------------------------------------------------------------------------
(* decode_segment.                                                         *)

\* Seeded defect: half of what is missing goes before and after.
HalfEach(n) == LET missing == IF n >= Rate THEN 0 ELSE Rate - n IN
               [leading |-> missing \div 2, trailing |-> missing \div 2]
\* At least a second goes to the recogniser, the samples in the middle.
pad_for_decoder(n) ==
  LET missing == IF n >= Rate THEN 0 ELSE Rate - n
      leading == missing \div 2
  IN [leading |-> leading, trailing |-> missing - leading]

Input(n, text) ==
  LET pad == pad_for_decoder(n)
  IN [leading |-> pad.leading, trailing |-> pad.trailing,
      len |-> n, text |-> text]

Whole ==
  /\ stage = "whole"
  /\ \E text \in Heard(vad) :
       /\ inputs' = Append(inputs, Input(samples, text))
       /\ result' = [result EXCEPT !.text = Trim(text)]
  /\ stage' = "postprocess"
  /\ UNCHANGED <<choiceVars, chosen, samples, speech, segments>>

\* A segment without text leaves no trace.
Recognise ==
  /\ stage = "recognise" /\ segments # <<>>
  /\ LET segment == Head(segments) IN
     \E text \in Heard(vad) :
       /\ inputs' = Append(inputs, Input(segment.len, text))
       /\ result' = IF Trim(text) = <<>> THEN result
                    ELSE [result EXCEPT !.segments = Append(@,
                            [start |-> segment.start, end |-> segment.end,
                             text |-> Trim(text)])]
  /\ segments' = Tail(segments)
  /\ UNCHANGED <<choiceVars, stage, chosen, samples, speech>>

Recognised ==
  /\ stage = "recognise" /\ segments = <<>>
  /\ result' = [result EXCEPT
                  !.text = Join([i \in DOMAIN result.segments |->
                                   result.segments[i].text])]
  /\ stage' = "postprocess"
  /\ UNCHANGED <<choiceVars, chosen, samples, speech, segments, inputs>>

Postprocess ==
  /\ stage = "postprocess"
  /\ \/ stage' = "done" /\ result' = process_result(result, mode)
     \/ mode = "capu" /\ stage' = "failed" /\ UNCHANGED result
  /\ UNCHANGED <<choiceVars, chosen, samples, speech, segments, inputs>>

Next ==
  \/ Resolve \/ Decode \/ Detect \/ Collect \/ Whole \/ Recognise
  \/ Recognised \/ Postprocess

Spec == Init /\ [][Next]_vars
-----------------------------------------------------------------------------
Span == [start : Nat, end : Nat, len : Nat]
TypeOK ==
  /\ stage \in {"resolve", "decode", "detect", "collect", "whole",
                "recognise", "postprocess", "done", "failed"}
  /\ chosen \in [Parts -> NameSet \cup {"none"}]
  /\ samples \in 0..MaxSamples
  /\ speech \in Seq([start : Nat, len : Nat \ {0}])
  /\ segments \in Seq(Span)
  /\ inputs \in Seq([leading : Nat, trailing : Nat, len : Nat,
                    text : Texts])
  /\ result.text \in Texts
  /\ result.segments \in Seq([start : Nat, end : Nat, text : Texts])

\* A recogniser only sees files that are in the lock and have its checksum,
\* and never falls back to one: a stray file whose name is preferred keeps the
\* model from being used (find_with_patterns, validate_model_assets).
ResolvesLocked ==
  stage \notin {"resolve", "failed"} =>
    \A part \in Parts :
      /\ chosen[part] = locked[part] /\ locked[part] \in dir[part]
      /\ part \in intact
      /\ asked[part] = "none" =>
           \A i, j \in DOMAIN Names :
             Names[i] \in dir[part] /\ Names[j] = locked[part] => j <= i

\* What a reported segment stands for in the audio, once the silence that was
\* put before the audio is cut off, lies within the times it is reported with;
\* these start in the audio, and end at most that silence after it.
SegmentTimes ==
  \A i \in DOMAIN result.segments :
    LET reported == result.segments[i] IN
    /\ reported.start <= samples /\ reported.end <= samples + pad_samples
    /\ \A j \in DOMAIN result.segments :
         i < j => reported.start <= result.segments[j].start
    /\ \E k \in DOMAIN speech :
         LET first == speech[k].start - pad_samples
             last == first + speech[k].len
         IN /\ reported.start = (IF first < 0 THEN 0 ELSE first)
            /\ reported.end >= last
            /\ reported.end - reported.start = speech[k].len

\* However short a segment, the recogniser gets a second of audio or more,
\* nothing of the segment is cut off, and it stays in the middle.
DecoderGetsEnough ==
  \A i \in DOMAIN inputs :
    LET input == inputs[i] IN
    /\ input.leading + input.len + input.trailing >= Rate
    /\ input.trailing - input.leading \in {0, 1}
    /\ input.len >= Rate => input.trailing = 0
    /\ vad => input.len = speech[i].len
    /\ ~vad => input.len = samples

\* The text of an answer reads as its segments do one after another, up to the
\* composition of characters: although the segments are processed one by one,
\* and the text that is made of them is, in two modes, processed once more.
AnswerReadsAsSegments ==
  stage = "done" /\ result.segments # <<>> =>
    Split(nfc(result.text), Whitespace) =
      FlattenSeq([i \in DOMAIN result.segments |->
                    Split(nfc(result.segments[i].text), Whitespace)])

\* A normalised answer has the words that were heard, in their order: only
\* characters that are removed join what they stood between.
Words(text) ==
  LET Visible(word) ==
        FlattenSeq([i \in DOMAIN word |->
          IF word[i] \in Removed \cup Control THEN <<>> ELSE <<word[i]>>])
      split == Split(nfc(text), Whitespace)
      shown == [i \in DOMAIN split |-> Visible(split[i])]
  IN FlattenSeq([i \in DOMAIN shown |->
       IF shown[i] = <<>> THEN <<>> ELSE <<nfc(shown[i])>>])
WordsKept ==
  stage = "done" /\ mode = "normalize" =>
    Split(nfc(result.text), {"sp"}) =
      FlattenSeq([i \in DOMAIN inputs |-> Words(inputs[i].text)])
=============================================================================
