---------------------------- MODULE MCRecognition ----------------------------
(* Model-checking instance of Recognition.                                 *)
EXTENDS Recognition

\* Every short text when the audio is taken as one; for segments, texts that
\* begin or end with what matters when they are put together.
MCHeard(segmented) ==
  IF segmented
    THEN {<<>>, <<"sp">>, <<"zero">>, <<"a">>, <<"AA">>, <<Mark>>,
          <<"a", "zero", Mark>>, <<"A", "zero">>, <<"bell", "a">>,
          <<"a", "nl", "A", Mark>>}
  ELSE UNION {[1..n -> Characters] : n \in 0..3}

AllThere == [part \in Parts |-> {"second"}]
Usual ==
  /\ dir = AllThere /\ asked = [part \in Parts |-> "none"]
  /\ locked = [part \in Parts |-> "second"] /\ intact = Parts

\* What is in the directory, in the lock and in the registry.
Resolving ==
  /\ ~vad /\ mode = "none"
  /\ dir["decoder"] \in {{}, {"second"}, {"first", "second"}}
  /\ locked["decoder"] = "second" /\ asked["decoder"] \in {"none", "second"}

\* How audio is cut, and how the texts of its segments are put together; or
\* how a text is processed.
Answering == Usual

MCInit == Init /\ (Resolving \/ Answering)
MCSpec == MCInit /\ [][Next]_vars
=============================================================================
