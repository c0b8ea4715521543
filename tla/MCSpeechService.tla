--------------------------- MODULE MCSpeechService ---------------------------
(* Model-checking instance of SpeechService.                               *)
EXTENDS SpeechService

CONSTANTS r1, r2, r3, a1, m1, m2

\* Two requests that both need punctuation are explored without a warm-up,
\* which meets requests at the recogniser cache only; a warm-up is explored
\* beside a request for another model, and beside one for its own, whose result
\* has two texts.
MCInit ==
  /\ Init
  /\ \E present \in {{r1, r2}, {r1, r2, a1}, {r3, a1}} :
       pc = [r \in All |-> IF r \in present THEN "new" ELSE "absent"]
  /\ asked[r1] = m1 /\ asked[r3] = m1
  /\ asked[r2] \in IF pc[a1] = "new" THEN {m2, Unknown} ELSE {m1}
  /\ asked[a1] = IF pc[r3] = "new" THEN m1 ELSE m2
  /\ pc[a1] = "absent" => probe[a1]

\* Bound: which children print, and that no client leaves beside one that did.
\* It stops no step of the service's own threads.
Bounded ==
  \A w \in Workers :
    (\E i \in DOMAIN stdout[w] : stdout[w][i] = Noise) => left = {} /\ w[1] # r2

MCSpec == MCInit /\ [][Next /\ Bounded']_vars /\ Fairness
=============================================================================
