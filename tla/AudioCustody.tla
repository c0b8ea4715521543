---------------------------- MODULE AudioCustody ----------------------------
(***************************************************************************)
(* What the FINAL pipeline promises about captured audio, without saying   *)
(* how: audio becomes durable once, its transcript may be published, and   *)
(* it is erased only after that; everything else that is durable ends up   *)
(* quarantined for an operator, one piece at a time or many at once (at    *)
(* shutdown and start-up).  FinalPipeline implements it while moves within *)
(* the persistent disk succeed.                                            *)
(***************************************************************************)
CONSTANT Audio

VARIABLE holder

Holders == {"volatile", "spooled", "published", "erased", "quarantined"}

Init == holder = [a \in Audio |-> "volatile"]

\* Both files of the audio are on disk under their final names.
Spool(a) ==
  /\ holder[a] = "volatile"
  /\ holder' = [holder EXCEPT ![a] = "spooled"]

Publish(a) ==
  /\ holder[a] = "spooled"
  /\ holder' = [holder EXCEPT ![a] = "published"]

Erase(a) ==
  /\ holder[a] = "published"
  /\ holder' = [holder EXCEPT ![a] = "erased"]

\* Volatile audio is quarantined when an interrupted write left some of it.
Quarantine(S) ==
  /\ \A a \in S : holder[a] \in {"volatile", "spooled", "published"}
  /\ holder' = [a \in Audio |-> IF a \in S THEN "quarantined" ELSE holder[a]]

Next ==
  \/ \E a \in Audio : Spool(a) \/ Publish(a) \/ Erase(a)
  \/ \E S \in SUBSET Audio : Quarantine(S)

Spec == Init /\ [][Next]_holder
=============================================================================
