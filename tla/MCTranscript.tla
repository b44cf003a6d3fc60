---- MODULE MCTranscript ----
(* Small instances of Transcript for TLC, with one reader in a behaviour:  *)
(* readers change nothing that another reader or the owner depends on.     *)
EXTENDS Transcript

MCBacklogs == {-1, 0, 1, 2}

OneReader ==
  \/ logs.at = "closed" /\ copy.at = "none"
  \/ logs.at = "closed" /\ watch.at = "idle"
  \/ copy.at = "none" /\ watch.at = "idle"

OneByOne == Init /\ [][Next /\ OneReader']_vars /\ Fairness
====
