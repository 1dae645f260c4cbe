---------------------------- MODULE MCPublication ----------------------------
(* Two generations of one lineage whose briefs name different identities;  *)
(* the release has a certified subject of each.                            *)
EXTENDS Publication

MCIdentity == [c \in {"candidate", "other"} |-> IF c = "candidate" THEN "i1" ELSE "i2"]
MCIdentityOf == [s \in Subjects |-> IF s = "s1" THEN "i1" ELSE "i2"]
MCEffectOf == [q \in Requests |->
    CASE q \in {"c1", "c2"} -> "candidate" [] q = "o1" -> "other" [] q = "r1" -> "review"
      [] q \in {"n1", "n2"} -> "npm" [] q = "b1" -> "browser" [] q = "a1" -> "activation"]
==============================================================================
