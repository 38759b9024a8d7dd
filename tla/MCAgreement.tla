---------------------------- MODULE MCAgreement ----------------------------
(***************************************************************************)
(* Three small networks of authorities.                                    *)
(***************************************************************************)
EXTENDS Agreement, TLC

CONSTANTS a1, a2, a3, f1, f2, f3

(* Two honest authorities, both needed for a threshold, taking turns as    *)
(* primary.                                                                *)
MCTakingTurns(r) == IF r % 2 = 0 THEN a1 ELSE a2

(* Four authorities tolerating one faulty one, which is silent and the     *)
(* primary of round 0.                                                     *)
MCSilentFirst(r) == IF r = 0 THEN f1 ELSE a1

(* One honest authority whose three peers send what they like: proposals   *)
(* in round 0, prepares and commits in round 1, and lock proofs of both,   *)
(* contradicting themselves and each other.                                *)
MCFaultyFirst(r) == IF r % 2 = 0 THEN f3 ELSE a1

MCFaultyMessages ==
  {m \in Message({0}, {f3}) : m.kind = "Propose"}
    \cup {m \in Message({1}, {f1, f2}) : m.kind \in {"Prepare", "Commit"}}
    \cup {m \in Message({1}, {f3}) : m.kind = "Commit"}

Symmetry == Permutations(Digests) \cup Permutations({f1, f2})
=============================================================================
