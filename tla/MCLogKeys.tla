----------------------------- MODULE MCLogKeys -----------------------------
(* Two ordinary keys and two sources, interchangeable.                     *)
EXTENDS LogKeys

KeysAndSources == Permutations(Key) \cup Permutations(Source)
=============================================================================
