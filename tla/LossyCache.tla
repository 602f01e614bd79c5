----------------------------- MODULE LossyCache -----------------------------
(***************************************************************************)
(* What a shard relies on from its L1 cache, whatever the eviction policy: *)
(* an entry is what was last put under its key.  Entries may disappear at  *)
(* any call; they never change otherwise and never come back.              *)
(***************************************************************************)
EXTENDS Functions

CONSTANTS Keys, Contents

VARIABLE cached   \* a function from the cached keys to their contents

Keep(f) == \E kept \in SUBSET DOMAIN f : cached' = Restrict(f, kept)

With(k, c) == [x \in DOMAIN cached \cup {k} |-> IF x = k THEN c ELSE cached[x]]

Put(k, c) == Keep(With(k, c))

Forget == Keep(cached)

Init == cached = << >>

Next == Forget \/ \E k \in Keys, c \in Contents : Put(k, c)

Spec == Init /\ [][Next]_cached
=============================================================================
