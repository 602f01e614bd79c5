----------------------------- MODULE MCMemCache -----------------------------
(* A small cache for TLC: two keys of one namespace and one of another.    *)
EXTENDS MemCache

TwoNamespaces == [k \in Keys |-> IF k = "c" THEN "n" ELSE "m"]
SmallAndLarge == [c \in Contents |-> IF c = "x" THEN 1 ELSE 2]
LargeExpires == [c \in Contents |-> IF c = "x" THEN NoTtl ELSE 1]
=============================================================================
