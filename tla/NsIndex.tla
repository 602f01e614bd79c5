------------------------------ MODULE NsIndex ------------------------------
(***************************************************************************)
(* The in-RAM index of one namespace (crates/engine/src/log/index.rs):    *)
(* the ordered map from keys to record locations and its two sidecars,    *)
(* the expiry deadlines and the blob hashes of value-separated keys.      *)
(*                                                                         *)
(* An index is a record idx with three functions on Keys:                 *)
(*   idx.map[k]    where k's record lies and its revision, or NoEntry;    *)
(*   idx.ttl[k]    k's deadline, NoTtl when the sidecar has no entry;     *)
(*   idx.valsep[k] k's blob hash, Inline when the sidecar has no entry.   *)
(* The sidecars are separate hash maps in the code and can hold a key     *)
(* the map does not, so they are separate functions here.                 *)
(***************************************************************************)
EXTENDS Integers, Sequences

CONSTANTS
  Keys,     \* the keys of the namespace
  Hashes    \* content hashes of values large enough to be separated

\* A value stored in the record itself; every other value is its content hash.
Inline == "inline"

ASSUME InlineIsNoHash == Inline \notin Hashes

NoTtl == 0

\* Records are counted from 1 inside a file and revisions from 1, so an all-zero
\* location is no location.
NoEntry == [file |-> 0, off |-> 0, ts |-> 0]

Entry == [file : Nat, off : Nat, ts : Nat]

Index == [map : [Keys -> Entry], ttl : [Keys -> Nat],
          valsep : [Keys -> Hashes \cup {Inline}]]

EmptyIndex == [map    |-> [k \in Keys |-> NoEntry],
               ttl    |-> [k \in Keys |-> NoTtl],
               valsep |-> [k \in Keys |-> Inline]]

Present(idx, k) == idx.map[k] # NoEntry

Live(idx) == {k \in Keys : Present(idx, k)}

\* insert leaves the value-separation sidecar alone: callers set it themselves.
Insert(idx, k, entry, deadline) ==
  [idx EXCEPT !.map[k] = entry, !.ttl[k] = deadline]

SetTtl(idx, k, deadline) == [idx EXCEPT !.ttl[k] = deadline]

SetValsep(idx, k, val) == [idx EXCEPT !.valsep[k] = val]

RemoveKey(idx, k) ==
  [idx EXCEPT !.map[k] = NoEntry, !.ttl[k] = NoTtl, !.valsep[k] = Inline]

IsExpired(idx, k, now) == idx.ttl[k] # NoTtl /\ idx.ttl[k] <= now

\* The revision a conditional write compares with: 0 for an absent or expired key.
LiveRev(idx, k, now) == IF IsExpired(idx, k, now) THEN 0 ELSE idx.map[k].ts
=============================================================================
