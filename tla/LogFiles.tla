------------------------------ MODULE LogFiles ------------------------------
(***************************************************************************)
(* The data-*.log files of one namespace and what recovery reads back     *)
(* from them (log/file.rs, log/record.rs, log/recover.rs).                *)
(*                                                                         *)
(* A file is the sequence of the slots reserved in it by LogFile::append, *)
(* in offset order.  A slot is a record, the body of a footer or the      *)
(* trailer of a footer, and carries how far its bytes have got:           *)
(*   "pending"  the offset is reserved, the write has not completed;      *)
(*   "written"  the write completed (page cache), not yet fsynced;        *)
(*   "durable"  covered by a completed fsync;                             *)
(*   "torn"     the bytes in the file are not the ones that were written. *)
(* A CRC covers every record and every footer body, so a torn slot is     *)
(* recognised, and so is a footer body read where a record is expected.   *)
(***************************************************************************)
EXTENDS NsIndex, FiniteSetsExt

RecordSlot(kind, key, ts, ttl, val) ==
  [kind |-> kind, key |-> key, ts |-> ts, ttl |-> ttl, val |-> val,
   ents |-> {}, st |-> "pending"]

FooterSlot(kind, ents) ==
  [kind |-> kind, key |-> "-", ts |-> 0, ttl |-> NoTtl, val |-> Inline,
   ents |-> ents, st |-> "pending"]

\* The body of a footer without entries is empty: it occupies no bytes.
BodySlots(ents) == IF ents = {} THEN <<>> ELSE <<FooterSlot("body", ents)>>

\* The footer entries of file f: the index entries that lie in f.
FooterEntries(idx, f) ==
  {[key |-> k, off |-> idx.map[k].off, ts |-> idx.map[k].ts,
    ttl |-> idx.ttl[k], val |-> idx.valsep[k]] :
      k \in {k \in Live(idx) : idx.map[k].file = f}}

SetStatus(slots, S, st) ==
  [i \in DOMAIN slots |-> IF i \in S THEN [slots[i] EXCEPT !.st = st] ELSE slots[i]]

Written(slots) == {i \in DOMAIN slots : slots[i].st = "written"}

\* The slots no completed write (after a power loss: no completed fsync) vouches
\* for.
AtRisk(slots, power) ==
  {i \in DOMAIN slots : slots[i].st \in
     (IF power THEN {"pending", "written"} ELSE {"pending"})}

\* What a crash leaves of a file: of the slots at risk those in keep reached the
\* disk and the others are torn.  The torn slots at the end of the file are
\* either missing, or there as garbage (ragged).
Survive(slots, power, keep, ragged) ==
  LET torn  == SetStatus(slots, AtRisk(slots, power) \ keep, "torn")
      kept  == SetStatus(torn, AtRisk(slots, power) \cap keep,
                         IF power THEN "durable" ELSE "written")
      whole == {i \in DOMAIN kept : kept[i].st # "torn"}
  IN IF ragged THEN kept
     ELSE SubSeq(kept, 1, IF whole = {} THEN 0 ELSE Max(whole))

-----------------------------------------------------------------------------
(* Recovery.                                                               *)

IsRecord(slot) == slot.kind \in {"put", "del", "ttl"} /\ slot.st # "torn"

\* The number of slots replay reads before the first that is no intact record.
GoodPrefix(slots) ==
  LET bad == {i \in DOMAIN slots : ~IsRecord(slots[i])}
  IN IF bad = {} THEN Len(slots) ELSE Min(bad) - 1

\* read_footer: "none" when the file does not end in a trailer, "error" when it
\* does and the bytes in front of the trailer are not the body it was made for.
ReadFooter(slots) ==
  LET n == Len(slots) IN
  IF n = 0 \/ slots[n].kind # "trailer" \/ slots[n].st = "torn"
    THEN [tag |-> "none", ents |-> {}]
  ELSE IF \/ slots[n].ents = {}
          \/ /\ n > 1
             /\ slots[n - 1].kind = "body"
             /\ slots[n - 1].st # "torn"
             /\ slots[n - 1].ents = slots[n].ents
    THEN [tag |-> "some", ents |-> slots[n].ents]
    ELSE [tag |-> "error", ents |-> {}]

ApplyFooterEntries(idx, f, ents) ==
  LET Of(k) == CHOOSE e \in ents : e.key = k
      ks    == {e.key : e \in ents}
  IN [map    |-> [k \in Keys |-> IF k \in ks
                                 THEN [file |-> f, off |-> Of(k).off, ts |-> Of(k).ts]
                                 ELSE idx.map[k]],
      ttl    |-> [k \in Keys |-> IF k \in ks THEN Of(k).ttl ELSE idx.ttl[k]],
      valsep |-> [k \in Keys |-> IF k \in ks THEN Of(k).val ELSE idx.valsep[k]]]

\* A full record sets the value-separation sidecar only when the record is
\* separated; an inline record leaves what the sidecar held.
ApplyRecord(idx, f, i, slot) ==
  CASE slot.kind = "del" -> RemoveKey(idx, slot.key)
    [] slot.kind = "ttl" -> IF Present(idx, slot.key)
                            THEN SetTtl(idx, slot.key, slot.ttl) ELSE idx
    [] slot.kind = "put" ->
         LET ins == Insert(idx, slot.key, [file |-> f, off |-> i, ts |-> slot.ts], slot.ttl)
         IN IF slot.val # Inline THEN SetValsep(ins, slot.key, slot.val) ELSE ins

\* rebuild_from_records and the loop of replay_active: the largest offset is applied last.
Replay(idx, f, slots) ==
  MapThenFoldSet(LAMBDA i, acc : ApplyRecord(acc, f, i, slots[i]), idx,
                 LAMBDA i : i, Max, 1..GoodPrefix(slots))

\* One step of open_namespace: a file is loaded from its footer or replayed.
\* A footer that cannot be read fails the whole open.
LoadFile(acc, f, slots) ==
  LET footer == ReadFooter(slots) IN
  IF ~acc.ok THEN acc
  ELSE CASE footer.tag = "error" -> [acc EXCEPT !.ok = FALSE]
         [] footer.tag = "some"  ->
              [acc EXCEPT !.idx = ApplyFooterEntries(acc.idx, f, footer.ents)]
         [] footer.tag = "none"  -> [acc EXCEPT !.idx = Replay(acc.idx, f, slots)]

\* open_namespace on the files with the given ids, in ascending order.  The last
\* one becomes the active file, cut after its intact prefix, unless its footer
\* says it was sealed; a fresh active file then follows it.
OpenNamespace(data, ids) ==
  LET loaded == MapThenFoldSet(LAMBDA f, acc : LoadFile(acc, f, data[f]),
                               [ok |-> TRUE, idx |-> EmptyIndex],
                               LAMBDA f : f, Max, ids)
      last   == IF ids = {} THEN 0 ELSE Max(ids)
      fresh  == ids = {} \/ ReadFooter(data[last]).tag = "some"
      active == IF ids # {} /\ fresh THEN last + 1 ELSE last
  IN [ok     |-> loaded.ok,
      idx    |-> [map    |-> [k \in Keys |-> loaded.idx.map[k]],
                  ttl    |-> [k \in Keys |-> loaded.idx.ttl[k]],
                  valsep |-> [k \in Keys |-> loaded.idx.valsep[k]]],
      active |-> active,
      sealed |-> ids \ {active},
      data   |-> [data EXCEPT ![active] =
                    IF fresh THEN <<>> ELSE SubSeq(@, 1, GoodPrefix(@))]]
=============================================================================
