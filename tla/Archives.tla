------------------------------ MODULE Archives ------------------------------
(***************************************************************************)
(* The tar format as far as positions depend on it: what an operation puts *)
(* on the drive and what archive/tar makes of any place it is read from.   *)
(*                                                                         *)
(* A drive holds units.  BlockUnits of them are a block (512 bytes),       *)
(* RecordSize blocks a record.  A unit is <<what, id, part>>: part of the  *)
(* PAX block or of the header with that id, a piece of its content, or     *)
(* zero.  What a header says is the subject of Recovery; here a header and *)
(* its PAX records are known by their id, its place in hdrs, the sequence  *)
(* of the headers on the drive.                                            *)
(*                                                                         *)
(* One block stands for what archive/tar writes before a header with PAX   *)
(* records: an 'x' header and the blocks of the records, written in one    *)
(* piece each.  A tear between the two is not modelled.                    *)
(***************************************************************************)
EXTENDS Integers, Sequences

CONSTANTS RecordSize, BlockUnits,
          ContentSizes  \* sizes of contents, in units

ASSUME ArchivesAssumption ==
  /\ RecordSize \in Nat \ {0} /\ BlockUnits \in Nat \ {0}
  /\ ContentSizes \subseteq Nat

RecordUnits == RecordSize * BlockUnits
HeaderShape == [pax : BOOLEAN, size : ContentSizes]
Ghost == 0  \* the id of what reads like a header and was not written as one

-----------------------------------------------------------------------------
(* What is written.                                                        *)

Block(what, id) == [p \in 1 .. BlockUnits |-> <<what, id, p>>]
ZeroUnit == <<"zero", 0, 0>>
Zeros(n) == [u \in 1 .. n |-> ZeroUnit]
PaddingOf(size) == (BlockUnits - (size % BlockUnits)) % BlockUnits

(* A content of exactly one block is an archive itself: it reads like a    *)
(* header.                                                                 *)
Content(id, size) ==
  IF size = BlockUnits THEN Block("header", Ghost)
                       ELSE [u \in 1 .. size |-> <<"data", id, u>>]

Entry(id, h) ==
  (IF h.pax THEN Block("pax", id) ELSE <<>>) \o Block("header", id)
    \o Content(id, h.size) \o Zeros(PaddingOf(h.size))

EntriesUpTo(first, batch) ==
  LET upTo[i \in 0 .. Len(batch)] ==
        IF i = 0 THEN <<>> ELSE upTo[i - 1] \o Entry(first + i - 1, batch[i])
  IN  upTo

Entries(first, batch) == EntriesUpTo(first, batch)[Len(batch)]

Trailer == Zeros(2 * BlockUnits)

(* Faulty: a trailer of one block.                                         *)
ArchiveHalfEnded(isRegular, first, batch) == Entries(first, batch) \o Zeros(BlockUnits)

(* cleanup: the trailer; on a tape an archive shorter than one record is   *)
(* filled up to it, a longer one ends within its last record.              *)
Archive(isRegular, first, batch) ==
  LET out == Entries(first, batch) \o Trailer
  IN  IF ~isRegular /\ Len(out) < RecordUnits
        THEN out \o Zeros(RecordUnits - Len(out)) ELSE out

(* How much of an archive there can be when its process dies: blocks of    *)
(* the tar format are written one by one, contents in pieces of any size,  *)
(* to a tape whole records.                                                *)
TearPoints(isRegular, out) ==
  {n \in 0 .. Len(out) :
     IF isRegular THEN n % BlockUnits = 0 \/ out[n][1] = "data"
                  ELSE n % RecordUnits = 0 \/ n = Len(out)}

-----------------------------------------------------------------------------
(* What is read.                                                           *)

BlockAt(units, at) ==
  IF at >= Len(units) THEN <<"end", Ghost>>
  ELSE IF at + BlockUnits > Len(units) THEN <<"part", Ghost>>
  ELSE IF \A u \in 1 .. BlockUnits : units[at + u] = ZeroUnit THEN <<"zero", Ghost>>
  ELSE IF \E what \in {"pax", "header"} :
            \A u \in 1 .. BlockUnits : units[at + u] = <<what, units[at + 1][2], u>>
    THEN <<units[at + 1][1], units[at + 1][2]>>
  ELSE <<"junk", Ghost>>

ReadTo(res, at) == [res |-> res, at |-> at, id |-> Ghost, size |-> 0]

(* A header is read as it was written with its own PAX records, or with    *)
(* none if it has none.                                                    *)
Recognised(hdrs, id, pax) ==
  IF id # Ghost /\ pax = (IF hdrs[id].pax THEN id ELSE Ghost) THEN id ELSE Ghost

(* readHeader: one block, or two if the first is zero.                     *)
ReadHeader(hdrs, units, at, pax) ==
  LET b == BlockAt(units, at)
      next == BlockAt(units, at + BlockUnits)
  IN  CASE b[1] = "end"  -> ReadTo("eof", at)
        [] b[1] = "part" -> ReadTo("error", Len(units))
        [] b[1] = "junk" -> ReadTo("error", at + BlockUnits)
        [] b[1] = "zero" ->
             CASE next[1] = "end"  -> ReadTo("eof", at + BlockUnits)
               [] next[1] = "part" -> ReadTo("error", Len(units))
               [] next[1] = "zero" -> ReadTo("eof", at + 2 * BlockUnits)
               [] OTHER            -> ReadTo("error", at + 2 * BlockUnits)
        [] b[1] = "header" ->
             [res |-> "header", at |-> at + BlockUnits, id |-> Recognised(hdrs, b[2], pax),
              size |-> IF b[2] = Ghost THEN 0 ELSE hdrs[b[2]].size]

(* Reader.Next, with pad units behind the last content to discard first:   *)
(* the header after any number of PAX blocks, the last of which counts.    *)
ReadNext(hdrs, units, at, pad) ==
  LET from == at + pad
      IsPax(n) == BlockAt(units, from + n * BlockUnits)[1] = "pax"
      skipped == CHOOSE n \in 0 .. Len(units) : ~IsPax(n) /\ \A k \in 0 .. n - 1 : IsPax(k)
      last == BlockAt(units, from + (skipped - 1) * BlockUnits)
  IN  IF pad > 0 /\ from > Len(units) THEN ReadTo("eof", Len(units))
      ELSE ReadHeader(hdrs, units, from + skipped * BlockUnits,
                      IF skipped > 0 THEN last[2] ELSE Ghost)
=============================================================================
