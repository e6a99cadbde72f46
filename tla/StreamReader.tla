---------------------------- MODULE StreamReader ----------------------------
(***************************************************************************)
(* Reading up to a count or a pattern from a flow whose reads return       *)
(* anything (src/utils/stream_reader.cc), as operators on a reader record: *)
(* buf is buffer_, want length_to_read_, and posted the closure that hands *)
(* "out" to the caller from the run loop.  The owner makes the reads the   *)
(* reader asks for: a reader that is not Satisfied after ReadToLength or   *)
(* Arrived reads (again).                                                  *)
(***************************************************************************)
EXTENDS Naturals, Sequences

NewReader == [buf |-> <<>>, want |-> 0, posted |-> "none", out |-> <<>>]

\* The first n bytes are posted to the caller, the rest stays.
Handed(r, n) == [r EXCEPT !.out = SubSeq(r.buf, 1, n), !.posted = "waiting",
                          !.buf = SubSeq(r.buf, n + 1, Len(r.buf))]

\* DoReadLength
DoReadLength(r) == IF Len(r.buf) >= r.want THEN Handed(r, r.want) ELSE r

\* ReadToLength, and the callback of a read that got bytes.
ReadToLength(r, n) == DoReadLength([r EXCEPT !.want = n])

\* Mutant: what has arrived before is overwritten.
ArrivedForLengthAlone(r, bytes) == DoReadLength([r EXCEPT !.buf = bytes])
ArrivedForLength(r, bytes) == DoReadLength([r EXCEPT !.buf = @ \o bytes])

Satisfied(r) == r.posted # "none"
Delivered(r) == [r EXCEPT !.posted = "none", !.out = <<>>]

\* StreamReader::~StreamReader, and Cancel on what ReadToLength returned.
CancelReader(r) == [r EXCEPT !.posted = IF @ = "waiting" THEN "canceled" ELSE @]

ConsumeRemainData(r) == [r EXCEPT !.buf = <<>>]

-----------------------------------------------------------------------------
(* Up to a pattern.  A search begins where the last one left off.  The       *)
(* matcher keeps iterators into the parameter of ReadToPattern, which is     *)
(* gone when a read comes back: a later search compares with what lies       *)
(* there by then, and may stop anywhere or nowhere.                          *)

OccursAt(buf, pattern, i) == /\ i + Len(pattern) - 1 <= Len(buf)
                             /\ SubSeq(buf, i, i + Len(pattern) - 1) = pattern

\* Where the matcher finds the pattern at or after an offset, 0 for nowhere.
FindFrom(buf, pattern, offset) ==
  LET at == {i \in offset + 1..Len(buf) : OccursAt(buf, pattern, i)}
  IN  IF at = {} THEN 0 ELSE CHOOSE i \in at : \A j \in at : i <= j

\* Where it may stop when it no longer has the pattern, only its length.
StopsFrom(buf, pattern, offset) ==
  {0} \cup {i \in offset + 1..Len(buf) : i + Len(pattern) - 1 <= Len(buf)}

\* last_pos_ after a search that found nothing.
SearchFrom(buf, pattern) ==
  Len(buf) - (IF Len(buf) < Len(pattern) THEN Len(buf) ELSE Len(pattern))

\* DoReadPattern, over the pattern and the position kept, when the search stops at i.
DoReadPattern(r, pattern, pos, i) ==
  IF i = 0 THEN [reader |-> r, pos |-> SearchFrom(r.buf, pattern)]
  ELSE [reader |-> Handed(r, i - 1 + Len(pattern)), pos |-> pos]

ReadToPattern(r, pattern) == DoReadPattern(r, pattern, 0, FindFrom(r.buf, pattern, 0))

\* The callback of a read that got bytes: what may come of it.
ArrivedForPattern(r, bytes, pattern, pos) ==
  LET more == [r EXCEPT !.buf = @ \o bytes]
  IN  {DoReadPattern(more, pattern, pos, i) : i \in StopsFrom(more.buf, pattern, pos)}
=============================================================================
