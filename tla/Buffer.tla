------------------------------- MODULE Buffer -------------------------------
(***************************************************************************)
(* utils::Buffer, the list of chunks every flow passes on (src/utils/      *)
(* buffer.cc).  A chunk (Buf) is its window of visible bytes, with the     *)
(* room that was released in front of it (offset_) and the room behind it  *)
(* (capacity_ - offset_ - size_); a Buffer is the chunks, tail_ as a       *)
(* position among them, and size_.  Bytes that were never written are      *)
(* Junk, whatever the room held before.                                    *)
(*                                                                         *)
(* text says what the buffer promises to be: one sequence of bytes, on     *)
(* which every operation does what its name says.                          *)
(***************************************************************************)
EXTENDS Naturals, Sequences, SequencesExt

CONSTANTS
  Bytes,    \* what is written
  MaxSize   \* bytes in the buffer

ASSUME BufferAssumption == MaxSize \in Nat \ {0} /\ "?" \notin Bytes

VARIABLES buffer, text

vars == <<buffer, text>>

Junk == "?"

MinOf(m, n) == IF m < n THEN m ELSE n
Fresh(n)   == [i \in 1..n |-> Junk]
Take(s, n) == SubSeq(s, 1, n)
Drop(s, n) == SubSeq(s, n + 1, Len(s))

NewBuf(data) == [front |-> 0, data |-> data, spare |-> 0]

\* A chunk that takes room behind or in front of its bytes, and one that loses bytes.
GrownBack(c, n)  == [c EXCEPT !.data = @ \o Fresh(n), !.spare = @ - n]
GrownFront(c, n) == [c EXCEPT !.data = Fresh(n) \o @, !.front = @ - n]
CutFront(c, n)   == [c EXCEPT !.data = Drop(@, n), !.front = @ + n]
CutOut(c, at, n) == [c EXCEPT !.data = Take(@, at) \o Drop(@, at + n), !.spare = @ + n]
KeptTo(c, pos)   == [c EXCEPT !.data = Take(@, pos), !.spare = @ + Len(c.data) - pos]

NewBuffer(data) == IF data = <<>> THEN [chunks |-> <<>>, tail |-> 0, size |-> 0]
                   ELSE [chunks |-> <<NewBuf(data)>>, tail |-> 1, size |-> Len(data)]

-----------------------------------------------------------------------------
(* Walking the chunks. *)

TextOf(chunks) == FlattenSeq([i \in 1..Len(chunks) |-> chunks[i].data])
Text(b)        == TextOf(b.chunks)

\* The bytes before chunk i.
Before(b, i) == Len(TextOf(Take(b.chunks, i - 1)))

\* The chunk in which the loop "while (skip >= size_)" stops, and the one in which
\* "while (pos > size_)" does: at the border of two chunks, the later or the
\* earlier one.
ChunkAt(b, skip)  == CHOOSE i \in DOMAIN b.chunks : Before(b, i) <= skip /\ skip < Before(b, i + 1)
ChunkUpTo(b, pos) == CHOOSE i \in DOMAIN b.chunks : Before(b, i) < pos /\ pos <= Before(b, i + 1)

\* WalkInternalChunk: the pieces the walker sees.
Walked(b, from) ==
  IF from = b.size THEN <<>>
  ELSE LET i == ChunkAt(b, from)
       IN  <<Drop(b.chunks[i].data, from - Before(b, i))>>
             \o [j \in 1..Len(b.chunks) - i |-> b.chunks[i + j].data]

\* GetData: of each chunk from the first on, what is still wanted.
GetData(b, skip, n) ==
  LET i == ChunkAt(b, skip)
      at(j)   == IF j = i THEN skip - Before(b, i) ELSE 0
      left(j) == IF j = i THEN n ELSE skip + n - Before(b, j)
      copied(j) == SubSeq(b.chunks[j].data, at(j) + 1, MinOf(Len(b.chunks[j].data), at(j) + left(j)))
  IN  IF n = 0 THEN <<>> ELSE FlattenSeq([k \in 1..Len(b.chunks) - i + 1 |-> copied(i + k - 1)])

\* FindLocation: the offset of byte j of chunk i, given as an address.
FindLocation(b, i, j) == Before(b, i) + j - 1

\* operator[] does not add offset_: in a chunk whose front was released it is off
\* by that much.
Index(b, index) ==
  LET i == ChunkAt(b, index)
      at == index - Before(b, i)
      c == b.chunks[i]
  IN  IF at < c.front THEN Junk ELSE c.data[at - c.front + 1]

-----------------------------------------------------------------------------
(* Inserting. *)

InsertBackBuffer(b, new) ==
  IF new.size = 0 THEN b
  ELSE [chunks |-> Take(b.chunks, b.tail) \o new.chunks, tail |-> b.tail + new.tail,
        size   |-> b.size + new.size]

InsertFrontBuffer(b, new) ==
  IF new.size = 0 THEN b
  ELSE [chunks |-> new.chunks \o b.chunks,
        tail   |-> IF b.tail = 0 THEN new.tail ELSE b.tail + Len(new.chunks),
        size   |-> b.size + new.size]

\* InsertBack(size): in the room behind the tail, if it is enough.
InsertBackRoom(b, n) ==
  IF b.tail # 0 /\ b.chunks[b.tail].spare >= n
  THEN [b EXCEPT !.chunks[b.tail] = GrownBack(@, n), !.size = @ + n]
  ELSE InsertBackBuffer(b, NewBuffer(Fresh(n)))

\* InsertFront(size): in the room released in front of the head.
InsertFrontRoom(b, n) ==
  IF b.chunks # <<>> /\ b.chunks[1].front >= n
  THEN [b EXCEPT !.chunks[1] = GrownFront(@, n), !.size = @ + n]
  ELSE InsertFrontBuffer(b, NewBuffer(Fresh(n)))

\* Chunk i broken after pos bytes (Buf::Break copies the rest into a chunk of its
\* own), with a buffer between the two.
Broken(b, i, new, pos) ==
  LET c    == b.chunks[i]
      rest == Drop(c.data, pos)
  IN  <<KeptTo(c, pos)>> \o new.chunks
        \o (IF rest = <<>> THEN <<>> ELSE <<NewBuf(rest)>>)

\* Mutant: tail_ stays where it is when its chunk is broken.
InsertBufAtKeepsTail(b, i, new, pos) ==
  [chunks |-> Take(b.chunks, i - 1) \o Broken(b, i, new, pos) \o Drop(b.chunks, i),
   tail   |-> IF i = b.tail THEN i ELSE b.tail + Len(Broken(b, i, new, pos)) - 1,
   size   |-> b.size + new.size]

InsertBufAt(b, i, new, pos) ==
  [chunks |-> Take(b.chunks, i - 1) \o Broken(b, i, new, pos) \o Drop(b.chunks, i),
   tail   |-> b.tail + Len(Broken(b, i, new, pos)) - 1,
   size   |-> b.size + new.size]

\* Insert(buffer, pos)
InsertBuffer(b, new, pos) ==
  IF pos = b.size THEN InsertBackBuffer(b, new)
  ELSE IF pos = 0 THEN InsertFrontBuffer(b, new)
  ELSE LET i == ChunkUpTo(b, pos) IN InsertBufAt(b, i, new, pos - Before(b, i))

\* Insert(skip, len): at the end of a chunk that is not the last one, in the room
\* behind it and, if that is not enough, in the room in front of the next one.
InsertRoom(b, skip, n) ==
  IF n = 0 THEN b
  ELSE IF skip = b.size THEN InsertBackRoom(b, n)
  ELSE IF skip = 0 THEN InsertFrontRoom(b, n)
  ELSE LET i    == ChunkUpTo(b, skip)
           c    == b.chunks[i]
           here == MinOf(n, c.spare)
       IN  IF skip = Before(b, i + 1) /\ c.spare + b.chunks[i + 1].front >= n
           THEN [b EXCEPT !.chunks[i] = GrownBack(@, here),
                          !.chunks[i + 1] = GrownFront(@, n - here),
                          !.size = @ + n]
           ELSE InsertBufAt(b, i, NewBuffer(Fresh(n)), skip - Before(b, i))

-----------------------------------------------------------------------------
(* Shrink, SetData and Break. *)

\* The loop of Shrink from the front of chunk i: whole chunks are unlinked, and
\* the first that stays releases its front.  tail_ moves only when the end has been reached.
ShrinkFrom(b, i, n) ==
  LET gone(j) == Before(b, j) - Before(b, i)
      first == CHOOSE j \in i..Len(b.chunks) + 1 :
                 gone(j) <= n /\ (j <= Len(b.chunks) => n < gone(j + 1))
      left == n - gone(first)
      kept == IF first > Len(b.chunks) THEN <<>>
              ELSE <<CutFront(b.chunks[first], left)>> \o Drop(b.chunks, first)
  IN  [chunks |-> Take(b.chunks, i - 1) \o kept,
       tail   |-> IF kept = <<>> THEN i - 1 ELSE b.tail - (first - i),
       size   |-> b.size - n]

\* Shrink(skip, len)
Shrink(b, skip, n) ==
  LET i  == ChunkAt(b, skip)
      at == skip - Before(b, i)
      c  == b.chunks[i]
      remain == Len(c.data) - at
      cut(m) == [b EXCEPT !.chunks[i] = CutOut(@, at, m), !.size = @ - m]
  IN  IF at = 0 THEN ShrinkFrom(b, i, n)
      ELSE IF n < remain THEN cut(n)
      ELSE ShrinkFrom(cut(remain), i + 1, n - remain)

SetData(b, skip, data) ==
  [b EXCEPT !.chunks = [i \in DOMAIN b.chunks |->
     [b.chunks[i] EXCEPT !.data = [j \in DOMAIN @ |->
        LET at == Before(b, i) + j - skip
        IN  IF at \in DOMAIN data THEN data[at] ELSE @[j]]]]]

\* Break(skip): what stays, and what is returned.  Both get their tail anew.
BreakHead(b, skip) ==
  LET i  == ChunkUpTo(b, skip)
      at == skip - Before(b, i)
  IN  [chunks |-> Take(b.chunks, i - 1) \o <<KeptTo(b.chunks[i], at)>>,
       tail |-> i, size |-> skip]

BreakTail(b, skip) ==
  LET i    == ChunkUpTo(b, skip)
      rest == Drop(b.chunks[i].data, skip - Before(b, i))
      cs   == (IF rest = <<>> THEN <<>> ELSE <<NewBuf(rest)>>) \o Drop(b.chunks, i)
  IN  [chunks |-> cs, tail |-> Len(cs), size |-> b.size - skip]

-----------------------------------------------------------------------------
(* The operations, and what they do to the text. *)

Init == buffer = NewBuffer(<<>>) /\ text = <<>>

Spliced(s, pos, new)  == Take(s, pos) \o new \o Drop(s, pos)
Cut(s, skip, n)       == Take(s, skip) \o Drop(s, skip + n)
Overlaid(s, skip, new) == [i \in DOMAIN s |-> IF i - skip \in DOMAIN new THEN new[i - skip] ELSE s[i]]

\* Buffers that come in: of one chunk or of two.
Incoming == {NewBuffer(<<x>>) : x \in Bytes}
              \cup {InsertBackBuffer(NewBuffer(<<x>>), NewBuffer(<<y>>)) : x, y \in Bytes}

Insert(pos, new) ==
  /\ pos <= buffer.size /\ buffer.size + new.size <= MaxSize
  /\ buffer' = InsertBuffer(buffer, new, pos)
  /\ text' = Spliced(text, pos, Text(new))

MakeRoom(skip, n) ==
  /\ skip <= buffer.size /\ buffer.size + n <= MaxSize
  /\ buffer' = InsertRoom(buffer, skip, n)
  /\ text' = Spliced(text, skip, Fresh(n))

\* Shrink, ShrinkFront (skip = 0) and ShrinkBack (skip + n = size).
ShrinkBy(skip, n) ==
  /\ skip < buffer.size /\ skip + n <= buffer.size
  /\ buffer' = Shrink(buffer, skip, n)
  /\ text' = Cut(text, skip, n)

Put(skip, data) ==
  /\ skip < buffer.size /\ skip + Len(data) <= buffer.size
  /\ buffer' = SetData(buffer, skip, data)
  /\ text' = Overlaid(text, skip, data)

\* One half goes on, as a buffer of its own; Break(0) and Break(size) are not
\* allowed (they would leave an empty chunk, or walk past the end).
BreakAt(skip) ==
  /\ 0 < skip /\ skip < buffer.size
  /\ \/ buffer' = BreakHead(buffer, skip) /\ text' = Take(text, skip)
     \/ buffer' = BreakTail(buffer, skip) /\ text' = Drop(text, skip)

Next == \E at \in 0..MaxSize :
          \/ \E new \in Incoming : Insert(at, new)
          \/ \E n \in 0..MaxSize : MakeRoom(at, n) \/ ShrinkBy(at, n)
          \/ \E x, y \in Bytes : Put(at, <<x>>) \/ Put(at, <<x, y>>)
          \/ BreakAt(at)

Spec == Init /\ [][Next]_vars

-----------------------------------------------------------------------------
(* Properties. *)

\* "Buf can't have size 0" (buffer.cc:34), tail_ is the last chunk, size_ the
\* number of bytes.
WellFormed == /\ \A i \in DOMAIN buffer.chunks : buffer.chunks[i].data # <<>>
              /\ buffer.tail = Len(buffer.chunks)
              /\ buffer.size = Len(text)

\* Every way of reading sees the text; operator[] only while no chunk has released
\* its front.
ReadsAgree ==
  /\ Text(buffer) = text
  /\ \A from \in 0..buffer.size : FlattenSeq(Walked(buffer, from)) = Drop(text, from)
  /\ \A skip \in 0..buffer.size - 1 : \A n \in 0..buffer.size - skip :
       GetData(buffer, skip, n) = SubSeq(text, skip + 1, skip + n)
  /\ \A i \in DOMAIN buffer.chunks : \A j \in DOMAIN buffer.chunks[i].data :
       text[FindLocation(buffer, i, j) + 1] = buffer.chunks[i].data[j]
  /\ (\A i \in DOMAIN buffer.chunks : buffer.chunks[i].front = 0) =>
       \A i \in 1..buffer.size : Index(buffer, i - 1) = text[i]

\* Whatever was inserted, removed, written and broken before, the chunks are the
\* sequence of bytes the calls made.
BufferIsText == WellFormed /\ ReadsAgree
=============================================================================
