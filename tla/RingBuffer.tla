----------------------------- MODULE RingBuffer -----------------------------
(***************************************************************************)
(* ring.Buffer: a growable ring of bytes, not safe for concurrent use.  b  *)
(* holds the fields of the Go struct; the offsets r, w and readPrev are    *)
(* unsigned words that wrap at WordMod.  data is what the caller put in    *)
(* and has not taken out yet, back the byte that the last operation, a     *)
(* ReadByte, returned (None after any other operation).                    *)
(*                                                                         *)
(* Two things the code leaves to the caller set `astray' and end the       *)
(* behaviour: UnreadByte after an operation that moved the offsets without *)
(* clearing hasUnread (CommitRead, CommitWrite, WriteTo, ReadFrom, Reset), *)
(* and filling the segments of WritableSegments when WriteTo has emptied   *)
(* the buffer without moving its offsets back to 0.                        *)
(***************************************************************************)
EXTENDS Integers, Sequences, FiniteSetsExt

CONSTANTS Bytes,      \* values of a byte; 0 is what make leaves in a cell
          Capacities, \* what doubling the smallest, 64 in the code, reaches
          WordMod,    \* 2^64 or 2^32
          GrowBy,     \* the 4096 bytes ReadFrom asks for when the ring is full
          MaxIO,      \* bound on the bytes one operation takes in or out
          None

\* With a power of two for WordMod, every capacity is one too.
ASSUME CapacityAssumption ==
  /\ WordMod \in Nat \ {0} /\ Capacities \in SUBSET (1 .. WordMod - 1)
  /\ \E least \in Capacities : \A c \in Capacities :
       /\ c = least \/ \E d \in Capacities : c = 2 * d
       /\ WordMod % c = 0
ASSUME SizesAssumption == GrowBy \in Nat /\ MaxIO \in Nat

VARIABLES b, data, back, astray

bufferVars == <<b, data, back, astray>>

Wrap(x) == x % WordMod
Cap(s) == Len(s.buf)
Length(s) == Wrap(s.w - s.r)
Free(s) == Cap(s) - Length(s)

\* The cell of an offset, offset & mask; cells are counted from 1 here.  The
\* zero value of Buffer has no cells and mask 0.
Cell(s, x) == IF s.buf = <<>> THEN 1 ELSE (x % Cap(s)) + 1

\* The n cells from the c-th on, in order, as buf[c:c+n] would be.
Cells(c, n) == [i \in 1 .. n |-> c + i - 1]
At(s, cells) == [i \in 1 .. Len(cells) |-> s.buf[cells[i]]]

\* What the two-part copies of Read, WriteTo and grow give for n bytes: the
\* cells up to the end of buf, then the rest from its start.
CopyOut(s, n) ==
  LET start == Cell(s, s.r)
      first == IF start - 1 + n <= Cap(s) THEN n ELSE Cap(s) - start + 1
  IN At(s, Cells(start, first)) \o At(s, Cells(1, n - first))

\* The capacity is doubled until need bytes fit; that one does is a bound here.
Fitting(s, need) == {c \in Capacities : c - Length(s) >= need}
Fits(s, need) == Fitting(s, need) # {}

Grow(s, need) ==
  LET n == Length(s)
      c == Min(Fitting(s, need))
  IN IF Free(s) >= need THEN s
     ELSE [s EXCEPT !.buf = CopyOut(s, n) \o [i \in 1 .. c - n |-> 0],
                    !.r = 0, !.w = n]

\* Reads move both offsets back to 0 when they empty the buffer.
Normalise(s) == IF s.r = s.w THEN [s EXCEPT !.r = 0, !.w = 0] ELSE s

Consume(s, n) == Normalise([s EXCEPT !.r = Wrap(@ + n)])

\* The bytes of p go to the given cells, and w moves on.
Fill(s, cells, p) ==
  [s EXCEPT !.buf = [c \in 1 .. Cap(s) |->
                       IF \E i \in 1 .. Len(p) : cells[i] = c
                       THEN p[CHOOSE i \in 1 .. Len(p) : cells[i] = c]
                       ELSE s.buf[c]],
            !.w = Wrap(@ + Len(p))]

\* The two-part copy of Write.
WriteCells(s, n) ==
  LET start == Cell(s, s.w)
      first == IF start - 1 + n <= Cap(s) THEN n ELSE Cap(s) - start + 1
  IN Cells(start, first) \o Cells(1, n - first)

-----------------------------------------------------------------------------
(* Views that consume nothing.                                             *)

Peek(s, n) ==
  LET k == IF n > Length(s) THEN Length(s) ELSE n
      start == Cell(s, s.r)
  IN IF start - 1 + k <= Cap(s) THEN At(s, Cells(start, k)) ELSE CopyOut(s, k)

PeekSegments(s) ==
  LET start == Cell(s, s.r)
      end == Cell(s, s.w)
  IN CASE s.r = s.w -> <<>>
       [] s.r # s.w /\ start < end -> At(s, Cells(start, end - start))
       [] OTHER -> At(s, Cells(start, Cap(s) - start + 1)) \o At(s, Cells(1, end - 1))

\* A bug the code avoids: a full buffer, where both offsets fall on the same
\* cell, is taken for one that does not cross the end.
FullAsStraight(s, k) ==
  LET n == IF k > Length(s) THEN Length(s) ELSE k
      start == Cell(s, s.r)
      end == Cell(s, s.w)
  IN CASE n <= 0 -> <<>>
       [] n > 0 /\ start <= end -> At(s, Cells(start, end - start))
       [] OTHER -> CopyOut(s, n)

ReadableSegments(s, k) ==
  LET n == IF k > Length(s) THEN Length(s) ELSE k
      start == Cell(s, s.r)
      end == Cell(s, s.w)
      firstLen == Cap(s) - start + 1
      remain == IF n - firstLen > end - 1 THEN end - 1 ELSE n - firstLen
  IN CASE n <= 0 -> <<>>
       [] n > 0 /\ (start < end \/ n <= firstLen) -> At(s, Cells(start, n))
       [] OTHER -> At(s, Cells(start, firstLen)) \o At(s, Cells(1, remain))

\* The cells of the two segments of WritableSegments, in order.
WritableCells(s) ==
  LET start == Cell(s, s.r)
      end == Cell(s, s.w)
  IN CASE Free(s) = 0 -> <<>>
       [] Free(s) > 0 /\ s.r = s.w -> Cells(1, Free(s))
       [] Free(s) > 0 /\ s.r # s.w /\ end < start -> Cells(end, start - end)
       [] OTHER -> Cells(end, Cap(s) - end + 1) \o Cells(1, start - 1)

-----------------------------------------------------------------------------
(* Operations.                                                             *)

\* New, which rounds the capacity up, or the zero value.
BufferInit == /\ \E c \in Capacities \cup {0} :
                   b = [buf |-> [i \in 1 .. c |-> 0], r |-> 0, w |-> 0,
                        readPrev |-> 0, hasUnread |-> FALSE]
              /\ data = <<>> /\ back = None /\ astray = FALSE

Chunks == UNION {[1 .. n -> Bytes] : n \in 0 .. MaxIO}

\* The operation leaves state s with the caller's bytes d in the buffer.
Becomes(s, d) == /\ b' = s /\ data' = d
                 /\ back' = None
                 /\ UNCHANGED astray

Take(d, n) == SubSeq(d, n + 1, Len(d))

Reset == Becomes([b EXCEPT !.r = 0, !.w = 0], <<>>)

\* Write and WriteByte.
Write(p) ==
  LET s == Grow([b EXCEPT !.hasUnread = FALSE], Len(p))
  IN /\ Fits(b, Len(p))
     /\ Becomes(Fill(s, WriteCells(s, Len(p)), p), data \o p)

ReadByte ==
  IF b.r = b.w
  THEN Becomes([b EXCEPT !.hasUnread = FALSE], data)
  ELSE /\ b' = Normalise([b EXCEPT !.readPrev = b.r, !.r = Wrap(@ + 1),
                                   !.hasUnread = TRUE])
       /\ data' = Take(data, 1)
       /\ back' = b.buf[Cell(b, b.r)]
       /\ UNCHANGED astray

\* A bug the code avoids: w is not restored after ReadByte emptied the buffer.
UnreadOnlyR ==
  /\ b.hasUnread
  /\ b' = [b EXCEPT !.hasUnread = FALSE, !.r = b.readPrev]
  /\ data' = IF back = None THEN data ELSE <<back>> \o data
  /\ back' = None
  /\ astray' = (back = None)

\* w is restored too if ReadByte emptied the buffer.
Unread(s) ==
  [s EXCEPT !.hasUnread = FALSE, !.r = s.readPrev,
            !.w = IF s.r = 0 /\ s.w = 0 THEN Wrap(s.readPrev + 1) ELSE @]

UnreadByte ==
  /\ b.hasUnread
  /\ b' = Unread(b)
  /\ data' = IF back = None THEN data ELSE <<back>> \o data
  /\ back' = None
  /\ astray' = (back = None)

\* Read of n bytes, or what is left of them.
Read(n) ==
  LET k == IF n > Length(b) THEN Length(b) ELSE n
  IN /\ Length(b) > 0
     /\ Becomes(Consume([b EXCEPT !.hasUnread = FALSE], k), Take(data, k))

Discard(n) ==
  LET k == IF n > Length(b) THEN Length(b) ELSE n
  IN Becomes(Consume([b EXCEPT !.hasUnread = IF k > 0 THEN FALSE ELSE @], k), Take(data, k))

CommitRead(n) == /\ n <= Length(b)
                 /\ Becomes(Consume(b, n), Take(data, n))

\* The writer takes n of the bytes, fewer than all only with an error.
WriteTo(n) == /\ n <= Length(b) /\ Length(b) > 0
              /\ Becomes([b EXCEPT !.r = Wrap(@ + n)], Take(data, n))

\* One turn of ReadFrom's loop: the reader fills at most the first segment.
ReadFrom(p) ==
  LET s == IF Free(b) = 0 THEN Grow(b, GrowBy) ELSE b
      start == Cell(s, s.w)
  IN /\ Free(b) = 0 => Fits(b, GrowBy)
     /\ Len(p) <= Free(s) /\ start - 1 + Len(p) <= Cap(s)
     /\ Becomes(Fill(s, Cells(start, Len(p)), p), data \o p)

\* WritableSegments(need), the caller's filling of the segments, CommitWrite.
WriteSegments(need, p) ==
  LET s == Grow(b, need)
      cells == WritableCells(s)
  IN /\ Fits(b, need)
     /\ Len(p) <= Len(cells)
     /\ b' = Fill(s, cells, p) /\ data' = data \o p
     /\ back' = None
     /\ astray' = (s.r = s.w /\ Cell(s, s.w) # 1)

BufferNext ==
        /\ ~astray
        /\ \/ Reset \/ ReadByte \/ UnreadByte
           \/ \E p \in Chunks : Write(p) \/ ReadFrom(p)
           \/ \E p \in Chunks, need \in 0 .. MaxIO : WriteSegments(need, p)
           \/ \E n \in 0 .. MaxIO : Read(n) \/ Discard(n) \/ CommitRead(n) \/ WriteTo(n)

BufferSpec == BufferInit /\ [][BufferNext]_bufferVars

-----------------------------------------------------------------------------
(* Properties.                                                             *)

Word == 0 .. WordMod - 1

Buffers == [buf : Seq(Bytes \cup {0}), r : Word, w : Word, readPrev : Word,
            hasUnread : BOOLEAN]

BufferTypeOK == /\ b \in Buffers /\ Cap(b) \in Capacities \cup {0}
                /\ data \in Seq(Bytes \cup {0}) /\ back \in Bytes \cup {0, None}
                /\ astray \in BOOLEAN

\* The buffer holds the bytes put in and not yet taken out, in order: across
\* the end of buf, a growth that copies in two parts, offsets that wrap at
\* the word, UnreadByte right after the ReadByte that emptied the buffer, and
\* any mix of the copying and the segment interfaces.  It says nothing of an
\* UnreadByte after CommitRead, CommitWrite, WriteTo, ReadFrom or Reset, nor
\* of segments filled after a WriteTo that emptied the buffer (astray).
ContentsKept == BufferTypeOK /\ (~astray => CopyOut(b, Length(b)) = data)

\* Every view shows the same bytes, and the writable segments are exactly the
\* other cells, starting where the next byte belongs (unless WriteTo left an
\* empty buffer off its start).
ViewsAgree ==
  ~astray =>
    /\ PeekSegments(b) = data
    /\ \A n \in 0 .. Len(data) + 1 :
         LET front == SubSeq(data, 1, IF n > Len(data) THEN Len(data) ELSE n)
         IN Peek(b, n) = front /\ ReadableSegments(b, n) = front
    /\ b.r # b.w \/ Cell(b, b.w) = 1 => WritableCells(b) = WriteCells(b, Free(b))

-----------------------------------------------------------------------------
(* The inductive invariant.                                                *)

\* The cell of the i-th byte from r on, the bytes still to be written included.
Place(s, i) ==
  LET c == Cell(s, s.r) + i - 1
  IN IF c <= Cap(s) THEN c ELSE c - Cap(s)

Holds(s, d) == /\ Length(s) <= Cap(s) /\ Len(d) = Length(s)
               /\ \A i \in 1 .. Len(d) : s.buf[Place(s, i)] = d[i]

\* While the caller keeps to its part, the buffer holds the caller's bytes, and
\* after a ReadByte it would hold them with the byte put back.
BufferInv ==
  /\ BufferTypeOK
  /\ ~astray => Holds(b, data)
  /\ ~astray /\ back # None => b.hasUnread /\ Holds(Unread(b), <<back>> \o data)
=============================================================================
