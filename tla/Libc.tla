-------------------------------- MODULE Libc --------------------------------
(***************************************************************************)
(* The two parts of the C library that keep state for a program: buffered  *)
(* streams and the heap.                                                   *)
(***************************************************************************)
EXTENDS Naturals, SequencesExt, FiniteSets

-----------------------------------------------------------------------------
(* A stdio stream on a file (libc/stdio.c): a buffer that holds input read   *)
(* ahead or output not yet written, over a descriptor with an offset of its  *)
(* own, used as C allows: a seek or a flush between output and input.  A     *)
(* read or a write may be short or fail.                                     *)

CONSTANTS BUFSIZ, Chars, MaxFile, MaxCalls

VARIABLES file,        \* what the file holds
          off,         \* the descriptor's offset
          f,           \* the FILE: in (unread input), out (unwritten output), unget, flags
          turn,        \* "in", "out" or "any": what may come next without a seek
          pos, data,   \* what the program must see: its place, and the file's content
          calls

stdioVars == <<file, off, f, turn, pos, data, calls>>

NoChar == "none"
Min2(a, b) == IF a < b THEN a ELSE b

(* bytes written over `s` at offset `at` (never past its end: no holes).     *)
Put(s, at, bytes) ==
  SubSeq(s, 1, at) \o bytes \o SubSeq(s, at + Len(bytes) + 1, Len(s))

Pushed == IF f.unget = NoChar THEN 0 ELSE 1

Call == calls < MaxCalls /\ calls' = calls + 1

(* flush_out: what write() takes, `n` bytes at a time; the rest is dropped   *)
(* when it fails.  `n` is how much goes out before that, if it fails.        *)
FlushOut(g, n, fails) ==
  LET sent == IF fails THEN SubSeq(g.out, 1, Min2(n, Len(g.out))) ELSE g.out
  IN  [file |-> Put(file, off, sent), off |-> off + Len(sent),
       f |-> [g EXCEPT !.out = <<>>, !.err = @ \/ (fails /\ g.out # <<>>)]]

(* out: into the buffer, flushing when it is full and after a line; straight *)
(* to the file when unbuffered.  All of it reaches file and buffer, in order.*)
RECURSIVE Out(_, _)
Out(s, bytes) ==
  IF bytes = <<>> THEN s
  ELSE LET t == IF Len(s.f.out) = BUFSIZ
                THEN [file |-> Put(s.file, s.off, s.f.out), off |-> s.off + Len(s.f.out),
                      f |-> [s.f EXCEPT !.out = <<>>]]
                ELSE s
           k == Min2(BUFSIZ - Len(t.f.out), Len(bytes))
       IN  Out([t EXCEPT !.f.out = @ \o SubSeq(bytes, 1, k)], SubSeq(bytes, k + 1, Len(bytes)))

HasLine(bytes) == \E i \in DOMAIN bytes : bytes[i] = "nl"

OutResult(bytes) ==
  LET s == Out([file |-> file, off |-> off, f |-> f], bytes)
  IN  IF f.mode = "unbuf" \/ (f.mode = "line" /\ HasLine(bytes))
      THEN [file |-> Put(s.file, s.off, s.f.out), off |-> s.off + Len(s.f.out),
            f |-> [s.f EXCEPT !.out = <<>>]]
      ELSE s

Fwrite(bytes) ==
  /\ Call /\ turn # "in" /\ ~f.err /\ pos + Len(bytes) <= MaxFile
  /\ LET r == OutResult(bytes) IN file' = r.file /\ off' = r.off /\ f' = r.f
  /\ data' = Put(data, pos, bytes) /\ pos' = pos + Len(bytes)
  /\ turn' = "out"

(* The same, and a write() fails after `n` bytes: the stream is in error and *)
(* the program is told.                                                      *)
FwriteFails(bytes, n) ==
  /\ Call /\ turn # "in" /\ ~f.err /\ pos + Len(bytes) <= MaxFile
  /\ OutResult(bytes).off >= off + n + 1
  /\ file' = Put(file, off, SubSeq(f.out \o bytes, 1, n)) /\ off' = off + n
  /\ f' = [f EXCEPT !.err = TRUE, !.out = <<>>]
  /\ turn' = "out" /\ UNCHANGED <<pos, data>>

Fflush(n, fails) ==
  /\ Call /\ f.out # <<>>
  /\ LET r == FlushOut(f, n, fails) IN file' = r.file /\ off' = r.off /\ f' = r.f
  /\ turn' = "any" /\ UNCHANGED <<pos, data>>

(* refill: nothing more after the end or an error, until they are cleared.   *)
(* read() gives `n` bytes or fewer, none at the end of the file.             *)
Refill(n) == LET k == Min2(n, IF off < Len(file) THEN Len(file) - off ELSE 0)
             IN  [in |-> SubSeq(file, off + 1, off + k), off |-> off + k]

FgetcRead(n) ==
  /\ Call /\ turn # "out" /\ f.unget = NoChar /\ f.in = <<>> /\ ~f.eof /\ ~f.err
  /\ LET r == Refill(n)
     IN  /\ off' = r.off
         /\ f' = IF r.in = <<>> THEN [f EXCEPT !.eof = TRUE] ELSE [f EXCEPT !.in = Tail(r.in)]
         /\ pos' = IF r.in = <<>> THEN pos ELSE pos + 1
  /\ turn' = "in" /\ UNCHANGED <<file, data>>

FgetcFails ==
  /\ Call /\ turn # "out" /\ f.unget = NoChar /\ f.in = <<>> /\ ~f.eof /\ ~f.err
  /\ f' = [f EXCEPT !.err = TRUE]
  /\ turn' = "in" /\ UNCHANGED <<file, off, pos, data>>

FgetcBuffered ==
  /\ Call /\ turn # "out" /\ (f.unget # NoChar \/ f.in # <<>>)
  /\ f' = IF f.unget # NoChar THEN [f EXCEPT !.unget = NoChar] ELSE [f EXCEPT !.in = Tail(@)]
  /\ pos' = pos + 1
  /\ turn' = "in" /\ UNCHANGED <<file, off, data>>

(* fread: one byte by fgetc, then the rest of the buffer in one go.          *)
Fread(n) ==
  /\ Call /\ turn # "out" /\ Len(f.in) >= 1 /\ n <= Len(f.in) + Pushed
  /\ f' = [f EXCEPT !.unget = NoChar, !.in = SubSeq(@, n - Pushed + 1, Len(@))]
  /\ pos' = pos + n
  /\ turn' = "in" /\ UNCHANGED <<file, off, data>>

(* The last character read, pushed back.                                     *)
Ungetc ==
  /\ Call /\ turn = "in" /\ f.unget = NoChar /\ pos > 0
  /\ f' = [f EXCEPT !.unget = data[pos], !.eof = FALSE]
  /\ pos' = pos - 1
  /\ turn' = "in" /\ UNCHANGED <<file, off, data>>

(* fseek: output is written first; from where the program has read to.       *)
FseekFrom(g, to) ==
  /\ off' = to
  /\ f' = [g EXCEPT !.in = <<>>, !.unget = NoChar, !.eof = FALSE]
  /\ turn' = "any"

FseekCurBufferEnd(by) ==
  /\ Call /\ ~f.err /\ off + Len(f.out) + by <= Len(data)
  /\ LET r == FlushOut(f, 0, FALSE)
     IN  file' = r.file /\ FseekFrom(r.f, r.off + by)
  /\ pos' = pos + by /\ UNCHANGED data

FseekCur(by) ==
  /\ Call /\ ~f.err /\ pos + by <= Len(data)
  /\ LET r == FlushOut(f, 0, FALSE)
     IN  file' = r.file /\ FseekFrom(r.f, r.off + by - (Len(f.in) + Pushed))
  /\ pos' = pos + by /\ UNCHANGED data

FseekSet(to) ==
  /\ Call /\ ~f.err /\ to <= Len(data)
  /\ LET r == FlushOut(f, 0, FALSE)
     IN  file' = r.file /\ FseekFrom(r.f, to)
  /\ pos' = to /\ UNCHANGED data

(* A pipe refuses the seek; the output has gone out, the input stays.        *)
FseekRefused ==
  /\ Call /\ ~f.err
  /\ LET r == FlushOut(f, 0, FALSE)
     IN  file' = r.file /\ off' = r.off /\ f' = r.f
  /\ UNCHANGED <<turn, pos, data>>

Setvbuf(mode) ==
  /\ Call /\ ~f.err /\ f.mode # mode
  /\ LET r == FlushOut(f, 0, FALSE)
     IN  file' = r.file /\ off' = r.off /\ f' = [r.f EXCEPT !.mode = mode]
  /\ UNCHANGED <<turn, pos, data>>

(* fpurge: what is buffered, unread or unwritten, is dropped.                *)
Fpurge ==
  /\ Call /\ f' = [f EXCEPT !.in = <<>>, !.out = <<>>, !.unget = NoChar]
  /\ pos' = off /\ data' = file
  /\ UNCHANGED <<file, off, turn>>

StdioInit ==
       /\ file \in UNION {[1 .. n -> Chars] : n \in 0 .. MaxFile} /\ data = file
       /\ off = 0 /\ pos = 0 /\ turn = "any" /\ calls = 0
       /\ f \in [in : {<<>>}, out : {<<>>}, unget : {NoChar}, eof : {FALSE}, err : {FALSE},
                 mode : {"full", "line", "unbuf"}]

StdioNext ==
       \/ \E n \in 1 .. 3 : \E bytes \in [1 .. n -> Chars] : Fwrite(bytes)
       \/ \E k \in 1 .. 3 : \E bytes \in [1 .. k -> Chars], n \in 0 .. 1 : FwriteFails(bytes, n)
       \/ \E n \in 0 .. BUFSIZ, fails \in BOOLEAN : Fflush(n, fails)
       \/ \E n \in 1 .. BUFSIZ : FgetcRead(n) \/ Fread(n)
       \/ FgetcFails \/ FgetcBuffered \/ Ungetc \/ FseekRefused \/ Fpurge
       \/ \E by \in 0 .. 1 : FseekCur(by)
       \/ \E to \in 0 .. MaxFile : FseekSet(to)
       \/ \E mode \in {"full", "line", "unbuf"} : Setvbuf(mode)

StdioSpec == StdioInit /\ [][StdioNext]_stdioVars

-----------------------------------------------------------------------------
(* Until an error is reported, the stream is the file: ftell's answer is the *)
(* program's place, what is written and what is buffered are together what   *)
(* the program wrote, what is read ahead is what the file holds there, no    *)
(* line waits in a line-buffered stream and nothing in an unbuffered one.    *)
(* The end is reported only where it is.                                     *)
Ftell == (off + Len(f.out)) - (Len(f.in) + Pushed)

StreamsTrue ==
  ~f.err =>
    /\ Ftell = pos
    /\ Put(file, off, f.out) = data
    /\ f.in = SubSeq(data, (off - Len(f.in)) + 1, off)
    /\ f.unget # NoChar => f.unget = data[pos + 1]
    /\ f.in = <<>> \/ f.out = <<>>
    /\ f.mode = "unbuf" => f.out = <<>>
    /\ f.mode = "line" => ~HasLine(f.out)
    /\ f.eof /\ turn = "in" => pos = Len(data)

-----------------------------------------------------------------------------
(* malloc over sbrk (libc/malloc.c): a first-fit free list in address order. *)
(* An address is counted in units of ALIGN, which is also a header's size;   *)
(* sbrk may be used by the program itself, so the heap can have gaps.        *)

CONSTANTS HeapMax,       \* what sbrk gives at most
          GROW_MIN, Sizes

VARIABLES free_list,     \* blocks [at, size], in address order
          used,          \* blocks handed out
          brk,           \* the heap's end
          lost           \* addresses sbrk gave to somebody else

mallocVars == <<free_list, used, brk, lost>>

Header == 1
Units(b) == b.at .. b.at + b.size - 1

(* insert_free: in address order, merged with the free block after it and    *)
(* the one before it.                                                        *)
InsertFreeNoPrev(list, b) ==
  LET before == SelectSeq(list, LAMBDA c : c.at < b.at)
      after == SelectSeq(list, LAMBDA c : c.at >= b.at)
      joins == after # <<>> /\ b.at + b.size = after[1].at
      c == IF joins THEN [b EXCEPT !.size = @ + after[1].size] ELSE b
  IN  before \o <<c>> \o (IF joins THEN Tail(after) ELSE after)

InsertFree(list, b) ==
  LET before == SelectSeq(list, LAMBDA c : c.at < b.at)
      after == SelectSeq(list, LAMBDA c : c.at >= b.at)
      joins == after # <<>> /\ b.at + b.size = after[1].at
      c == IF joins THEN [b EXCEPT !.size = @ + after[1].size] ELSE b
      rest == IF joins THEN Tail(after) ELSE after
      n == Len(before)
  IN  IF before # <<>> /\ before[n].at + before[n].size = c.at
      THEN [before EXCEPT ![n].size = @ + c.size] \o rest
      ELSE before \o <<c>> \o rest

(* The first block big enough; what is left of it stays if it can hold a     *)
(* header and something after it.                                            *)
Fits(list, need) == {i \in DOMAIN list : list[i].size >= need}
FirstFit(list, need) == CHOOSE i \in Fits(list, need) : \A j \in Fits(list, need) : i <= j

TakeFrom(list, need) ==
  LET i == FirstFit(list, need)
      b == list[i]
      split == b.size - need >= 2 * Header
      got == [b EXCEPT !.size = IF split THEN need ELSE @]
      rest == IF split THEN <<[at |-> b.at + need, size |-> b.size - need]>> ELSE <<>>
  IN  [got |-> got, list |-> SubSeq(list, 1, i - 1) \o rest \o SubSeq(list, i + 1, Len(list))]

Grown(need) == IF need < GROW_MIN THEN GROW_MIN ELSE need

(* malloc: from the list; else the heap grows once.  Need includes a header. *)
Need(size) == (IF size = 0 THEN 1 ELSE size) + Header

MallocFit(size) ==
  /\ Fits(free_list, Need(size)) # {}
  /\ LET r == TakeFrom(free_list, Need(size))
     IN  free_list' = r.list /\ used' = used \cup {r.got}
  /\ UNCHANGED <<brk, lost>>

MallocGrow(size) ==
  LET bytes == Grown(Need(size))
      list == InsertFree(free_list, [at |-> brk, size |-> bytes])
      r == TakeFrom(list, Need(size))
  IN  /\ Fits(free_list, Need(size)) = {} /\ brk + bytes <= HeapMax
      /\ brk' = brk + bytes
      /\ free_list' = r.list /\ used' = used \cup {r.got}
      /\ UNCHANGED lost

(* free, of a block malloc gave.                                             *)
Free(b) ==
  /\ used' = used \ {b}
  /\ free_list' = InsertFree(free_list, b)
  /\ UNCHANGED <<brk, lost>>

(* realloc to more than the block holds: a new block, the old one freed; its *)
(* other cases are malloc, or the block as it is.                            *)
ReallocMoves(b, size) ==
  LET fit == Fits(free_list, Need(size)) # {}
      bytes == Grown(Need(size))
      list == IF fit THEN free_list ELSE InsertFree(free_list, [at |-> brk, size |-> bytes])
      r == TakeFrom(list, Need(size))
  IN  /\ b.size - Header < size
      /\ fit \/ brk + bytes <= HeapMax
      /\ brk' = IF fit THEN brk ELSE brk + bytes
      /\ used' = (used \ {b}) \cup {r.got}
      /\ free_list' = InsertFree(r.list, b)
      /\ UNCHANGED lost

(* The program moves its heap's end itself.                                  *)
Sbrk ==
  /\ brk < HeapMax
  /\ brk' = brk + 1 /\ lost' = lost \cup {brk}
  /\ UNCHANGED <<free_list, used>>

MallocInit == free_list = <<>> /\ used = {} /\ brk = 0 /\ lost = {}

MallocNext ==
        \/ \E size \in Sizes : MallocFit(size) \/ MallocGrow(size)
        \/ \E b \in used : Free(b) \/ \E size \in Sizes : ReallocMoves(b, size)
        \/ Sbrk

MallocSpec == MallocInit /\ [][MallocNext]_mallocVars

-----------------------------------------------------------------------------
(* Every unit of the heap is in exactly one block, free or handed out, or    *)
(* the program's own; the list is in address order and no two free blocks    *)
(* touch (malloc.c: "freeing coalesces with both neighbours"), so memory     *)
(* never falls apart into blocks that could be one.                          *)
Blocks == used \cup {free_list[i] : i \in DOMAIN free_list}

MallocSound ==
  /\ UNION {Units(b) : b \in Blocks} \cup lost = 0 .. (brk - 1)
  /\ \A b, c \in Blocks : b # c => Units(b) \cap Units(c) = {}
  /\ \A b \in Blocks : b.size > Header /\ Units(b) \cap lost = {}
  /\ \A i \in 1 .. Len(free_list) - 1 :
        free_list[i].at + free_list[i].size < free_list[i + 1].at
=============================================================================
