----------------------------- MODULE DosMachine -----------------------------
(***************************************************************************)
(* The processor dosrun is: what its instructions compute, and how         *)
(* interrupts, their returns and dosrun's own services pass the flags on.  *)
(***************************************************************************)
EXTENDS Integers, Sequences, FiniteSets, Bitwise

-----------------------------------------------------------------------------
(* dosrun's 80386 interpreter (userland/dosrun/cpu.c): what an instruction  *)
(* computes.  The word is W bits wide instead of 8, 16 or 32, the auxiliary *)
(* carry leaves bit H - 1 instead of bit 3, and memory is a segment of      *)
(* MemSize cells whose offsets wrap.  One instruction is executed from      *)
(* every operand and flag; decoding and the addressing modes are left out.  *)

CONSTANTS W, H, MaxCount, MemSize, StackSize, Bcd

VARIABLES insn, res

cpuVars == <<insn, res>>

Top == 2^W

Words == 0 .. Top - 1

Bit(v, i) == (v \div 2^i) % 2

Sign(v) == Bit(v, W - 1)

Signed(v) == IF Sign(v) = 1 THEN v - Top ELSE v

Num(b) == IF b THEN 1 ELSE 0

NoFlags == [c |-> FALSE, o |-> FALSE, a |-> FALSE, z |-> FALSE, s |-> FALSE, p |-> FALSE]

CpuSetFlags(f, v) ==
  [f EXCEPT !.z = (v = 0), !.s = (Sign(v) = 1),
            !.p = Cardinality({i \in 0 .. W - 1 : Bit(v, i) = 1}) % 2 = 0]

-----------------------------------------------------------------------------
(* The arithmetic unit: alu8 and alu16 compute in a wider integer, alu32    *)
(* has to find the carry another way.                                       *)

Logic == {"or", "and", "xor"}

Sums == {"add", "adc"}

Differences == {"sub", "sbb", "cmp"}

Bitwise2(op, a, b) ==
  CASE op = "or" -> a | b [] op = "and" -> a & b [] op = "xor" -> a ^^ b

Alu16(op, a, b, f) ==
  LET cf == IF op \in {"adc", "sbb"} THEN Num(f.c) ELSE 0
      r  == CASE op \in Sums -> a + b + cf
              [] op \in Differences -> a - b - cf
              [] op \in Logic -> Bitwise2(op, a, b)
      of == CASE op \in Sums -> Sign(a) # Sign(r) /\ Sign(b) # Sign(r)
              [] op \in Differences -> Sign(a) # Sign(b) /\ Sign(a) # Sign(r)
              [] op \in Logic -> FALSE
      af == op \notin Logic /\ (Bit(a, H) + Bit(b, H) + Bit(r, H)) % 2 = 1
  IN [v |-> r % Top,
      f |-> CpuSetFlags([f EXCEPT !.c = r >= Top \/ r < 0, !.o = of, !.a = af], r % Top)]

Alu32BorrowLost(op, a, b, f) ==
  LET wide == IF op \in Sums THEN a + b + (IF op = "adc" THEN Num(f.c) ELSE 0)
                             ELSE (b + (IF op = "sbb" THEN Num(f.c) ELSE 0)) % Top
      r == CASE op \in Sums -> wide % Top
             [] op \in Differences -> (a - wide) % Top
             [] op \in Logic -> Bitwise2(op, a, b)
      g == [f EXCEPT !.c = (op \in Sums /\ wide >= Top) \/ (op \in Differences /\ a < wide),
                     !.o = \/ op \in Sums /\ Sign(a) = Sign(b) /\ Sign(a) # Sign(r)
                           \/ op \in Differences /\ Sign(a) # Sign(b) /\ Sign(a) # Sign(r),
                     !.a = op \notin Logic /\ (Bit(a, H) + Bit(b, H) + Bit(r, H)) % 2 = 1]
  IN [v |-> r, f |-> CpuSetFlags(g, r)]

Alu32(op, a, b, f) ==
  LET wide == IF op \in Sums THEN a + b + (IF op = "adc" THEN Num(f.c) ELSE 0)
                             ELSE b + (IF op = "sbb" THEN Num(f.c) ELSE 0)
      r == CASE op \in Sums -> wide % Top
             [] op \in Differences -> (a - wide) % Top
             [] op \in Logic -> Bitwise2(op, a, b)
      g == [f EXCEPT !.c = (op \in Sums /\ wide >= Top) \/ (op \in Differences /\ a < wide),
                     !.o = \/ op \in Sums /\ Sign(a) = Sign(b) /\ Sign(a) # Sign(r)
                           \/ op \in Differences /\ Sign(a) # Sign(b) /\ Sign(a) # Sign(r),
                     !.a = op \notin Logic /\ (Bit(a, H) + Bit(b, H) + Bit(r, H)) % 2 = 1]
  IN [v |-> r, f |-> CpuSetFlags(g, r)]

(* INC and DEC of a register or an operand: the carry is left alone.        *)
IncDec(op, a, f) ==
  LET r == (IF op = "inc" THEN a + 1 ELSE a - 1) % Top
  IN [v |-> r,
      f |-> [CpuSetFlags(f, r) EXCEPT
               !.o = r = IF op = "inc" THEN 2^(W - 1) ELSE 2^(W - 1) - 1,
               !.a = a % 2^H = IF op = "inc" THEN 2^H - 1 ELSE 0]]

Cond(cc, f) ==
  CASE cc = "o" -> f.o [] cc = "no" -> ~f.o
    [] cc = "b" -> f.c [] cc = "ae" -> ~f.c
    [] cc = "e" -> f.z [] cc = "ne" -> ~f.z
    [] cc = "be" -> f.c \/ f.z [] cc = "a" -> ~f.c /\ ~f.z
    [] cc = "l" -> f.s # f.o [] cc = "ge" -> f.s = f.o
    [] cc = "le" -> f.z \/ f.s # f.o [] cc = "g" -> ~f.z /\ f.s = f.o

-----------------------------------------------------------------------------
(* Shifts and rotates, one bit at a time.                                   *)

RECURSIVE ShiftSteps(_, _, _, _)
ShiftSteps(op, r, c, steps) ==
  IF steps = 0 THEN <<r, c>>
  ELSE LET left == op \in {"rol", "rcl", "shl"}
           out  == IF left THEN Sign(r) ELSE r % 2
           in   == CASE op \in {"rol", "ror"} -> out
                     [] op \in {"rcl", "rcr"} -> c
                     [] op \in {"shl", "shr"} -> 0
                     [] op = "sar" -> Sign(r)
       IN ShiftSteps(op, IF left THEN (2 * r + in) % Top ELSE (r \div 2) + in * 2^(W - 1),
                     out, steps - 1)

Shift(op, v, count, f) ==
  LET steps == IF op \in {"rcl", "rcr"} THEN count % (W + 1) ELSE count
      end   == ShiftSteps(op, v, Num(f.c), steps)
      r     == end[1]
      g     == [f EXCEPT !.c = (end[2] = 1)]
      s     == IF op \in {"shl", "shr", "sar"} THEN CpuSetFlags(g, r) ELSE g
      of    == CASE op \in {"rol", "rcl", "shl"} -> Sign(r) # end[2]
                 [] op \in {"ror", "rcr"} -> Sign(r) # Bit(r, W - 2)
                 [] op = "shr" -> Sign(v) = 1
                 [] op = "sar" -> FALSE
  IN IF steps = 0 THEN [v |-> v, f |-> f]
     ELSE [v |-> r, f |-> IF count = 1 THEN [s EXCEPT !.o = of] ELSE s]

RECURSIVE DoubleSteps(_, _, _, _, _)
DoubleSteps(right, v, source, c, count) ==
  IF count = 0 THEN <<v, c>>
  ELSE IF right
       THEN DoubleSteps(right, (v \div 2) + (source % 2) * 2^(W - 1), source \div 2,
                        v % 2, count - 1)
       ELSE DoubleSteps(right, (2 * v + Sign(source)) % Top, (2 * source) % Top,
                        Sign(v), count - 1)

DoubleShift(right, v, source, count, f) ==
  LET end == DoubleSteps(right, v, source, Num(f.c), count)
      g   == CpuSetFlags([f EXCEPT !.c = (end[2] = 1)], end[1])
  IN IF count = 0 THEN [v |-> v, f |-> f]
     ELSE [v |-> end[1], f |-> IF count = 1 THEN [g EXCEPT !.o = Sign(v) # Sign(end[1])] ELSE g]

-----------------------------------------------------------------------------
(* Group 3: multiplication and division of the double word hi:lo.           *)

Mul(signed, a, b) ==
  LET r == IF signed THEN Signed(a) * Signed(b) ELSE a * b
      o == IF signed THEN r # Signed(r % Top) ELSE r >= Top
  IN [lo |-> r % Top, hi |-> (r \div Top) % Top, o |-> o]

Error == [q |-> -1, r |-> -1]

RECURSIVE LongDivision(_, _, _, _, _)
LongDivision(rem, low, d, q, i) ==
  IF i < 0 THEN <<q, rem>>
  ELSE LET next == 2 * rem + Bit(low, i)
       IN IF next >= d THEN LongDivision(next - d, low, d, q + 2^i, i - 1)
                       ELSE LongDivision(next, low, d, q, i - 1)

Divide32(signed, hi, lo, divisor) ==
  LET negative == signed /\ Sign(hi) = 1
      negd     == signed /\ Sign(divisor) = 1
      n        == IF negative THEN (-(hi * Top + lo)) % (Top * Top) ELSE hi * Top + lo
      d        == IF negd THEN (-divisor) % Top ELSE divisor
      end      == LongDivision(n \div Top, n % Top, d, 0, W - 1)
      negq     == negative # negd
  IN IF d = 0 \/ n \div Top >= d THEN Error
     ELSE IF signed /\ end[1] > (IF negq THEN 2^(W - 1) ELSE 2^(W - 1) - 1) THEN Error
     ELSE [q |-> IF negq THEN (-end[1]) % Top ELSE end[1],
           r |-> IF negative THEN (-end[2]) % Top ELSE end[2]]

(* C's division of signed integers truncates towards zero.                  *)
Truncated(n, d) ==
  LET Abs(x) == IF x < 0 THEN -x ELSE x
      q == Abs(n) \div Abs(d)
  IN IF (n < 0) # (d < 0) THEN -q ELSE q

Divide16(signed, hi, lo, divisor) ==
  LET wide == hi * Top + lo
      n == IF signed /\ Sign(hi) = 1 THEN wide - Top * Top ELSE wide
      d == IF signed THEN Signed(divisor) ELSE divisor
      q == Truncated(n, d)
  IN IF divisor = 0 THEN Error
     ELSE IF q > (IF signed THEN 2^(W - 1) - 1 ELSE Top - 1) \/ (signed /\ q < -(2^(W - 1))) THEN Error
     ELSE [q |-> q % Top, r |-> (n - q * d) % Top]

-----------------------------------------------------------------------------
(* DAA and DAS adjust AL, eight bits wide, after packed-decimal ADD or SUB. *)

Daa(old, c, a) ==
  LET low  == old % 16 > 9 \/ a
      high == old > 153 \/ c
  IN [v |-> (old + 6 * Num(low) + 96 * Num(high)) % 256, c |-> high]

Das(old, c, a) ==
  LET low  == old % 16 > 9 \/ a
      high == old > 153 \/ c
  IN [v |-> (old - 6 * Num(low) - 96 * Num(high)) % 256,
      c |-> high \/ (low /\ (c \/ old < 6))]

Packed(n) == 16 * (n \div 10) + (n % 10)

-----------------------------------------------------------------------------
(* The string instructions, one element a cell.                             *)

RECURSIVE DoString(_, _, _, _)
DoString(op, rep, df, s) ==
  LET a  == IF op = "cmps" THEN s.mem[s.si] ELSE s.ax
      s1 == CASE op = "movs" -> [s EXCEPT !.mem[s.di] = s.mem[s.si]]
              [] op = "stos" -> [s EXCEPT !.mem[s.di] = s.ax]
              [] op = "lods" -> [s EXCEPT !.ax = s.mem[s.si]]
              [] op \in {"cmps", "scas"} -> [s EXCEPT !.z = (a = s.mem[s.di])]
      s2 == [s1 EXCEPT !.si = IF op \in {"movs", "cmps", "lods"} THEN (@ + df) % MemSize ELSE @,
                       !.di = IF op # "lods" THEN (@ + df) % MemSize ELSE @]
      s3 == [s2 EXCEPT !.cx = @ - 1]
      stop == s3.cx = 0 \/ (op \in {"cmps", "scas"} /\ s3.z # (rep = "repe"))
  IN IF rep = "no" THEN s2
     ELSE IF s.cx = 0 THEN s
     ELSE IF stop THEN s3 ELSE DoString(op, rep, df, s3)

-----------------------------------------------------------------------------
(* The stack: registers 4 and 5 are SP and BP, and SP wraps in its segment  *)
(* of StackSize words.                                                      *)

SP == 4

BP == 5

Push(s, v) ==
  LET sp == (s.r[SP] - 1) % StackSize
  IN [s EXCEPT !.r[SP] = sp, !.mem[sp] = v]

Pop(s) == [s EXCEPT !.r[SP] = (@ + 1) % StackSize]

RECURSIVE PushFrom(_, _, _)
PushFrom(s, i, sp) ==
  IF i > 7 THEN s ELSE PushFrom(Push(s, IF i = SP THEN sp ELSE s.r[i]), i + 1, sp)

Pusha(s) == PushFrom(s, 0, s.r[SP])

RECURSIVE PopDown(_, _)
PopDown(s, i) ==
  IF i < 0 THEN s
  ELSE LET t == Pop(s)
       IN PopDown(IF i = SP THEN t ELSE [t EXCEPT !.r[i] = s.mem[s.r[SP]]], i - 1)

Popa(s) == PopDown(s, 7)

RECURSIVE PushFrames(_, _)
PushFrames(s, level) ==
  IF level = 0 THEN s
  ELSE LET bp == (s.r[BP] - 1) % StackSize
       IN PushFrames(Push([s EXCEPT !.r[BP] = bp], s.mem[bp]), level - 1)

Enter(s, size, level) ==
  LET s1 == Push(s, s.r[BP])
      frame == s1.r[SP]
      s2 == Push(PushFrames(s1, level), frame)
  IN [s2 EXCEPT !.r[BP] = frame, !.r[SP] = (@ - size) % StackSize]

Leave(s) ==
  LET t == [s EXCEPT !.r[SP] = s.r[BP]]
  IN [Pop(t) EXCEPT !.r[BP] = t.mem[t.r[SP]]]

Clobbered(s) == [s EXCEPT !.r = [i \in 0 .. 7 |-> IF i = SP THEN s.r[SP] ELSE 0]]

-----------------------------------------------------------------------------
Compute(i) ==
  CASE i.k = "alu"    -> <<Alu16(i.op, i.a, i.b, i.f), Alu32(i.op, i.a, i.b, i.f)>>
    [] i.k = "inc"    -> IncDec(i.op, i.a, i.f)
    [] i.k = "shift"  -> Shift(i.op, i.a, i.n, i.f)
    [] i.k = "double" -> DoubleShift(i.right, i.a, i.b, i.n, i.f)
    [] i.k = "mul"    -> Mul(i.signed, i.a, i.b)
    [] i.k = "div"    -> <<Divide16(i.signed, i.hi, i.a, i.b), Divide32(i.signed, i.hi, i.a, i.b)>>
    [] i.k = "daa"    -> LET sum == Packed(i.a) + Packed(i.b)
                         IN Daa(sum % 256, sum > 255, (Packed(i.a) % 16) + (Packed(i.b) % 16) > 15)
    [] i.k = "das"    -> LET diff == Packed(i.a) - Packed(i.b)
                         IN Das(diff % 256, diff < 0, Packed(i.a) % 16 < Packed(i.b) % 16)
    [] i.k = "string" -> DoString(i.op, i.rep, i.df, i.s)
    [] i.k = "pusha"  -> Popa(Clobbered(Pusha(i.s)))
    [] i.k = "enter"  -> Leave(Enter(i.s, i.size, i.level))

FlagInputs == {[NoFlags EXCEPT !.c = c, !.o = o] : c, o \in BOOLEAN}

Strings ==
  [mem : [0 .. MemSize - 1 -> {0, 1}], si : {0}, di : 0 .. MemSize - 1, cx : 0 .. MemSize - 1,
   ax : {1}, z : {FALSE}]

Stacks ==
  {[r |-> [i \in 0 .. 7 |-> IF i = SP THEN sp ELSE i + 1], mem |-> [x \in 0 .. StackSize - 1 |-> 0]] :
     sp \in 0 .. StackSize - 1}

Inputs ==
  UNION {
    [k : {"alu"}, op : Logic \cup Sums \cup Differences, a : Words, b : Words, f : FlagInputs],
    [k : {"inc"}, op : {"inc", "dec"}, a : Words, f : FlagInputs],
    [k : {"shift"}, op : {"rol", "ror", "rcl", "rcr", "shl", "shr", "sar"}, a : Words,
     n : 0 .. MaxCount, f : FlagInputs],
    [k : {"double"}, right : BOOLEAN, a : Words, b : Words, n : 0 .. MaxCount, f : {NoFlags}],
    [k : {"mul"}, signed : BOOLEAN, a : Words, b : Words],
    [k : {"div"}, signed : BOOLEAN, hi : Words, a : Words, b : Words],
    [k : {"daa", "das"}, a : 0 .. 99, b : Bcd],
    [k : {"string"}, op : {"movs", "cmps", "stos", "lods", "scas"},
     rep : {"no", "repe", "repne"}, df : {1, -1}, s : Strings],
    [k : {"pusha"}, s : Stacks],
    [k : {"enter"}, s : Stacks, size : 0 .. 2, level : 0 .. 2]}

CpuInit == insn \in Inputs /\ res = <<>>

CpuStep ==
  /\ res = <<>>
  /\ res' = <<Compute(insn)>>
  /\ UNCHANGED insn

CpuNext == CpuStep

CpuSpec == CpuInit /\ [][CpuNext]_cpuVars

-----------------------------------------------------------------------------
(* What the instructions mean, in arithmetic.                               *)

Means(op, x, y, c) ==
  CASE op = "add" -> x + y [] op = "adc" -> x + y + c
    [] op \in {"sub", "cmp"} -> x - y [] op = "sbb" -> x - y - c

AluRight(i, o) ==
  LET c == Num(i.f.c)
      exact == Means(i.op, i.a, i.b, c)
  IN /\ o.f.z <=> o.v = 0
     /\ o.f.s <=> Signed(o.v) < 0
     /\ i.op \notin Logic =>
          /\ o.v = exact % Top
          /\ o.f.c <=> exact # o.v
          /\ o.f.o <=> Means(i.op, Signed(i.a), Signed(i.b), c) # Signed(o.v)
          /\ o.f.a <=> Means(i.op, i.a % 2^H, i.b % 2^H, c) \notin 0 .. 2^H - 1
     /\ i.op = "cmp" =>
          /\ Cond("b", o.f) <=> i.a < i.b
          /\ Cond("be", o.f) <=> i.a <= i.b
          /\ Cond("e", o.f) <=> i.a = i.b
          /\ Cond("l", o.f) <=> Signed(i.a) < Signed(i.b)
          /\ Cond("le", o.f) <=> Signed(i.a) <= Signed(i.b)
          /\ Cond("g", o.f) <=> Signed(i.a) > Signed(i.b)
          /\ Cond("a", o.f) <=> i.a > i.b

IncRight(i, o) ==
  LET step == IF i.op = "inc" THEN "add" ELSE "sub"
      full == Alu16(step, i.a, 1, i.f)
  IN o = [full EXCEPT !.f.c = i.f.c]

ShiftRight(i, o) ==
  LET n == i.n
      ring == i.a + Top * Num(i.f.c)
      m == n % (W + 1)
      rcl == (ring * 2^m + (ring \div 2^(W + 1 - m))) % (2 * Top)
      rcr == ((ring \div 2^m) + ring * 2^(W + 1 - m)) % (2 * Top)
      lsl == i.a * 2^n
  IN /\ CASE i.op = "rol" -> o.v = (i.a * 2^(n % W) + (i.a \div 2^(W - (n % W)))) % Top
          [] i.op = "ror" -> o.v = ((i.a \div 2^(n % W)) + i.a * 2^(W - (n % W))) % Top
          [] i.op = "rcl" -> o.v + Top * Num(o.f.c) = rcl
          [] i.op = "rcr" -> o.v + Top * Num(o.f.c) = rcr
          [] i.op = "shl" -> o.v = lsl % Top /\ (n > 0 => o.f.c = (Bit(lsl, W) = 1))
          [] i.op = "shr" -> o.v = i.a \div 2^n /\ (n > 0 => o.f.c = (Bit(2 * i.a, n) = 1))
          [] i.op = "sar" -> Signed(o.v) = Signed(i.a) \div 2^n
     /\ IF n = 1 THEN o.f.o <=> Sign(i.a) # Sign(o.v) ELSE o.f.o = i.f.o
     /\ n = 0 => o = [v |-> i.a, f |-> i.f]

DoubleRight(i, o) ==
  o.v = IF i.right THEN ((i.b * Top + i.a) \div 2^i.n) % Top
        ELSE ((((i.a * Top + i.b) * 2^i.n) \div Top)) % Top

DivRight(i, o) ==
  LET wide == i.hi * Top + i.a
      n == IF i.signed /\ Sign(i.hi) = 1 THEN wide - Top * Top ELSE wide
      d == IF i.signed THEN Signed(i.b) ELSE i.b
      Value(v) == IF i.signed THEN Signed(v) ELSE v
      Abs(x) == IF x < 0 THEN -x ELSE x
      Quotients == {q \in {Value(v) : v \in Words} :
                      /\ Abs(n - q * d) < Abs(d)
                      /\ (n - q * d) * n >= 0}
  IN IF Quotients = {} THEN o = Error
     ELSE /\ o # Error
          /\ Value(o.q) \in Quotients
          /\ Value(o.r) = n - Value(o.q) * d

DecimalRight(i, o) ==
  LET exact == IF i.k = "daa" THEN i.a + i.b ELSE i.a - i.b
  IN o.v = Packed(exact % 100) /\ (o.c <=> exact \notin 0 .. 99)

StringRight(i, o) ==
  LET s == i.s
      done == IF i.rep = "no" THEN 1 ELSE s.cx - o.cx
      Src(j) == (s.si + j * i.df) % MemSize
      Dst(j) == (s.di + j * i.df) % MemSize
      Left(j) == IF i.op = "cmps" THEN s.mem[Src(j)] ELSE s.ax
      Same(j) == Left(j) = s.mem[Dst(j)]
      apart == \A j, l \in 0 .. done - 1 : Dst(j) # Src(l)
  IN /\ o.si = IF i.op \in {"movs", "cmps", "lods"} THEN (s.si + done * i.df) % MemSize ELSE s.si
     /\ o.di = IF i.op # "lods" THEN (s.di + done * i.df) % MemSize ELSE s.di
     /\ \A x \in DOMAIN s.mem :
          (\A j \in 0 .. done - 1 : x # Dst(j)) => o.mem[x] = s.mem[x]
     /\ i.op = "movs" /\ apart => \A j \in 0 .. done - 1 : o.mem[Dst(j)] = s.mem[Src(j)]
     /\ i.op = "stos" => \A j \in 0 .. done - 1 : o.mem[Dst(j)] = s.ax
     /\ i.op = "lods" /\ done > 0 => o.ax = s.mem[Src(done - 1)]
     /\ i.op \notin {"cmps", "scas"} /\ i.rep # "no" => o.cx = 0
     /\ i.op \in {"cmps", "scas"} /\ done > 0 =>
          /\ o.z <=> Same(done - 1)
          /\ i.rep # "no" =>
               /\ \A j \in 0 .. done - 2 : Same(j) <=> i.rep = "repe"
               /\ o.cx = 0 \/ (Same(done - 1) <=> i.rep = "repne")

(* Every arithmetic, shift, multiply, divide, decimal and string            *)
(* instruction of cpu.c leaves the value and the flags arithmetic requires, *)
(* for every operand; a division faults exactly when the quotient does not  *)
(* fit, the 16- and 32-bit units agree, POPA undoes PUSHA and LEAVE ENTER.  *)
CpuComputes ==
  res # <<>> =>
    LET i == insn
        o == res[1]
    IN CASE i.k = "alu"    -> AluRight(i, o[1]) /\ o[2] = o[1]
         [] i.k = "inc"    -> IncRight(i, o)
         [] i.k = "shift"  -> ShiftRight(i, o)
         [] i.k = "double" -> DoubleRight(i, o)
         [] i.k = "mul"    -> LET v == IF i.signed /\ Sign(o.hi) = 1
                                       THEN o.hi * Top + o.lo - Top * Top ELSE o.hi * Top + o.lo
                                  Value(x) == IF i.signed THEN Signed(x) ELSE x
                              IN v = Value(i.a) * Value(i.b) /\ (o.o <=> v # Value(o.lo))
         [] i.k = "div"    -> DivRight(i, o[1]) /\ o[2] = o[1]
         [] i.k \in {"daa", "das"} -> DecimalRight(i, o)
         [] i.k = "string" -> StringRight(i, o)
         [] i.k \in {"pusha", "enter"} -> o.r = i.s.r

-----------------------------------------------------------------------------
(* dosrun's interrupt path: cpu_step's interrupt acceptance and shadow, the  *)
(* INT and IRET instructions, the ROM stub of INT 21h that traps into the    *)
(* host with INT F2h, dos_int's copying of status flags into the frames and  *)
(* main's return through the frame (userland/dosrun/cpu.c, dosapi.c,         *)
(* main.c).  A flags word is the interrupt flag and one status value.        *)

CONSTANTS Status, MaxDepth

VARIABLES code, fl, stack, shadow, irr, isr, half, want

stepVars == <<code, fl, stack, shadow, irr, isr, half, want>>

StepInit ==
      /\ code = "main" /\ fl = [i |-> TRUE, st |-> 0]
      /\ stack = <<>> /\ shadow = FALSE
      /\ irr = FALSE /\ isr = FALSE
      /\ half = FALSE /\ want = fl

(* cpu_enter_interrupt: the frame is pushed and IF cleared.                  *)
CpuEnterInterrupt(from, to) ==
  /\ stack' = <<[code |-> from, fl |-> fl]>> \o stack
  /\ fl' = [fl EXCEPT !.i = FALSE]
  /\ code' = to

Accepts == ~shadow /\ fl.i /\ irr /\ ~isr

Timer ==
  /\ ~irr
  /\ irr' = TRUE
  /\ UNCHANGED <<code, fl, stack, shadow, isr, half, want>>

Interrupt ==
  /\ Accepts /\ Len(stack) < MaxDepth
  /\ CpuEnterInterrupt(code, "isr")
  /\ irr' = FALSE /\ isr' = TRUE /\ shadow' = FALSE
  /\ UNCHANGED <<half, want>>

Executes(from) == ~Accepts /\ code = from /\ shadow' = FALSE

Alu(s) ==
  /\ ~half
  /\ fl' = [fl EXCEPT !.st = s]
  /\ \/ Executes("main") /\ want' = [want EXCEPT !.st = s]
     \/ Executes("isr") /\ UNCHANGED want
  /\ UNCHANGED <<code, stack, irr, isr, half>>

Cli ==
  /\ ~half
  /\ fl' = [fl EXCEPT !.i = FALSE]
  /\ \/ Executes("main") /\ want' = [want EXCEPT !.i = FALSE]
     \/ Executes("isr") /\ UNCHANGED want
  /\ UNCHANGED <<code, stack, irr, isr, half>>

Sti ==
  /\ ~half /\ ~Accepts
  /\ fl' = [fl EXCEPT !.i = TRUE] /\ shadow' = TRUE
  /\ want' = IF code = "main" THEN [want EXCEPT !.i = TRUE] ELSE want
  /\ code \in {"main", "isr"}
  /\ UNCHANGED <<code, stack, irr, isr, half>>

MovSsUnshadowed ==
  /\ ~half /\ Executes("main")
  /\ half' = TRUE
  /\ UNCHANGED <<code, fl, stack, irr, isr, want>>

(* MOV SS or POP SS: the stack is half switched until SP is loaded.          *)
MovSs ==
  /\ ~half /\ ~Accepts /\ code = "main"
  /\ half' = TRUE /\ shadow' = TRUE
  /\ UNCHANGED <<code, fl, stack, irr, isr, want>>

MovSp ==
  /\ half /\ Executes("main")
  /\ half' = FALSE
  /\ UNCHANGED <<code, fl, stack, irr, isr, want>>

Int21 ==
  /\ ~half /\ Executes("main")
  /\ CpuEnterInterrupt("main", "stub")
  /\ UNCHANGED <<irr, isr, half, want>>

IntF2Inner(s) ==
  /\ Executes("stub")
  /\ code' = "stubret" /\ fl' = [fl EXCEPT !.st = s]
  /\ want' = [want EXCEPT !.st = s]
  /\ UNCHANGED <<stack, irr, isr, half>>

(* INT F2h in the stub, whole: its frame is pushed, the service sets the     *)
(* live status, dos_int copies it into that frame and into the caller's, and *)
(* main returns through the inner frame.                                     *)
IntF2(s) ==
  /\ Executes("stub")
  /\ LET inner == [code |-> "stubret", fl |-> [fl EXCEPT !.st = s]]
     IN /\ code' = inner.code /\ fl' = inner.fl
        /\ stack' = [stack EXCEPT ![1].fl.st = s]
  /\ want' = [want EXCEPT !.st = s]
  /\ UNCHANGED <<irr, isr, half>>

(* An end-of-interrupt written to the interrupt controller.                  *)
Eoi ==
  /\ Executes("isr") /\ isr
  /\ isr' = FALSE
  /\ UNCHANGED <<code, fl, stack, irr, half, want>>

Iret ==
  /\ Executes(code) /\ code \in {"isr", "stubret"}
  /\ code' = stack[1].code /\ fl' = stack[1].fl
  /\ stack' = Tail(stack)
  /\ UNCHANGED <<irr, isr, half, want>>

StepNext ==
      \/ Timer \/ Interrupt \/ Cli \/ Sti \/ MovSs \/ MovSp \/ Int21 \/ Eoi \/ Iret
      \/ \E s \in Status : Alu(s) \/ IntF2(s)

StepSpec == StepInit /\ [][StepNext]_stepVars

(* Whatever interrupts come, the program finds the interrupt flag it set and *)
(* the status its last instruction or INT 21h service left, in its own FLAGS *)
(* or in the frame that will restore them; and none is taken between loading *)
(* SS and SP.                                                                *)
FlagsComeBack ==
  /\ code = "main" => stack = <<>> /\ fl = want
  /\ code # "main" => stack # <<>> /\ ~half
  /\ code \in {"isr", "stubret"} =>
       stack[Len(stack)] = [code |-> "main", fl |-> want]
=============================================================================
