-------------------------------- MODULE Tools --------------------------------
(***************************************************************************)
(* Command-line tools: the options of all of them, expr, and the ones that *)
(* merge sorted files.                                                     *)
(***************************************************************************)
EXTENDS Integers, SequencesExt, FiniteSets

-----------------------------------------------------------------------------
(* getopt_internal of libc (third_party/openbsd/lib/libc/stdlib/              *)
(* getopt_long.c): one call per option, and between the calls the state it    *)
(* keeps: where it is in the argument, and the block of operands it passed    *)
(* over, to be moved behind the options.  An argument is a word ("-" is one), *)
(* "--", a cluster of letters, or a long option with or without "=value".     *)

CONSTANTS CommandLines,      \* argument vectors: sequences of arguments
          Letters,    \* letter -> "no", "required" or "optional"
          Long,       \* the long options, in order: [name, arg]
          Abbrev    \* what may be typed -> the names it is a prefix of

VARIABLES words, mode, \* mode: "permute", "stop" (getopt, "+") or "inorder" ("-")
          st,         \* [argv, optind, place, start, end]; argv holds indices into line
          said,       \* what the calls returned
          done

getOptVars == <<words, mode, st, said, done>>

N == Len(words)
Arg(s) == words[s.argv[s.optind]]

(* permute_args: cycle by cycle, as many as the gcd of the two lengths.       *)
RECURSIVE Gcd(_, _)
Gcd(a, b) == IF a % b = 0 THEN b ELSE Gcd(b, a % b)

RECURSIVE Rotate(_, _, _, _, _, _, _)
Rotate(order, cstart, pos, j, from, mid, to) ==
  LET nnonopts == mid - from
      next == IF pos >= mid THEN pos - nnonopts ELSE pos + (to - mid)
  IN  IF j = 0 THEN order
      ELSE Rotate([order EXCEPT ![next] = order[cstart], ![cstart] = order[next]],
                  cstart, next, j - 1, from, mid, to)

RECURSIVE Cycles(_, _, _, _, _)
Cycles(order, i, from, mid, to) ==
  LET ncycle == Gcd(mid - from, to - mid)
  IN  IF i = ncycle THEN order
      ELSE Cycles(Rotate(order, mid + i, mid + i, (to - from) \div ncycle, from, mid, to),
                  i + 1, from, mid, to)

(* Mutant: one cycle is taken to be enough.                                   *)
PermuteOneCycle(s) ==
  [s EXCEPT !.argv = Rotate(@, s.end, s.end, s.optind - s.start, s.start, s.end, s.optind)]

PermuteArgs(s) == [s EXCEPT !.argv = Cycles(@, 0, s.start, s.end, s.optind)]

(* The end of the options: the operands passed over go last.                  *)
Ended(s) ==
  LET moved == IF s.end # 0 THEN [PermuteArgs(s) EXCEPT !.optind = @ - (s.end - s.start)]
               ELSE IF s.start # 0 THEN [s EXCEPT !.optind = s.start]
               ELSE s
  IN  [moved EXCEPT !.place = 0, !.start = 0, !.end = 0]

Returns(s, what) == [s |-> s, what |-> what]
Says(opt, arg) == [opt |-> opt, arg |-> arg]
Minus1 == Says("-1", 0)

(* parse_long_options: the name typed, in full or short; the argument after   *)
(* "=" or, where one is required, the next one.                               *)
Named(name) == {i \in DOMAIN Long : Long[i].name = name}
Partial(name) == {i \in DOMAIN Long : Long[i].name \in Abbrev[name]}

ParseLong(s, a) ==
  LET hits == IF Named(a.name) # {} THEN Named(a.name) ELSE Partial(a.name)
      first == CHOOSE i \in hits : \A j \in hits : i <= j
      differ == \E i \in hits : Long[i].arg # Long[first].arg \/ Long[i].val # Long[first].val
      next == [s EXCEPT !.optind = @ + 1, !.place = 0]
      o == Long[first]
  IN  IF hits = {} \/ differ THEN Returns(next, Says("?", 0))
      ELSE IF o.arg = "no" /\ a.eq THEN Returns(next, Says("?", 0))
      ELSE IF o.arg # "required" \/ a.eq
           THEN Returns(next, Says(o.val, IF a.eq THEN s.argv[s.optind] ELSE 0))
      ELSE IF next.optind > N THEN Returns(next, Says("?", 0))
      ELSE Returns([next EXCEPT !.optind = @ + 1], Says(o.val, next.argv[next.optind]))

(* A letter of a cluster.                                                     *)
ParseLetter(s) ==
  LET a == Arg(s)
      c == a.letters[s.place]
      last == s.place = Len(a.letters)
      on == IF last THEN [s EXCEPT !.optind = @ + 1, !.place = 0] ELSE [s EXCEPT !.place = @ + 1]
      over == [s EXCEPT !.optind = @ + 1, !.place = 0]
  IN  CASE c \notin DOMAIN Letters -> Returns(on, Says("?", 0))
        [] c \in DOMAIN Letters /\ Letters[c] = "no" -> Returns(on, Says(c, 0))
        [] c \in DOMAIN Letters /\ Letters[c] # "no" /\ ~last -> Returns(over, Says(c, s.argv[s.optind]))
        [] c \in DOMAIN Letters /\ Letters[c] = "optional" /\ last -> Returns(over, Says(c, 0))
        [] OTHER -> IF over.optind > N THEN Returns(over, Says("?", 0))
                    ELSE Returns([over EXCEPT !.optind = @ + 1], Says(c, over.argv[over.optind]))

(* A word: returned, or the end, or passed over with the words before it.     *)
PassedOver(s) ==
  LET begun == IF s.start = 0 THEN [s EXCEPT !.start = s.optind]
               ELSE IF s.end # 0
               THEN [PermuteArgs(s) EXCEPT !.start = s.optind - (s.end - s.start), !.end = 0]
               ELSE s
  IN  [begun EXCEPT !.optind = @ + 1]

(* getopt_internal, from the label start on.                                  *)
RECURSIVE Internal(_)
Internal(s) ==
  IF s.place # 0 THEN ParseLetter(s)
  ELSE IF s.optind > N THEN Returns(Ended(s), Minus1)
  ELSE LET a == Arg(s)
           marked == IF s.start # 0 /\ s.end = 0 THEN [s EXCEPT !.end = s.optind] ELSE s
       IN  CASE a.kind = "word" /\ mode = "inorder" ->
                  Returns([s EXCEPT !.optind = @ + 1], Says("INORDER", s.argv[s.optind]))
             [] a.kind = "word" /\ mode = "stop" -> Returns(s, Minus1)
             [] a.kind = "word" /\ mode = "permute" -> Internal(PassedOver(s))
             [] a.kind = "end" -> Returns(Ended([marked EXCEPT !.optind = @ + 1]), Minus1)
             [] a.kind = "long" -> ParseLong(marked, a)
             [] OTHER -> ParseLetter([marked EXCEPT !.place = 1])

Call ==
  /\ ~done
  /\ LET r == Internal(st)
     IN  /\ st' = r.s
         /\ done' = (r.what = Minus1)
         /\ said' = IF r.what = Minus1 THEN said ELSE Append(said, r.what)
  /\ UNCHANGED <<words, mode>>

GetOptInit ==
        /\ words \in CommandLines /\ mode \in {"permute", "stop", "inorder"}
        /\ st = [argv |-> [i \in 1 .. N |-> i], optind |-> 1, place |-> 0, start |-> 0, end |-> 0]
        /\ said = <<>> /\ done = FALSE

GetOptNext == Call

GetOptSpec == GetOptInit /\ [][GetOptNext]_getOptVars

-----------------------------------------------------------------------------
(* Read the arguments in the order they were typed: which are operands, and   *)
(* how many an option takes.                                                  *)
Takes(i) ==
  LET a == words[i]
      c == a.letters
      args == {k \in DOMAIN c : c[k] \in DOMAIN Letters /\ Letters[c[k]] # "no"}
      hits == IF Named(a.name) # {} THEN Named(a.name) ELSE Partial(a.name)
  IN  IF a.kind = "long"
      THEN ~a.eq /\ hits # {} /\ \A j \in hits : Long[j].arg = "required"
      ELSE args = {Len(c)} /\ Letters[c[Len(c)]] = "required"

RECURSIVE OperandsFrom(_)
OperandsFrom(i) ==
  IF i > N THEN {}
  ELSE CASE words[i].kind = "word" /\ mode = "stop" -> i .. N
         [] words[i].kind = "word" /\ mode = "permute" -> {i} \cup OperandsFrom(i + 1)
         [] words[i].kind = "word" /\ mode = "inorder" -> OperandsFrom(i + 1)
         [] words[i].kind = "end" -> (i + 1) .. N
         [] OTHER -> OperandsFrom(IF Takes(i) THEN i + 2 ELSE i + 1)

Increasing(s) == \A i, j \in DOMAIN s : i < j => s[i] < s[j]

(* Whatever the calls moved on the way, when they end every argument is still *)
(* there; those from optind on are the operands and those before it the rest, *)
(* each block in the order typed ("keeping the same order of arguments in     *)
(* each block", getopt_long.c:133); and the arguments the calls returned are  *)
(* those of the options they belong to.                                       *)
OptionsThenOperands ==
  LET before == SubSeq(st.argv, 1, st.optind - 1)
      after == SubSeq(st.argv, st.optind, N)
  IN  /\ done => /\ {after[i] : i \in DOMAIN after} = OperandsFrom(1)
                 /\ {before[i] : i \in DOMAIN before} = (1 .. N) \ OperandsFrom(1)
                 /\ Increasing(before) /\ Increasing(after)
      /\ \A k \in DOMAIN said : said[k].arg # 0 => said[k].arg \notin OperandsFrom(1)

-----------------------------------------------------------------------------
(* expr (third_party/openbsd/bin/expr/expr.c): a recursive descent parser     *)
(* that computes as it reads, on integers of Width bits with each operation's *)
(* own test for overflow.  An operand is a string; it becomes a number where  *)
(* one is needed, and a number a string where a string is.                    *)

CONSTANTS Width,      \* 64 in the code
          Commands    \* the argument vectors: sequences of [op, num, i, word]

VARIABLES argv, result

exprVars == <<argv, result>>

IntMin == -(2 ^ (Width - 1))
IntMax == 2 ^ (Width - 1) - 1
Wrap(n) == ((n - IntMin) % 2 ^ Width) + IntMin

(* Values: a number, in either form (is_integer tells), or another string.    *)
Num(i) == [num |-> TRUE, i |-> i, word |-> ""]
Str(t) == [num |-> t.num, i |-> t.i, word |-> t.word]

IsZeroOrNull(v) == IF v.num THEN v.i = 0 ELSE v.word = ""

(* strcoll of the texts: "" < "-1" < "-2" < ... < "0" < "1" < ... < words.    *)
Collates(v) == IF v.num THEN (IF v.i < 0 THEN -v.i - 2 * 2 ^ Width ELSE v.i)
               ELSE IF v.word = "" THEN -4 * 2 ^ Width ELSE 4 * 2 ^ Width

(* The division of C.                                                         *)
Quot(a, b) == LET q == (IF a < 0 THEN -a ELSE a) \div (IF b < 0 THEN -b ELSE b)
              IN  IF (a < 0) = (b < 0) THEN q ELSE -q

(* The parser: the token it looks at, the arguments after it, and the value   *)
(* it has, or why it stopped.                                                 *)
OPERAND == "operand"
EOI == "end"

(* nexttoken: after ":" whatever comes is an operand.                         *)
NextToken(rest, pat) ==
  IF rest = <<>> THEN [token |-> EOI, tok |-> <<>>, rest |-> <<>>]
  ELSE [token |-> IF pat \/ Head(rest).op = "" THEN OPERAND ELSE Head(rest).op,
        tok |-> <<Head(rest)>>, rest |-> Tail(rest)]

Got(p, v) == [ok |-> TRUE, p |-> p, v |-> v, why |-> ""]
Fails(why) == [ok |-> FALSE, p |-> <<>>, v |-> Num(0), why |-> why]

Ops(level) ==
  CASE level = 0 -> {"|"} [] level = 1 -> {"&"} [] level = 2 -> {"=", "!=", "<", ">", "<=", ">="}
    [] level = 3 -> {"+", "-"} [] level = 4 -> {"*", "/", "%"} [] OTHER -> {":"}

(* eval5: the text against the pattern (patterns here are plain text).        *)
Match(l, r) == IF l # r THEN Num(0)
               ELSE Num(IF r.num THEN (IF r.i < 0 THEN 2 ELSE 1) ELSE IF r.word = "" THEN 0 ELSE 1)

(* eval4                                                                      *)
Multiply(op, l, r) ==
  LET res == Wrap(l.i * r.i)
      back == IF r.i = 0 THEN 0 ELSE Wrap(Quot(res, r.i))
      edge == l.i = IntMin /\ r.i = -1
  IN  CASE op = "*" -> IF r.i # 0 /\ l.i # back THEN Fails("overflow") ELSE Got(<<>>, Num(res))
        [] op # "*" /\ r.i = 0 -> Fails("division by zero")
        [] op = "/" /\ r.i # 0 -> IF edge THEN Fails("overflow") ELSE Got(<<>>, Num(Quot(l.i, r.i)))
        [] OTHER -> Got(<<>>, Num(IF edge THEN 0 ELSE l.i - r.i * Quot(l.i, r.i)))

(* Mutant: nought minus the least number is not looked at.                    *)
AddNoZero(op, l, r) ==
  LET res == Wrap(IF op = "+" THEN l.i + r.i ELSE l.i - r.i)
      over == IF op = "+" THEN l.i * r.i > 0 /\ l.i * res <= 0 ELSE l.i * r.i < 0 /\ l.i * res <= 0
  IN  IF over THEN Fails("overflow") ELSE Got(<<>>, Num(res))

(* eval3                                                                      *)
Add(op, l, r) ==
  LET res == Wrap(IF op = "+" THEN l.i + r.i ELSE l.i - r.i)
      over == IF op = "+" THEN \/ l.i > 0 /\ r.i > 0 /\ res <= 0
                               \/ l.i < 0 /\ r.i < 0 /\ res >= 0
              ELSE \/ l.i >= 0 /\ r.i < 0 /\ res <= 0
                   \/ l.i < 0 /\ r.i > 0 /\ res >= 0
  IN  IF over THEN Fails("overflow") ELSE Got(<<>>, Num(res))

(* eval2: as numbers when both are, else as texts.                            *)
Compare(op, l, r) ==
  LET a == IF l.num /\ r.num THEN l.i ELSE Collates(l)
      b == IF l.num /\ r.num THEN r.i ELSE Collates(r)
      v == CASE op = "=" -> a = b [] op = "!=" -> a # b [] op = "<" -> a < b
             [] op = ">" -> a > b [] op = "<=" -> a <= b [] OTHER -> a >= b
  IN  Num(IF v THEN 1 ELSE 0)

Apply(level, op, l, r) ==
  CASE level = 0 -> Got(<<>>, IF IsZeroOrNull(l) THEN r ELSE l)
    [] level = 1 -> Got(<<>>, IF IsZeroOrNull(l) \/ IsZeroOrNull(r) THEN Num(0) ELSE l)
    [] level = 2 -> Got(<<>>, Compare(op, l, r))
    [] level = 5 -> Got(<<>>, Match(l, r))
    [] level \in {3, 4} /\ (~l.num \/ ~r.num) -> Fails("not a number")
    [] level = 3 /\ l.num /\ r.num -> Add(op, l, r)
    [] OTHER -> Multiply(op, l, r)

(* eval0 .. eval6: one level binds tighter than the one before.               *)
RECURSIVE Eval(_, _), EvalMore(_, _)
Eval(level, p) ==
  IF level < 6 THEN EvalMore(level, Eval(level + 1, p))
  ELSE IF p.token = OPERAND THEN Got(NextToken(p.rest, FALSE), Str(p.tok[1]))
  ELSE IF p.token # "(" THEN Fails("syntax error")
  ELSE LET inner == Eval(0, NextToken(p.rest, FALSE))
       IN  IF ~inner.ok THEN inner
           ELSE IF inner.p.token # ")" THEN Fails("syntax error")
           ELSE Got(NextToken(inner.p.rest, FALSE), inner.v)

EvalMore(level, l) ==
  IF ~l.ok \/ l.p.token \notin Ops(level) THEN l
  ELSE LET r == Eval(level + 1, NextToken(l.p.rest, level = 5))
           res == Apply(level, l.p.token, l.v, r.v)
       IN  IF ~r.ok THEN r
           ELSE IF ~res.ok THEN res
           ELSE EvalMore(level, Got(r.p, res.v))

Main ==
  /\ result = <<>>
  /\ LET r == Eval(0, NextToken(argv, FALSE))
     IN  result' = <<IF ~r.ok THEN r ELSE IF r.p.token # EOI THEN Fails("syntax error") ELSE r>>
  /\ UNCHANGED argv

ExprInit == argv \in Commands /\ result = <<>>
ExprNext == Main
ExprSpec == ExprInit /\ [][ExprNext]_exprVars

-----------------------------------------------------------------------------
(* The value of an expression, by splitting it at the last operator that      *)
(* binds least outside parentheses, computed on unbounded integers.           *)
Tokens[k \in DOMAIN argv] ==
  IF argv[k].op = "" \/ (k > 1 /\ Tokens[k - 1] = ":") THEN OPERAND ELSE argv[k].op

RECURSIVE Depth(_, _)
Depth(a, k) ==
  IF k < a THEN 0
  ELSE Depth(a, k - 1) + (IF Tokens[k] = "(" THEN 1 ELSE IF Tokens[k] = ")" THEN -1 ELSE 0)

Exact(level, op, l, r) ==
  LET x == CASE op = "+" -> l.i + r.i [] op = "-" -> l.i - r.i [] op = "*" -> IF l.i = IntMin /\ r.i = -1 THEN IntMin ELSE l.i * r.i
             [] op = "/" -> Quot(l.i, r.i) [] OTHER -> l.i - r.i * Quot(l.i, r.i)
  IN  IF level \in {3, 4} /\ l.num /\ r.num /\ (op \in {"/", "%"} => r.i # 0)
      THEN IF x \in IntMin .. IntMax THEN Got(<<>>, Num(x)) ELSE Fails("")
      ELSE IF level \in {3, 4} THEN Fails("")
      ELSE Apply(level, op, l, r)

RECURSIVE Value(_, _)
Value(a, b) ==
  LET at(level) == {k \in a + 1 .. b - 1 : Tokens[k] \in Ops(level) /\ Depth(a, k) = 0}
      levels == {v \in 0 .. 5 : at(v) # {}}
      level == CHOOSE v \in levels : \A w \in levels : v <= w
      k == CHOOSE x \in at(level) : \A y \in at(level) : y <= x
      l == Value(a, k - 1)
      r == Value(k + 1, b)
  IN  IF a > b THEN Fails("")
      ELSE IF levels # {} THEN IF l.ok /\ r.ok THEN Exact(level, Tokens[k], l.v, r.v) ELSE Fails("")
      ELSE IF a = b THEN IF Tokens[a] = OPERAND THEN Got(<<>>, Str(argv[a])) ELSE Fails("")
      ELSE IF Tokens[a] = "(" /\ Tokens[b] = ")" THEN Value(a + 1, b - 1)
      ELSE Fails("")

(* expr prints the value its grammar gives, or stops with an error just when  *)
(* there is none: a syntax error, a string for a number, a division by zero   *)
(* or a result that does not fit.  (The least number times -1 is taken as the *)
(* code has it: eval4 undoes the product with a division that wraps as well,  *)
(* and sees no overflow.)                                                     *)
ExprTrue ==
  result # <<>> =>
    LET want == Value(1, Len(argv))
        got == result[1]
    IN  got.ok = want.ok /\ (got.ok => got.v = want.v)

-----------------------------------------------------------------------------
(* The programs that go through sorted lines once: comm, join and uniq        *)
(* (third_party/openbsd/usr.bin).  A line is its key, the part compared, and  *)
(* a number that tells it from the others; key 0 is a line without the field  *)
(* to join on.                                                                *)

CONSTANTS Keys, MaxLines

VARIABLES tool,       \* "comm", "join" or "uniq"
          flags,      \* comm: the columns shown; join: [a1, a2, both]; uniq: [d, u]
          file,       \* the two files, as they were
          F,          \* how far each is read
          pc, out

mergingVars == <<tool, flags, file, F, pc, out>>

Sorted == {s \in SeqOf(Keys, MaxLines) : \A i \in 1 .. Len(s) - 1 : s[i] <= s[i + 1]}
Lines(keys, n) == [i \in DOMAIN keys |-> [key |-> keys[i], id |-> 10 * n + i]]
None == [key |-> 0, id |-> 0]

(* comm: a line of each file is at hand.                                      *)
Fetch(f, read) ==
  IF ~read THEN f
  ELSE IF f.rest = <<>> THEN [f EXCEPT !.done = TRUE]
  ELSE [f EXCEPT !.line = Head(f.rest), !.rest = Tail(f.rest)]

Put(col, lines) == IF col \in flags THEN out \o [i \in DOMAIN lines |-> <<col, lines[i].id>>] ELSE out

(* One turn of the loop of comm.                                              *)
CommTurn ==
  /\ tool = "comm" /\ pc = "turn"
  /\ LET a == Fetch(F[1], F[1].read)
         b == Fetch(F[2], F[2].read)
         both == a.line.key = b.line.key
         first == a.line.key < b.line.key
     IN  /\ F' = <<[a EXCEPT !.read = both \/ first], [b EXCEPT !.read = ~first]>>
         /\ CASE a.done /\ b.done -> pc' = "end" /\ out' = out
              [] a.done /\ ~b.done -> pc' = "end" /\ out' = Put(2, <<b.line>> \o b.rest)
              [] ~a.done /\ b.done -> pc' = "end" /\ out' = Put(1, <<a.line>> \o a.rest)
              [] ~a.done /\ ~b.done /\ both -> pc' = pc /\ out' = Put(3, <<a.line>>)
              [] ~a.done /\ ~b.done /\ first -> pc' = pc /\ out' = Put(1, <<a.line>>)
              [] OTHER -> pc' = pc /\ out' = Put(2, <<b.line>>)
  /\ UNCHANGED <<tool, flags, file>>

(* join: slurp reads the lines with the next key into set; the first line     *)
(* with another key stays in the array, past the set, and is pushed back.     *)
Swap(set, i, j) == [set EXCEPT ![i] = set[j], ![j] = set[i]]
Room(set, i) == IF i > Len(set) THEN Append(set, None) ELSE set

RECURSIVE SlurpFrom(_, _)
SlurpFrom(f, cnt) ==
  LET set == Room(f.set, cnt + 1)
      line == IF f.rest = <<>> THEN None ELSE Head(f.rest)
      read == [f EXCEPT !.set = [set EXCEPT ![cnt + 1] = line], !.rest = Tail(@)]
  IN  IF f.push # 0
      THEN SlurpFrom([f EXCEPT !.set = Swap(set, cnt + 1, f.push), !.push = 0], cnt + 1)
      ELSE IF f.rest = <<>> THEN [f EXCEPT !.set = set, !.setcnt = cnt]
      ELSE IF cnt > 0 /\ set[cnt].key # line.key THEN [read EXCEPT !.push = cnt + 1, !.setcnt = cnt]
      ELSE SlurpFrom(read, cnt + 1)

(* Mutant: the line pushed back is forgotten.                                 *)
SlurpForgets(f) == SlurpFrom([f EXCEPT !.push = 0], 0)

Slurp(f) == SlurpFrom(f, 0)

(* joinlines: a line of one file, or every pair.                              *)
Alone(n, f) == [i \in 1 .. f.setcnt |-> IF n = 1 THEN <<f.set[i].id, 0>> ELSE <<0, f.set[i].id>>]
Pairs(f, g) == [k \in 1 .. f.setcnt * g.setcnt |->
                  <<f.set[((k - 1) \div g.setcnt) + 1].id, g.set[((k - 1) % g.setcnt) + 1].id>>]

JoinStart ==
  /\ tool = "join" /\ pc = "start"
  /\ F' = <<Slurp(F[1]), Slurp(F[2])>> /\ pc' = "turn"
  /\ UNCHANGED <<tool, flags, file, out>>

JoinTurn ==
  /\ tool = "join" /\ pc = "turn" /\ F[1].setcnt > 0 /\ F[2].setcnt > 0
  /\ LET x == F[1].set[1].key
         y == F[2].set[1].key
     IN  CASE x = y -> /\ out' = IF flags.both THEN out \o Pairs(F[1], F[2]) ELSE out
                       /\ F' = <<Slurp(F[1]), Slurp(F[2])>>
           [] x < y -> /\ out' = IF flags.a1 THEN out \o Alone(1, F[1]) ELSE out
                       /\ F' = [F EXCEPT ![1] = Slurp(@)]
           [] OTHER -> /\ out' = IF flags.a2 THEN out \o Alone(2, F[2]) ELSE out
                       /\ F' = [F EXCEPT ![2] = Slurp(@)]
  /\ UNCHANGED <<tool, flags, file, pc>>

(* The rest of one file, when the other is used up.                           *)
JoinRest ==
  /\ tool = "join" /\ pc = "turn" /\ (F[1].setcnt = 0 \/ F[2].setcnt = 0)
  /\ IF flags.a1 /\ F[1].setcnt > 0
     THEN out' = out \o Alone(1, F[1]) /\ F' = [F EXCEPT ![1] = Slurp(@)] /\ pc' = pc
     ELSE IF flags.a2 /\ F[2].setcnt > 0
     THEN out' = out \o Alone(2, F[2]) /\ F' = [F EXCEPT ![2] = Slurp(@)] /\ pc' = pc
     ELSE pc' = "end" /\ UNCHANGED <<out, F>>
  /\ UNCHANGED <<tool, flags, file>>

(* uniq: prevline and how often it was repeated.                              *)
Show(f) == IF (flags.d /\ f.repeats > 0) \/ (flags.u /\ f.repeats = 0)
           THEN Append(out, <<f.line.id, f.repeats + 1>>) ELSE out

UniqStart ==
  /\ tool = "uniq" /\ pc = "start"
  /\ IF F[1].rest = <<>> THEN pc' = "end" /\ UNCHANGED F
     ELSE pc' = "turn" /\ F' = [F EXCEPT ![1].line = Head(F[1].rest), ![1].rest = Tail(@)]
  /\ UNCHANGED <<tool, flags, file, out>>

UniqTurn ==
  /\ tool = "uniq" /\ pc = "turn"
  /\ LET f == F[1]
         t == Head(f.rest)
     IN  CASE f.rest = <<>> -> out' = Show(f) /\ pc' = "end" /\ F' = F
           [] f.rest # <<>> /\ t.key # f.line.key ->
                /\ out' = Show(f) /\ pc' = pc
                /\ F' = [F EXCEPT ![1] = [f EXCEPT !.line = t, !.rest = Tail(@), !.repeats = 0]]
           [] OTHER -> /\ out' = out /\ pc' = pc
                       /\ F' = [F EXCEPT ![1] = [f EXCEPT !.rest = Tail(@), !.repeats = @ + 1]]
  /\ UNCHANGED <<tool, flags, file>>

Input(lines) == [rest |-> lines, line |-> None, done |-> FALSE, read |-> TRUE,
                 set |-> <<>>, setcnt |-> 0, push |-> 0, repeats |-> 0]

MergingInit ==
         /\ tool \in {"comm", "join", "uniq"}
         /\ flags \in CASE tool = "comm" -> SUBSET (1 .. 3)
                        [] tool = "join" -> [a1 : BOOLEAN, a2 : BOOLEAN, both : BOOLEAN]
                        [] OTHER -> {[d |-> TRUE, u |-> TRUE], [d |-> TRUE, u |-> FALSE], [d |-> FALSE, u |-> TRUE]}
         /\ \E a, b \in Sorted :
              /\ tool = "uniq" => b = <<>>
              /\ file = <<Lines(a, 1), Lines(b, 2)>>
              /\ F = <<Input(Lines(a, 1)), Input(Lines(b, 2))>>
         /\ pc = IF tool = "comm" THEN "turn" ELSE "start"
         /\ out = <<>>

MergingNext == CommTurn \/ JoinStart \/ JoinTurn \/ JoinRest \/ UniqStart \/ UniqTurn

MergingSpec == MergingInit /\ [][MergingNext]_mergingVars

-----------------------------------------------------------------------------
(* What the programs are for, read off the whole files.                       *)
With(n, k) == {i \in DOMAIN file[n] : file[n][i].key = k}
Id(n, i) == file[n][i].id
Rank(n, i) == Cardinality({j \in With(n, file[n][i].key) : j <= i})
Twin(n, i, m) == Rank(n, i) <= Cardinality(With(m, file[n][i].key))

CommOf ==
  {<<1, Id(1, i)>> : i \in {j \in DOMAIN file[1] : 1 \in flags /\ ~Twin(1, j, 2)}}
  \cup {<<2, Id(2, i)>> : i \in {j \in DOMAIN file[2] : 2 \in flags /\ ~Twin(2, j, 1)}}
  \cup {<<3, Id(1, i)>> : i \in {j \in DOMAIN file[1] : 3 \in flags /\ Twin(1, j, 2)}}

JoinOf ==
  {<<Id(1, i), Id(2, j)>> : <<i, j>> \in {p \in (DOMAIN file[1]) \X (DOMAIN file[2]) :
                                            flags.both /\ file[1][p[1]].key = file[2][p[2]].key}}
  \cup {<<Id(1, i), 0>> : i \in {j \in DOMAIN file[1] : flags.a1 /\ With(2, file[1][j].key) = {}}}
  \cup {<<0, Id(2, i)>> : i \in {j \in DOMAIN file[2] : flags.a2 /\ With(1, file[2][j].key) = {}}}

UniqOf ==
  {<<Id(1, i), Cardinality(With(1, file[1][i].key))>> :
     i \in {j \in DOMAIN file[1] : /\ Rank(1, j) = 1
                                   /\ \/ flags.d /\ Cardinality(With(1, file[1][j].key)) > 1
                                      \/ flags.u /\ Cardinality(With(1, file[1][j].key)) = 1}}

(* Going once through the sorted lines shows what the whole files say: comm   *)
(* pairs off equal lines and puts each other line in its own column, join     *)
(* gives every pair of lines with the same field and the lines without one,   *)
(* uniq one line of each run with its count; nothing is shown twice.          *)
MergedTrue ==
  /\ Cardinality(ToSet(out)) = Len(out)
  /\ LET all == CASE tool = "comm" -> CommOf [] tool = "join" -> JoinOf [] OTHER -> UniqOf
     IN  ToSet(out) \subseteq all /\ (pc = "end" => ToSet(out) = all)
=============================================================================
