----------------------------- MODULE ForthWords -----------------------------
(***************************************************************************)
(* Words of the Forth system that compute: stack words and arithmetic      *)
(* (kernel/forth.c, forth/bootstrap/bootstrap.fs), counted loops, and the  *)
(* conversion between numbers and text.  A cell has CellBits bits and is   *)
(* kept as an unsigned number.  At the end they are computed for all small *)
(* inputs and compared with reference definitions.                         *)
(***************************************************************************)
EXTENDS Integers, Sequences, SequencesExt, Folds, Tasks

CONSTANTS
  CellBits,   \* width of a cell
  Bases,      \* number bases
  LeftFirst   \* does the compiler evaluate the left POP() of a comparison first?

Size == 2 ^ CellBits
Half == 2 ^ (CellBits - 1)
Cell == 0 .. Size - 1
Signed(u) == IF u >= Half THEN u - Size ELSE u
Wrap(n) == n % Size
Flag(b) == IF b THEN Size - 1 ELSE 0

\* Doubles are pairs <<low, high>>, as DPUSH leaves them.
Double(n) == <<n % Size, (n \div Size) % Size>>
Unsigned2(d) == d[2] * Size + d[1]
Signed2(d) == IF d[2] >= Half THEN Unsigned2(d) - Size * Size ELSE Unsigned2(d)
-----------------------------------------------------------------------------
\* Stack words.  Item(i, r) is r = GETITEM(i), Pop(r) is r = POP(), Push(r) is
\* PUSH(r), PopR and PushR are the same for the return stack.
Item(i, r) == <<"item", i, r>>
Pop(r) == <<"pop", 0, r>>
Push(r) == <<"push", 0, r>>
PopR(r) == <<"popr", 0, r>>
PushR(r) == <<"pushr", 0, r>>

Primitive ==
  [dup |-> <<Item(0, 1), Push(1)>>,
   twodup |-> <<Item(1, 1), Push(1), Item(1, 1), Push(1)>>,
   over |-> <<Item(1, 1), Push(1)>>,
   twoover |-> <<Item(3, 1), Item(2, 2), Push(1), Push(2)>>,
   drop |-> <<Pop(1)>>,
   twodrop |-> <<Pop(1), Pop(1)>>,
   nip |-> <<Pop(1), Pop(2), Push(1)>>,
   rot |-> <<Pop(1), Pop(2), Pop(3), Push(2), Push(1), Push(3)>>,
   minusrot |-> <<Pop(1), Pop(2), Pop(3), Push(1), Push(3), Push(2)>>,
   swap |-> <<Pop(1), Pop(2), Push(1), Push(2)>>,
   twoswap |-> <<Pop(1), Pop(2), Pop(3), Pop(4), Push(2), Push(1), Push(4), Push(3)>>,
   tor |-> <<Pop(1), PushR(1)>>,
   rto |-> <<PopR(1), Push(1)>>]

\* Words defined in Forth; they find their own return address on the return
\* stack.
Colon ==
  [tuck |-> <<"swap", "over">>,
   threedrop |-> <<"twodrop", "drop">>,
   tworot |-> <<"tor", "tor", "twoswap", "rto", "rto", "twoswap">>,
   twotor |-> <<"rto", "minusrot", "swap", "tor", "tor", "tor">>,
   tworto |-> <<"rto", "rto", "rto", "rot", "tor", "swap">>,
   tworfetch |-> <<"rto", "rto", "rto", "twodup", "tor", "tor", "rot", "tor", "swap">>,
   unloop |-> <<"rto", "rto", "rto", "twodrop", "tor">>]

GETITEM(d, i) == d[Len(d) - i]

Micro(s, op) ==
  CASE op[1] = "item" -> [s EXCEPT !.reg[op[3]] = GETITEM(s.d, op[2])]
    [] op[1] = "pop" -> [s EXCEPT !.reg[op[3]] = Last(s.d), !.d = Front(s.d)]
    [] op[1] = "push" -> [s EXCEPT !.d = Append(s.d, s.reg[op[3]])]
    [] op[1] = "popr" -> [s EXCEPT !.reg[op[3]] = Last(s.r), !.r = Front(s.r)]
    [] OTHER -> [s EXCEPT !.r = Append(s.r, s.reg[op[3]])]

RunPrimitive(s, w) == FoldLeft(Micro, s, Primitive[w])

\* A colon definition: docol pushes the return address, semis takes it off.
RunWord(w, d, r) ==
  LET s == [d |-> d, r |-> r, reg |-> <<"", "", "", "">>]
      t == IF w \in DOMAIN Primitive THEN RunPrimitive(s, w)
           ELSE FoldLeft(RunPrimitive, [s EXCEPT !.r = Append(r, "ret")], Colon[w])
  IN  IF w \in DOMAIN Primitive THEN <<t.d, t.r>>
      ELSE <<t.d, IF Last(t.r) = "ret" THEN Front(t.r) ELSE <<"lost">> >>

\* The test for underrun lets the unused slot below the bottom pass.
Below(s) == <<"below">> \o s
pick(s, u) == IF Len(s) >= u THEN Append(s, Below(s)[Len(s) - u + 1]) ELSE s
roll(s, u) ==
  IF Len(s) >= u
  THEN Append(Tail(RemoveAt(Below(s), Len(s) - u + 1)), Below(s)[Len(s) - u + 1])
  ELSE s
-----------------------------------------------------------------------------
\* Arithmetic.
negate(u) == Wrap(-Signed(u))
abs(u) == IF Signed(u) < 0 THEN negate(u) ELSE u
mudivmod(d, b) == [rem |-> Wrap(Unsigned2(d) % b), quot |-> Double(Unsigned2(d) \div b)]
dplus(d, e) == Double((Unsigned2(d) + Unsigned2(e)) % (Size * Size))
dminus(d, e) == Double((Unsigned2(d) - Unsigned2(e)) % (Size * Size))
mmult(a, b) == Double((Signed(a) * Signed(b)) % (Size * Size))
ummult(a, b) == Double(a * b)

s_to_d(u) == <<u, Flag(Signed(u) < 0)>>
dnegate(d) == dminus(<<0, 0>>, d)
dabs(d) == IF Signed(d[2]) < 0 THEN dnegate(d) ELSE d
um_mod(d, n) == LET m == mudivmod(d, n) IN <<m.rem, m.quot[1]>>

sm_rem(d, n) ==
  LET m == um_mod(dabs(d), abs(n))
      q == IF Signed(n) < 0 THEN negate(m[2]) ELSE m[2]
  IN  IF Signed(d[2]) < 0 THEN <<negate(m[1]), negate(q)>> ELSE <<m[1], q>>

fm_mod(d, n) ==
  LET m == sm_rem(d, n)
      signsDiffer == (Signed(d[2]) < 0) # (Signed(n) < 0)
  IN  IF m[1] # 0 /\ signsDiffer THEN <<Wrap(m[1] + n), Wrap(m[2] - 1)>> ELSE m

star_slash_mod(a, b, n) == fm_mod(mmult(a, b), n)
slash_mod(a, n) == fm_mod(s_to_d(a), n)

\* "<" pops twice in one expression; C leaves open which POP comes first.
Popped(a, b) == IF LeftFirst THEN <<b, a>> ELSE <<a, b>>
less(a, b) == Flag(Signed(Popped(a, b)[1]) > Signed(Popped(a, b)[2]))
greater(a, b) == Flag(Signed(Popped(a, b)[1]) < Signed(Popped(a, b)[2]))
uless(a, b) == Flag(Popped(a, b)[1] > Popped(a, b)[2])
ugreater(a, b) == Flag(Popped(a, b)[1] < Popped(a, b)[2])

\* >r over > swap r> >= or not
within(n, min, max) == Flag(~(greater(min, n) # 0 \/ less(n, max) = 0))
-----------------------------------------------------------------------------
\* Counted loops: does (loop), does (+loop) branch back?
doloop(i, end) == Signed(Wrap(i + 1)) < Signed(end)

doplusloop_Sign(i, end, inc) == Wrap(end - i - 1) >= inc
doplusloop(i, end, inc) ==
  LET next == Wrap(i + inc)
      low == IF Signed(inc) >= 0 THEN i ELSE next
      high == IF Signed(inc) >= 0 THEN next ELSE i
  IN  Wrap(end - (low + 1)) >= Wrap(high - low)
-----------------------------------------------------------------------------
\* Text is a sequence of character codes.
todigit(n) == IF n > 9 THEN n + 32 + 7 + 48 ELSE n + 48
upc(c) == IF c \in 97 .. 122 THEN c - 32 ELSE c

\* The digit's value, or -1.
digit(c, base) ==
  LET u == upc(c)
      n == IF u \in 65 .. 90 THEN u - 7 - 48 ELSE IF u > 57 THEN -1 ELSE u - 48
  IN  IF n \in 0 .. base - 1 THEN n ELSE -1

RECURSIVE sharp_s(_, _, _)
sharp_s(d, base, text) ==
  LET m == mudivmod(d, base)
      t == <<todigit(m.rem)>> \o text
  IN  IF m.quot = <<0, 0>> THEN t ELSE sharp_s(m.quot, base, t)

dot(n, base) ==
  LET t == sharp_s(<<abs(n), 0>>, base, <<>>) IN
  IF Signed(n) < 0 THEN <<45>> \o t ELSE t

u_dot(n, base) == sharp_s(<<n, 0>>, base, <<>>)

RECURSIVE to_number(_, _, _)
to_number(d, text, base) ==
  IF text = <<>> \/ digit(Head(text), base) = -1 THEN [d |-> d, rest |-> text]
  ELSE to_number(dplus(<<digit(Head(text), base), ummult(d[2], base)[1]>>, ummult(d[1], base)),
                 Tail(text), base)

\* $number of a text without "." and ",": a single number, the low half of a
\* double, or nothing.
number(text, base) ==
  LET minus == Head(text) = 45
      r == to_number(<<0, 0>>, IF minus THEN Tail(text) ELSE text, base)
  IN  IF r.rest # <<>> THEN <<>>
      ELSE IF r.d[2] # 0 THEN <<IF minus THEN dnegate(r.d)[1] ELSE r.d[1]>>
      ELSE <<IF minus THEN negate(r.d[1]) ELSE r.d[1]>>
-----------------------------------------------------------------------------
DivideTasks == [op : {"divide"}, d : Cell \X Cell, n : Cell \ {0}]
CompareTasks == [op : {"compare"}, a : Cell, b : Cell, c : Cell]
LoopTasks == [op : {"loop"}, start : Cell, end : Cell, inc : Cell \ {0}]
NumberTasks == [op : {"number"}, n : Cell, base : Bases]
StackTasks == [op : {"stack"}, word : (DOMAIN Primitive) \cup (DOMAIN Colon)]
PickTasks == [op : {"pick"}, depth : 1 .. 4, u : 0 .. 5]

ForthTasks == DivideTasks \cup CompareTasks \cup LoopTasks \cup NumberTasks
              \cup StackTasks \cup PickTasks

\* The indices that the body of a loop sees, up to one turn of the number circle.
RECURSIVE LoopIndices(_, _, _, _)
LoopIndices(i, end, inc, n) ==
  IF n = 0 \/ ~doplusloop(i, end, inc) THEN <<i>>
  ELSE <<i>> \o LoopIndices(Wrap(i + inc), end, inc, n - 1)

DivideTask ==
  Compute("divide", <<fm_mod(task.d, task.n), sm_rem(task.d, task.n), um_mod(task.d, task.n),
                      slash_mod(task.d[1], task.n), star_slash_mod(task.d[1], task.d[2], task.n)>>)
CompareTask ==
  Compute("compare", <<less(task.a, task.b), greater(task.a, task.b), uless(task.a, task.b),
                       ugreater(task.a, task.b), within(task.a, task.b, task.c)>>)
LoopTask ==
  Compute("loop", <<LoopIndices(task.start, task.end, task.inc, Size), doloop(task.start, task.end)>>)
NumberTask ==
  Compute("number", <<number(dot(task.n, task.base), task.base),
                      number(u_dot(task.n, task.base), task.base)>>)
Items == <<"x1", "x2", "x3", "x4", "x5", "x6">>
StackTask == Compute("stack", RunWord(task.word, Items, <<"r1", "r2", "r3">>))
PickTask ==
  LET s == SubSeq(Items, 1, task.depth) IN Compute("pick", <<pick(s, task.u), roll(s, task.u)>>)

ForthTask == DivideTask \/ CompareTask \/ LoopTask \/ NumberTask \/ StackTask \/ PickTask

-----------------------------------------------------------------------------
Floor(a, b) == IF b > 0 THEN a \div b ELSE (-a) \div (-b)
Fits(q) == q \in -Half .. Half - 1

\* fm/mod, /mod and */mod give the floored quotient and the remainder that goes
\* with it, sm/rem the one rounded to zero, um/mod the unsigned one, for all
\* signs and the extreme numbers, whenever the quotient fits into a cell.
DivisionRight ==
  Computed("divide") =>
    LET d == Signed2(task.d)
        n == Signed(task.n)
        Floored(x, r) ==
          LET q == Floor(x, n) IN
          Fits(q) => /\ Signed(r[2]) = q
                     /\ Signed(r[1]) = x - q * n
        Abs(x) == IF x < 0 THEN -x ELSE x
        sym == (IF (d < 0) # (n < 0) THEN -1 ELSE 1) * (Abs(d) \div Abs(n))
        u == Unsigned2(task.d)
    IN  /\ Floored(d, result[1])
        /\ Fits(sym) => /\ Signed(result[2][2]) = sym
                        /\ Signed(result[2][1]) = d - sym * n
        /\ u \div task.n < Size => result[3] = <<u % task.n, u \div task.n>>
        /\ Floored(Signed(task.d[1]), result[4])
        /\ Floored(Signed(task.d[1]) * Signed(task.d[2]), result[5])

\* The comparisons order cells as signed and as unsigned numbers.  Their C code
\* pops both operands in one expression.
ComparisonsRight ==
  Computed("compare") =>
    LET a == Signed(task.a)
        b == Signed(task.b)
        c == Signed(task.c)
    IN  result = <<Flag(a < b), Flag(a > b), Flag(task.a < task.b), Flag(task.a > task.b),
                   Flag(b <= a /\ a < c)>>

\* A counted loop ends when the index crosses the boundary between limit - 1 and
\* limit, in the direction of the increment; (loop) does so for ascending limits.
LoopsRight ==
  Computed("loop") =>
    LET inc == Signed(task.inc)
        Crosses(i) ==
          LET y == Signed(Wrap(i - task.end)) IN
          IF inc >= 0 THEN y < 0 /\ y + inc >= 0 ELSE y >= 0 /\ y + inc < 0
        seen == result[1]
    IN  /\ \A k \in 1 .. Len(seen) - 1 : ~Crosses(seen[k])
        /\ \A k \in 1 .. Len(seen) - 1 : seen[k + 1] = Wrap(seen[k] + task.inc)
        /\ Len(seen) <= Size => Crosses(Last(seen))
        /\ Signed(task.start) < Signed(task.end) =>
             result[2] = (Signed(task.start) + 1 # Signed(task.end))

\* What "." and "u." print, $number reads back as the same cell, in every base,
\* the most negative number included.
NumbersReadBack == Computed("number") => result = <<<<task.n>>, <<task.n>>>>

\* What the stack words leave of x1 ... x6, as their comments picture it.
Picture ==
  [dup |-> <<1, 2, 3, 4, 5, 6, 6>>,
   twodup |-> <<1, 2, 3, 4, 5, 6, 5, 6>>,
   over |-> <<1, 2, 3, 4, 5, 6, 5>>,
   twoover |-> <<1, 2, 3, 4, 5, 6, 3, 4>>,
   drop |-> <<1, 2, 3, 4, 5>>,
   twodrop |-> <<1, 2, 3, 4>>,
   nip |-> <<1, 2, 3, 4, 6>>,
   rot |-> <<1, 2, 3, 5, 6, 4>>,
   minusrot |-> <<1, 2, 3, 6, 4, 5>>,
   swap |-> <<1, 2, 3, 4, 6, 5>>,
   twoswap |-> <<1, 2, 5, 6, 3, 4>>,
   tor |-> <<1, 2, 3, 4, 5>>,
   rto |-> <<1, 2, 3, 4, 5, 6, 0>>,
   tuck |-> <<1, 2, 3, 4, 6, 5, 6>>,
   threedrop |-> <<1, 2, 3>>,
   tworot |-> <<3, 4, 5, 6, 1, 2>>,
   twotor |-> <<1, 2, 3, 4>>,
   tworto |-> <<1, 2, 3, 4, 5, 6, -1, 0>>,
   tworfetch |-> <<1, 2, 3, 4, 5, 6, -1, 0>>,
   unloop |-> <<1, 2, 3, 4, 5, 6>>]

PictureR(w) ==
  CASE w = "tor" -> <<"r1", "r2", "r3", "x6">>
    [] w = "rto" -> <<"r1", "r2">>
    [] w = "twotor" -> <<"r1", "r2", "r3", "x5", "x6">>
    [] w \in {"tworto", "unloop"} -> <<"r1">>
    [] OTHER -> <<"r1", "r2", "r3">>

\* The stack words rearrange both stacks as pictured, and those defined in Forth
\* return to their caller although its address lies on the stack they change.
StackPictures ==
  Computed("stack") =>
    /\ result[2] = PictureR(task.word)
    /\ result[1] = [k \in DOMAIN Picture[task.word] |->
                      LET x == Picture[task.word][k] IN
                      IF x = 0 THEN "r3" ELSE IF x = -1 THEN "r2" ELSE Items[x]]

\* pick copies and roll moves the item that is u below the top.
PickAndRoll ==
  Computed("pick") /\ task.u < task.depth =>
    LET s == SubSeq(Items, 1, task.depth)
        i == task.depth - task.u
    IN  /\ result[1] = Append(s, s[i])
        /\ result[2] = SubSeq(s, 1, i - 1) \o SubSeq(s, i + 1, Len(s)) \o <<s[i]>>

\* The computing words agree with their reference definitions on every cell:
\* division, comparison, counted loops, printing and reading numbers, and the
\* words that rearrange the stacks.
ForthWordsRight ==
  /\ DivisionRight /\ ComparisonsRight /\ LoopsRight
  /\ NumbersReadBack /\ StackPictures /\ PickAndRoll
=============================================================================
