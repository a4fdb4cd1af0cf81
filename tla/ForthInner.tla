----------------------------- MODULE ForthInner -----------------------------
(***************************************************************************)
(* The inner interpreter of the Forth kernel (kernel/forth.c), "catch" and *)
(* "throw" (forth/bootstrap/bootstrap.fs) and the calls between C and      *)
(* Forth (libopenbios/bindings.c).  The program is any program: at every   *)
(* cell of a colon definition any operation may stand.  A code address is  *)
(* <<place, cell>>, place being a colon definition ("u", "catch", "throw"),*)
(* the trampoline "tramp" or, for what C calls first, "c".                 *)
(*                                                                         *)
(* "frames", "here", "stack" and "mine" say what the program is to do: a   *)
(* word returns to where it was called, an exception goes to the innermost *)
(* catch, which restores the depth of the stack and the instance.          *)
(***************************************************************************)
EXTENDS Integers, Sequences, SequencesExt

CONSTANTS
  MaxCells,     \* length of colon definitions
  MaxFrames,    \* nesting of calls
  MaxStack,     \* items on the data stack
  PopThrough    \* may exceptions pass through a C function that pops a result?

VARIABLES
  pc,           \* PC: the cell executed last
  rstack, dstack,
  tramp,        \* trampoline[1]
  cs,           \* active enterforth calls: who called, and its tmp
  catchframe,   \* depth of the return stack at the innermost catch
  self,         \* my-self
  frames, here, stack, mine

machine == <<pc, rstack, dstack, tramp, cs, catchframe, self>>
intent == <<frames, here, stack, mine>>
innerVars == <<pc, rstack, dstack, tramp, cs, catchframe, self, frames, here, stack, mine>>

Addr(a) == <<"pc", a[1], a[2]>>
Num(n) == <<"n", "", n>>
AddrOf(r) == <<r[2], r[3]>>

\* depth! may also make the stack deeper: what was there shows up again.
SetDepth(s, d) == IF d <= Len(s) THEN SubSeq(s, 1, d) ELSE s \o [i \in 1 .. d - Len(s) |-> "old"]

\* Below the bottom of the stack there is whatever the memory holds.
Top(s) == IF s = <<>> THEN "old" ELSE Last(s)
Rest(s) == IF s = <<>> THEN s ELSE Front(s)

\* The loop condition of enterforth.
Running == Len(rstack) > Last(cs).tmp

\* Entering a colon definition: docol.
Docol(from, place, rs) == rstack' = Append(rs, Addr(from)) /\ pc' = <<place, 0>>

Execute(from, xt) ==
  /\ rstack' = Append(rstack, Addr(from))
  /\ tramp' = xt
  /\ pc' = <<"tramp", 0>>

semis == pc' = AddrOf(Last(rstack)) /\ rstack' = Front(rstack)

\* enterforth begins: a word that is no colon definition goes through the
\* trampoline.
Enter(from, xt, who) ==
  /\ cs' = Append(cs, [who |-> who, tmp |-> Len(rstack)])
  /\ rstack' = Append(rstack, Addr(from))
  /\ IF xt = "prim" THEN tramp' = xt /\ pc' = <<"tramp", 0>>
     ELSE pc' = <<xt, 0>> /\ UNCHANGED tramp

InnerInit ==
  /\ pc = <<"catch", 0>> /\ rstack = <<Addr(<<"c", 0>>)>> /\ dstack = <<"u">>
  /\ tramp = "prim" /\ catchframe = 0 /\ self = 0
  /\ cs = <<[who |-> "top", tmp |-> 0]>>
  /\ frames = <<[how |-> "catch", at |-> 0, depth |-> 0, mine |-> 0]>>
  /\ here = 0 /\ stack = <<>> /\ mine = 0
-----------------------------------------------------------------------------
\* Steps of the program.  Cell is the one that next() goes to.
InUser == Running /\ pc[1] = "u" /\ pc[2] < MaxCells
Cell == <<"u", pc[2] + 1>>
Frame(how) == [how |-> how, at |-> Cell[2], depth |-> Len(stack), mine |-> mine]
Room == Len(frames) < MaxFrames

Call ==
  /\ InUser /\ Room
  /\ Docol(Cell, "u", rstack)
  /\ frames' = Append(frames, Frame("call")) /\ here' = 0
  /\ UNCHANGED <<dstack, tramp, cs, catchframe, self, stack, mine>>

ExecuteWord ==
  /\ InUser /\ Room
  /\ Execute(Cell, "u")
  /\ frames' = Append(frames, Frame("call")) /\ here' = 0
  /\ UNCHANGED <<dstack, cs, catchframe, self, stack, mine>>

\* A primitive that leaves one item.
ExecutePrim ==
  /\ InUser /\ Len(dstack) < MaxStack
  /\ Execute(Cell, "prim")
  /\ here' = Cell[2] /\ stack' = Append(stack, "x")
  /\ UNCHANGED <<dstack, cs, catchframe, self, frames, mine>>

Drop ==
  /\ InUser /\ dstack # <<>>
  /\ pc' = Cell /\ dstack' = Front(dstack)
  /\ here' = Cell[2] /\ stack' = Front(stack)
  /\ UNCHANGED <<rstack, tramp, cs, catchframe, self, frames, mine>>

ToSelf ==
  /\ InUser
  /\ pc' = Cell /\ self' = 1 - self
  /\ here' = Cell[2] /\ mine' = 1 - mine
  /\ UNCHANGED <<rstack, dstack, tramp, cs, catchframe, frames, stack>>

Catch ==
  /\ InUser /\ Room /\ Len(dstack) < MaxStack
  /\ Docol(Cell, "catch", rstack) /\ dstack' = Append(dstack, "u")
  /\ frames' = Append(frames, Frame("catch")) /\ here' = 0
  /\ UNCHANGED <<tramp, cs, catchframe, self, stack, mine>>

\* _fword, my_self and the like, _eword with one argument.
CallC(how) ==
  /\ InUser /\ Room /\ Len(dstack) + 1 < MaxStack
  /\ IF how = "eword"
     THEN dstack' = dstack \o <<"arg", "u">> /\ Enter(Cell, "catch", how) /\ stack' = Append(stack, "arg")
     ELSE Enter(Cell, "u", how) /\ UNCHANGED <<dstack, stack>>
  /\ frames' = Append(frames, Frame(how)) /\ here' = 0
  /\ UNCHANGED <<catchframe, self, mine>>

\* _fword on a primitive.
CallCPrim ==
  /\ InUser /\ Len(dstack) < MaxStack
  /\ Enter(Cell, "prim", "fword")
  /\ here' = Cell[2] /\ stack' = Append(stack, "x")
  /\ UNCHANGED <<dstack, catchframe, self, frames, mine>>

\* The end of a colon definition; one that C calls for its result leaves it now.
Return ==
  LET f == Last(frames) IN
  /\ Running /\ pc[1] = "u"
  /\ semis
  /\ dstack' = IF f.how = "fpop" THEN Append(dstack, "x") ELSE dstack
  /\ frames' = Front(frames) /\ here' = f.at
  /\ stack' = IF f.how = "catch" THEN Append(stack, "0") ELSE stack
  /\ UNCHANGED <<tramp, cs, catchframe, self, mine>>

Catchers == {i \in DOMAIN frames : frames[i].how \in {"catch", "eword"}}

\* The innermost catch gets the code, and the depth and the instance it had.
Throw ==
  LET i == CHOOSE i \in Catchers : \A j \in Catchers : j <= i
      f == frames[i]
  IN
  /\ InUser /\ Len(dstack) < MaxStack
  /\ PopThrough \/ \A j \in i .. Len(frames) : frames[j].how # "fpop"
  /\ Docol(Cell, "throw", rstack) /\ dstack' = Append(dstack, "e")
  /\ frames' = SubSeq(frames, 1, i - 1) /\ here' = f.at /\ mine' = f.mine
  /\ stack' = IF f.how = "catch" THEN Append(SetDepth(stack, f.depth), "e")
              ELSE SetDepth(stack, f.depth)
  /\ UNCHANGED <<tramp, cs, catchframe, self>>

\* "0 throw" does nothing.
ThrowZero ==
  /\ InUser /\ Len(dstack) < MaxStack
  /\ Docol(Cell, "throw", rstack) /\ dstack' = Append(dstack, "0")
  /\ here' = Cell[2]
  /\ UNCHANGED <<tramp, cs, catchframe, self, frames, stack, mine>>
-----------------------------------------------------------------------------
\* catch: my-self >r depth >r catchframe @ >r rdepth catchframe ! execute
CatchBegins ==
  LET rs == rstack \o <<Num(self), Num(Len(dstack)), Num(catchframe)>> IN
  /\ Running /\ pc = <<"catch", 0>>
  /\ catchframe' = Len(rs)
  /\ rstack' = Append(rs, Addr(<<"catch", 1>>))
  /\ tramp' = Last(dstack) /\ dstack' = Front(dstack)
  /\ pc' = <<"tramp", 0>>
  /\ UNCHANGED <<cs, self>> /\ UNCHANGED intent

\* r> catchframe ! r> r> 2drop 0 ;
CatchEnds ==
  /\ Running /\ pc = <<"catch", 1>>
  /\ catchframe' = Last(rstack)[3]
  /\ pc' = AddrOf(rstack[Len(rstack) - 3])
  /\ rstack' = SubSeq(rstack, 1, Len(rstack) - 4)
  /\ dstack' = Append(dstack, "0")
  /\ UNCHANGED <<tramp, cs, self>> /\ UNCHANGED intent

\* throw: ?dup if catchframe @ rdepth! - after which the loops of the enterforth
\* calls in between end, in the middle of throw.
ThrowBegins ==
  /\ Running /\ pc = <<"throw", 0>>
  /\ IF Last(dstack) = "0"
     THEN dstack' = Front(dstack) /\ semis
     ELSE pc' = <<"throw", 1>> /\ rstack' = SubSeq(rstack, 1, catchframe) /\ UNCHANGED dstack
  /\ UNCHANGED <<tramp, cs, catchframe, self>> /\ UNCHANGED intent

\* r> catchframe ! r> swap >r depth! drop r> r> ['] my-self (to) then ;
ThrowEnds_Self ==
  LET n == Len(rstack) IN
  /\ Running /\ pc = <<"throw", 1>>
  /\ catchframe' = rstack[n][3]
  /\ dstack' = Append(SetDepth(Rest(dstack), rstack[n - 1][3] - 1), Top(dstack))
  /\ pc' = AddrOf(rstack[n - 3])
  /\ rstack' = SubSeq(rstack, 1, n - 4)
  /\ UNCHANGED <<tramp, cs, self>> /\ UNCHANGED intent
ThrowEnds ==
  LET n == Len(rstack) IN
  /\ Running /\ pc = <<"throw", 1>>
  /\ catchframe' = rstack[n][3]
  /\ dstack' = Append(SetDepth(Rest(dstack), rstack[n - 1][3] - 1), Top(dstack))
  /\ self' = rstack[n - 2][3]
  /\ pc' = AddrOf(rstack[n - 3])
  /\ rstack' = SubSeq(rstack, 1, n - 4)
  /\ UNCHANGED <<tramp, cs>> /\ UNCHANGED intent

\* The word in the trampoline, entered from trampoline[1].
Trampoline ==
  /\ Running /\ pc = <<"tramp", 0>>
  /\ IF tramp = "prim"
     THEN pc' = <<"tramp", 1>> /\ dstack' = Append(dstack, "x") /\ UNCHANGED rstack
     ELSE Docol(<<"tramp", 1>>, tramp, rstack) /\ UNCHANGED dstack
  /\ UNCHANGED <<tramp, cs, catchframe, self>> /\ UNCHANGED intent

\* trampoline[2] leads to a semis.
TrampolineEnds ==
  /\ Running /\ pc = <<"tramp", 1>>
  /\ semis
  /\ UNCHANGED <<dstack, tramp, cs, catchframe, self>> /\ UNCHANGED intent

\* enterforth returns to the C function, which pops what it has to and returns;
\* nobody looks at the result of enterforth.
CReturns ==
  /\ ~Running /\ Len(cs) > 1
  /\ dstack' = CASE Last(cs).who = "fword" -> dstack
                 [] Last(cs).who = "fpop" -> Front(dstack)
                 [] Last(cs).who = "eword" /\ Last(dstack) = "0" -> Front(dstack)
                 [] OTHER -> SetDepth(dstack, Len(dstack) - 2)
  /\ cs' = Front(cs)
  /\ UNCHANGED <<pc, rstack, tramp, catchframe, self>> /\ UNCHANGED intent

\* The outer interpreter goes on to the next line.
NextLine == ~Running /\ Len(cs) = 1 /\ UNCHANGED innerVars

InnerNext ==
  \/ Call \/ ExecuteWord \/ ExecutePrim \/ Drop \/ ToSelf \/ Catch
  \/ \E how \in {"fword", "fpop", "eword"} : CallC(how)
  \/ CallCPrim \/ Return \/ Throw \/ ThrowZero
  \/ CatchBegins \/ CatchEnds \/ ThrowBegins \/ ThrowEnds
  \/ Trampoline \/ TrampolineEnds \/ CReturns \/ NextLine

InnerSpec == InnerInit /\ [][InnerNext]_innerVars
-----------------------------------------------------------------------------
CFrames == SelectSeq(frames, LAMBDA f : f.how \in {"fword", "fpop", "eword"})

\* Whenever a colon definition is about to go on it is the one, and at the cell,
\* that the nesting of calls, catches and C functions demands, with the stack
\* and the instance it demands - also after the trampoline was overwritten by a
\* nested execute, and after an exception passed through C functions.  "catch"
\* entered when the exception began is the one it ends in.
ReturnsAsCalled ==
  Running /\ pc[1] = "u" =>
    /\ pc[2] = here
    /\ dstack = stack
    /\ self = mine
    /\ Len(cs) = Len(CFrames) + 1

\* When the first call from C ends, with an exception or without, nothing is left
\* behind on the return stack and there is no catch frame any more.
EndsClean ==
  ~Running /\ Len(cs) = 1 =>
    /\ frames = <<>> /\ rstack = <<>> /\ catchframe = 0
    /\ pc = <<"c", 0>>
    /\ dstack = stack

\* Calls, catches, throws and C functions nest: control comes back to where each
\* was called from, and the outermost return finds all the stacks as they were.
CallsNest == ReturnsAsCalled /\ EndsClean
=============================================================================
