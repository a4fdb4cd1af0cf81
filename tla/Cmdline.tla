------------------------------- MODULE Cmdline -------------------------------
(***************************************************************************)
(* The line editor of packages/cmdline.c: the line being edited, the kill  *)
(* buffer, the history and what the terminal shows of it.                   *)
(*                                                                         *)
(* A C string is the sequence of its characters.  The definitions below    *)
(* speak of lines with n = strlen(buf); LineWhole says that there are no    *)
(* others, and a state that breaks it is where a run ends.  The history    *)
(* array holds lines, each with its newline, newest first.  The terminal   *)
(* is external: emit overwrites the character under the cursor, backspace  *)
(* moves left as far as the prompt.  Reading the killbuf before it was     *)
(* written finds whatever malloc returned: any string.                     *)
(***************************************************************************)
EXTENDS Integers, Sequences, SequencesExt, FiniteSetsExt

CONSTANTS
    NCol,         \* ci->ncol
    HSize,        \* ci->hsize
    Letters,      \* what can be typed besides a blank
    UpOnTyped     \* whether go-up is pressed on a line just typed

VARIABLES
    line,         \* [buf, pos, n]
    look,         \* [added, ind]: cur_added, histind
    hist,         \* ci->history
    kill,         \* ci->killbuf
    screen,       \* [text, at]: the line after the prompt, and the cursor
    ran           \* [shown, run]: a line just evaluated, and what it looked like

cmdVars == <<line, look, hist, kill, screen, ran>>

Blank == " "
Typable == Letters \cup {Blank}
Lines == BoundedSeq(Typable, NCol)

Spaces(n) == [i \in 1..n |-> Blank]

(* The terminal; blanks at the end of its line are not written down. *)
Trimmed(s) ==
    SubSeq(s, 1, Max({0} \cup {i \in DOMAIN s : s[i] # Blank}))

Emit(s, chars) ==
    [text |-> Trimmed(SubSeq(s.text \o Spaces(s.at), 1, s.at) \o chars
                         \o SubSeq(s.text, s.at + Len(chars) + 1, Len(s.text))),
     at |-> s.at + Len(chars)]

Back(s, n) == [s EXCEPT !.at = Max({0, @ - n})]

clear(s, n) == Back(Emit(s, Spaces(n)), n)

clearline(s, pos, n) == clear(Back(s, pos), n)

Tail_(l) == SubSeq(l.buf, l.pos + 1, Len(l.buf))

(* The history.  history_get overwrites buf in every case. *)
Found(h, n) == n \in 0..Len(h)

history_get(h, n) == IF n \in 0..(Len(h) - 1) THEN h[n + 1] ELSE <<>>

history_remove(h, n) == IF n < Len(h) THEN RemoveAt(h, n + 1) ELSE h

StrLen(h) == FoldSeq(LAMBDA l, sum : sum + Len(l) + 1, 0, h)


Fits(h, str) == (StrLen(h) + 1) + Len(str) + 1 <= HSize

(* Oldest lines are dropped until the new one fits; if it never does, all  *)
(* of them are gone.                                                        *)
MadeRoom(h, str) ==
    LET keeps == {k \in 0..Len(h) : Fits(SubSeq(h, 1, k), str)}
    IN IF keeps = {} THEN <<>> ELSE SubSeq(h, 1, Max(keeps))

Recorded(str) == str # <<>> /\ Fits(<<>>, str)

add_to_history(h, str) ==
    IF str = <<>> THEN h
    ELSE IF Recorded(str) THEN <<str>> \o MadeRoom(h, str) ELSE MadeRoom(h, str)

-----------------------------------------------------------------------------
FreshLine == [buf |-> <<>>, pos |-> 0, n |-> 0]
FreshLook == [added |-> FALSE, ind |-> 0]
FreshScreen == [text |-> <<>>, at |-> 0]
Nothing == [shown |-> <<>>, run |-> <<>>]

CmdInit ==
    /\ line = FreshLine /\ look = FreshLook /\ hist = <<>>
    /\ kill \in Lines
    /\ screen = FreshScreen
    /\ ran = Nothing

(* One character at the cursor: memmove, then the rest is written again. *)
Inserted(l, c) ==
    [buf |-> InsertAt(l.buf, l.pos + 1, c), pos |-> l.pos + 1, n |-> l.n + 1]

Redrawn(s, l) == Back(Emit(s, Tail_(l)), Len(Tail_(l)) - 1)

RECURSIVE InsertAll(_, _, _)
InsertAll(l, s, chars) ==
    IF chars = <<>> \/ l.n >= NCol THEN [line |-> l, screen |-> s]
    ELSE LET k == Inserted(l, Head(chars))
         IN InsertAll(k, Redrawn(s, [k EXCEPT !.pos = l.pos]), Tail(chars))

Insert(chars) ==
    LET r == InsertAll(line, screen, chars)
    IN line' = r.line /\ screen' = r.screen

Type(c) == Insert(<<c>>) /\ ran' = Nothing /\ UNCHANGED <<look, hist, kill>>

Yank == Insert(kill) /\ ran' = Nothing /\ UNCHANGED <<look, hist, kill>>

(* To the next multiple of 4, one blank at least. *)
Tab == Insert(Spaces(4 - (line.pos % 4))) /\ ran' = Nothing /\ UNCHANGED <<look, hist, kill>>

Erased(l) == [buf |-> RemoveAt(l.buf, l.pos), pos |-> l.pos - 1, n |-> l.n - 1]


Rubbed(l, s) ==
    Back(Emit(Back(s, 1), Append(Tail_(l), Blank)), l.n + 1 - l.pos)

Backspace ==
    /\ line.pos > 0
    /\ line' = Erased(line)
    /\ screen' = Rubbed(line, screen)
    /\ ran' = Nothing /\ UNCHANGED <<look, hist, kill>>

(* Steps over the character, then falls into the case of backspace. *)
Delete ==
    /\ line.pos # line.n
    /\ LET over == [line EXCEPT !.pos = @ + 1]
       IN /\ line' = Erased(over)
          /\ screen' = Rubbed(over, Emit(screen, <<line.buf[over.pos]>>))
    /\ ran' = Nothing /\ UNCHANGED <<look, hist, kill>>

Goto(pos) ==
    /\ line' = [line EXCEPT !.pos = pos]
    /\ screen' = IF pos < line.pos THEN Back(screen, line.pos - pos)
                 ELSE Emit(screen, SubSeq(line.buf, line.pos + 1, pos))
    /\ ran' = Nothing /\ UNCHANGED <<look, hist, kill>>

(* The ends of the runs of blanks and of other characters. *)
InRun(i, blank) == (line.buf[i] = Blank) = blank

After(from, blank) ==
    CHOOSE p \in from..Len(line.buf) :
        /\ \A i \in (from + 1)..p : InRun(i, blank)
        /\ p < Len(line.buf) => ~InRun(p + 1, blank)

Before(from, blank) ==
    CHOOSE p \in 0..from :
        /\ \A i \in (p + 1)..from : InRun(i, blank)
        /\ p > 0 => ~InRun(p, blank)

Move ==
    \/ Goto(0)
    \/ Goto(Len(line.buf))
    \/ line.pos > 0 /\ Goto(line.pos - 1)
    \/ line.pos < line.n /\ Goto(line.pos + 1)
    \/ Goto(After(After(line.pos, TRUE), FALSE))
    \/ Goto(Before(Before(line.pos, TRUE), FALSE))


Kill ==
    /\ kill' = Tail_(line)
    /\ screen' = clear(screen, line.n - line.pos)
    /\ line' = [line EXCEPT !.n = line.pos, !.buf = SubSeq(@, 1, line.pos)]
    /\ ran' = Nothing /\ UNCHANGED <<look, hist>>

(* To the start of the terminal line; the prompt and the line again. *)
Refresh ==
    /\ screen' = Back(Emit(Back(screen, NCol + line.pos), line.buf),
                      Len(line.buf) - line.pos)
    /\ ran' = Nothing /\ UNCHANGED <<line, look, hist, kill>>

Replaced(s, l, str) == Emit(clearline(s, l.pos, l.n), str)

Whole(str) == [buf |-> str, pos |-> Len(str), n |-> Len(str)]

Up ==
    /\ UpOnTyped \/ look.ind > 0 \/ line.buf = <<>>
    /\ LET first == look.ind = 0
           added == first /\ Recorded(line.buf)
           h == IF first THEN add_to_history(hist, line.buf) ELSE hist
           ind == look.ind + IF added THEN 1 ELSE 0
           str == history_get(h, ind)
       IN /\ hist' = h
          /\ look' = [added |-> look.added \/ added,
                      ind |-> ind + IF Found(h, ind) THEN 1 ELSE 0]
          /\ line' = Whole(str)
          /\ screen' = Replaced(screen, line, str)
    /\ ran' = Nothing /\ UNCHANGED kill

(* The lengths are taken before history_remove puts the line it removes    *)
(* into buf.                                                                *)
Down ==
    /\ look.ind > 0
    /\ LET ind == look.ind - 1
           str == history_get(hist, ind - 1)
           last == ind = 0 /\ look.added
       IN /\ look' = [added |-> look.added /\ ~last, ind |-> ind]
          /\ line' = [Whole(str) EXCEPT
                          !.buf = IF last THEN history_get(hist, 0) ELSE @]
          /\ screen' = Replaced(screen, line, str)
          /\ hist' = IF last THEN history_remove(hist, 0) ELSE hist
    /\ ran' = Nothing /\ UNCHANGED kill

Dropped == IF look.added THEN history_remove(hist, 0) ELSE hist

Prompt == line' = FreshLine /\ look' = FreshLook /\ screen' = FreshScreen

(* buf is evaluated after history_remove; the line is then reset by the    *)
(* prompt, also when the loop is left and entered again.                    *)
Enter_Shown ==
    LET buf == IF look.added THEN history_get(hist, 0) ELSE line.buf
    IN /\ hist' = add_to_history(Dropped, buf)
       /\ ran' = [shown |-> screen.text, run |-> SubSeq(buf, 1, line.pos)]
       /\ Prompt
       /\ UNCHANGED kill

Enter ==
    LET buf == IF look.added THEN history_get(hist, 0) ELSE line.buf
    IN /\ hist' = add_to_history(Dropped, buf)
       /\ ran' = [shown |-> screen.text, run |-> buf]
       /\ Prompt
       /\ UNCHANGED kill

Cancel == hist' = Dropped /\ Prompt /\ ran' = Nothing /\ UNCHANGED kill

CmdNext ==
    \/ \E c \in Typable : Type(c)
    \/ Yank \/ Tab \/ Backspace \/ Delete \/ Move \/ Kill \/ Refresh
    \/ Up \/ Down \/ Enter \/ Cancel

CmdSpec == CmdInit /\ [][CmdNext]_cmdVars

-----------------------------------------------------------------------------
(* The editor keeps the length and the cursor of the line by itself, while *)
(* buf is a C string changed by memmove, strcpy and the history functions: *)
(* whatever the keys, n is the length of buf and the cursor is inside.     *)
LineWhole ==
    /\ line.n = Len(line.buf) /\ line.n <= NCol
    /\ line.pos \in 0..line.n

(* The terminal is never read back: after every key the characters emitted *)
(* and the cursor movements of cmdline_prompt leave the line on the screen *)
(* and the cursor on the character that is edited next.                    *)
ScreenShowsLine ==
    screen.text = Trimmed(line.buf) /\ screen.at = line.pos

(* The string given to feval at the end of a line is what stood on the     *)
(* screen when the key was pressed (cmdline_prompt, case '\n').             *)
RunsWhatIsShown == ran.shown = Trimmed(ran.run)

(* add_to_history never writes past the end of the history array, the      *)
(* terminating zero included.                                              *)
HistoryFits == StrLen(hist) + 1 <= HSize

(* The line, the screen and the history agree after any sequence of keys,  *)
(* so that what is run is what was shown.                                  *)
LineSound == LineWhole /\ ScreenShowsLine /\ RunsWhatIsShown /\ HistoryFits
=============================================================================
