----------------------------- MODULE ForthDebug -----------------------------
(***************************************************************************)
(* The source debugger of the Forth kernel (kernel/forth.c): the list of   *)
(* words being debugged, the two inner loops that enterforth chooses from, *)
(* the keys of the stepper, and its subordinate interpreter, which "resume" *)
(* leaves through the end of cmdline_prompt (packages/cmdline.c).  The user *)
(* starts words, marks them for debugging and presses keys.  All words are *)
(* named colon definitions.                                                *)
(***************************************************************************)
EXTENDS Integers, Sequences

CONSTANTS
  Program,      \* the user's words: name |-> sequence of cells <<operation, word>>
  MaxLevels,    \* bound: nested activations of enterforth
  SubInSub,     \* may a subordinate interpreter be started below another?
  LeavesEarly   \* may a word that is left by "Up" be entered again or use exit?

\* The last element of a sequence, the others, and all but the i-th.
Newest(s) == s[Len(s)]
Older(s) == SubSeq(s, 1, Len(s) - 1)
Without(s, i) == SubSeq(s, 1, i - 1) \o SubSeq(s, i + 1, Len(s))

\* Words end with semis and have it nowhere else.
ASSUME ForthDebugAssumption ==
  /\ DOMAIN Program \cap {"oi", "eval", "tramp", "boot"} = {}
  /\ \A w \in DOMAIN Program :
       LET n == Len(Program[w]) IN
       /\ Program[w] \in Seq({"prim", "call", "exit", "semis"} \X STRING)
       /\ n > 0
       /\ \A c \in 1 .. n : /\ Program[w][c][1] = "semis" <=> c = n
                            /\ Program[w][c][1] = "call" => Program[w][c][2] \in DOMAIN Program
  /\ MaxLevels \in Nat /\ SubInSub \in BOOLEAN /\ LeavesEarly \in BOOLEAN

VARIABLES
  dpc,          \* PC: <<word, cell>>
  drs,          \* rstack
  levels,       \* activations of enterforth: [base, loop]
  debug_xt_list,\* sequence of [xt, mode]
  changed,      \* FORTH_INTSTAT_DBG of interruptforth
  walk,         \* next_dbg: entries still to be looked at; -1 outside of it
  dbgrstackcnt,
  subs,         \* the user's view: where the subordinate interpreters were started
  ups           \* the user's view: words left by "Up" with the depth of their frames

debugVars == <<dpc, drs, levels, debug_xt_list, changed, walk, dbgrstackcnt, subs, ups>>

System ==
  [oi |-> << <<"refill", "none">>, <<"semis", "none">> >>,
   eval |-> << <<"interpret", "none">>, <<"semis", "none">> >>,
   tramp |-> << <<"xt", "none">>, <<"semis", "none">> >>]
Code(w) == IF w \in DOMAIN System THEN System[w] ELSE Program[w]
Op == Code(dpc[1])[dpc[2]]
User == DOMAIN Program

Level == Newest(levels)
Loop(list) == IF list = <<>> THEN "next" ELSE "dbg"
Marked(list) == {list[i].xt : i \in DOMAIN list}
SetMode(list, w, m) ==
  [i \in DOMAIN list |-> IF list[i].xt = w THEN [list[i] EXCEPT !.mode = m] ELSE list[i]]
Position(list, w) == CHOOSE i \in DOMAIN list : list[i].xt = w
ModeOf(w) == debug_xt_list[Position(debug_xt_list, w)].mode

DebugInit ==
  /\ dpc = <<"oi", 1>> /\ drs = << <<"boot", 0>> >>
  /\ levels = <<[base |-> 0, loop |-> "next"]>>
  /\ debug_xt_list = <<>> /\ changed = FALSE /\ walk = -1
  /\ dbgrstackcnt = 0 /\ subs = <<>> /\ ups = {}

\* Both lead to the state of the list only: deleting the head returns before the
\* test for an empty list, and deleting another entry never empties it.
add_debug_xt(list, w) ==
  IF w \in Marked(list) THEN list ELSE <<[xt |-> w, mode |-> "none"]>> \o list
del_debug_xt(list, w) ==
  IF w \in Marked(list) THEN Without(list, Position(list, w)) ELSE list
-----------------------------------------------------------------------------
\* Top of next_dbg: PC moves on, and the entries are looked at one by one.
Fetch ==
  /\ Level.loop = "dbg" /\ ~changed /\ walk = -1 /\ dpc # <<"oi", 1>>
  /\ dpc' = <<dpc[1], dpc[2] + 1>>
  /\ walk' = Len(debug_xt_list)
  /\ UNCHANGED <<drs, levels, debug_xt_list, changed, dbgrstackcnt, subs, ups>>

Entry == debug_xt_list[Len(debug_xt_list) - walk + 1]
Stops == walk > 0 /\ Entry.xt = dpc[1] /\ Entry.mode # "stepup"
Prompts == Stops /\ Entry.mode # "trace"

Pass ==
  /\ walk > 0 /\ ~Prompts
  /\ walk' = walk - 1
  /\ UNCHANGED <<dpc, drs, levels, debug_xt_list, changed, dbgrstackcnt, subs, ups>>

KeyStep ==
  /\ Prompts /\ walk' = walk - 1
  /\ UNCHANGED <<dpc, drs, levels, debug_xt_list, changed, dbgrstackcnt, subs, ups>>

KeyTrace ==
  /\ Prompts /\ walk' = walk - 1
  /\ debug_xt_list' = SetMode(debug_xt_list, Entry.xt, "trace")
  /\ UNCHANGED <<dpc, drs, levels, changed, dbgrstackcnt, subs, ups>>

KeyUp ==
  /\ Prompts /\ walk' = walk - 1
  /\ debug_xt_list' = SetMode(debug_xt_list, Entry.xt, "stepup")
  /\ ups' = ups \cup {[word |-> Entry.xt, depth |-> Len(drs)]}
  /\ UNCHANGED <<dpc, drs, levels, changed, dbgrstackcnt, subs>>

\* "primitive words cannot be debugged": the stepper asks again.
KeyDown ==
  /\ Prompts /\ Op[1] = "call" /\ walk' = walk - 1
  /\ debug_xt_list' = add_debug_xt(debug_xt_list, Op[2])
  /\ changed' = (changed \/ Op[2] \notin Marked(debug_xt_list))
  /\ UNCHANGED <<dpc, drs, levels, dbgrstackcnt, subs, ups>>

KeyForth ==
  /\ Prompts /\ walk' = walk - 1
  /\ SubInSub \/ subs = <<>>
  /\ Len(subs) < 2
  /\ drs' = Append(drs, <<dpc[1], dpc[2] - 1>>)
  /\ dpc' = <<"oi", 1>>
  /\ dbgrstackcnt' = Len(drs) + 1
  /\ subs' = Append(subs, <<dpc[1], dpc[2] - 1>>)
  /\ UNCHANGED <<levels, debug_xt_list, changed, ups>>
-----------------------------------------------------------------------------
\* docol and docol_dbg.
docol_dbg(w) ==
  /\ drs' = Append(drs, dpc)
  /\ dpc' = <<w, 0>>
  /\ debug_xt_list' = IF Level.loop = "dbg" THEN SetMode(debug_xt_list, w, "step")
                      ELSE debug_xt_list
  /\ UNCHANGED <<levels, changed, dbgrstackcnt, subs, ups>>

\* semis, and the end of enterforth when the frame it pushed is gone.
Leave(rs) ==
  /\ dpc' = Newest(rs)
  /\ drs' = Older(rs)
  /\ levels' = IF Len(rs) - 1 = Level.base THEN Older(levels) ELSE levels

\* The "Up" of semis_dbg: the word's entry is replaced by one for its caller,
\* unless that is the trampoline.
GoneUp_Kept(list, w, caller) ==
  IF caller = "tramp" THEN del_debug_xt(list, w) ELSE add_debug_xt(list, caller)
GoneUp(list, w, caller) ==
  LET l == del_debug_xt(list, w) IN
  IF caller = "tramp" THEN l ELSE add_debug_xt(l, caller)

\* semis_dbg takes note only of the last cell of a word.
AtEnd == dpc[2] = Len(Code(dpc[1])) /\ dpc[1] \in Marked(debug_xt_list)
semis_dbg ==
  LET w == dpc[1]
      caller == Newest(drs)[1]
      goesUp == AtEnd /\ ModeOf(w) = "stepup"
      list == IF Level.loop = "next" \/ ~AtEnd THEN debug_xt_list
              ELSE IF goesUp THEN GoneUp(debug_xt_list, w, caller)
              ELSE SetMode(debug_xt_list, w, "step")
      adds == /\ Level.loop = "dbg" /\ goesUp
              /\ caller \notin Marked(del_debug_xt(debug_xt_list, w)) \cup {"tramp"}
  IN  /\ Leave(drs)
      /\ debug_xt_list' = list
      /\ changed' = (changed \/ adds)
      /\ ups' = {u \in ups : u.depth # Len(drs)}
      /\ UNCHANGED <<dbgrstackcnt, subs>>

MayEnter(w) == LeavesEarly \/ \A u \in ups : u.word # w

ExecuteCell ==
  /\ \/ Op[1] = "prim" /\ UNCHANGED <<dpc, drs, levels, debug_xt_list, changed, dbgrstackcnt, subs, ups>>
     \/ Op[1] = "call" /\ MayEnter(Op[2]) /\ docol_dbg(Op[2])
     \/ Op[1] \in {"call", "exit"}   \* skipped by a branch
          /\ UNCHANGED <<dpc, drs, levels, debug_xt_list, changed, dbgrstackcnt, subs, ups>>
     \/ Op[1] = "exit" /\ MayEnter(dpc[1]) /\ semis_dbg
     \/ Op[1] = "semis" /\ semis_dbg
     \/ Op[1] = "refill" /\ UNCHANGED <<dpc, drs, levels, debug_xt_list, changed, dbgrstackcnt, subs, ups>>

ExecuteToken == walk = 0 /\ walk' = -1 /\ ExecuteCell

\* next: the inner loop without debugger.
FetchFast ==
  /\ Level.loop = "next" /\ ~changed /\ walk = -1 /\ dpc # <<"oi", 1>>
  /\ dpc' = <<dpc[1], dpc[2] + 1>>
  /\ walk' = 0
  /\ UNCHANGED <<drs, levels, debug_xt_list, changed, dbgrstackcnt, subs, ups>>

\* The loop of enterforth comes round and chooses again.
Rechoose_Keep ==
  /\ changed /\ walk = -1
  /\ changed' = FALSE
  /\ UNCHANGED <<dpc, drs, levels, debug_xt_list, walk, dbgrstackcnt, subs, ups>>
Rechoose ==
  /\ changed /\ walk = -1
  /\ changed' = FALSE
  /\ levels' = [levels EXCEPT ![Len(levels)].loop = Loop(debug_xt_list)]
  /\ UNCHANGED <<dpc, drs, debug_xt_list, walk, dbgrstackcnt, subs, ups>>
-----------------------------------------------------------------------------
\* The user types a line; it is evaluated by a new activation of enterforth.
Line ==
  /\ dpc = <<"oi", 1>> /\ walk = -1 /\ Len(levels) < MaxLevels
  /\ levels' = Append(levels, [base |-> Len(drs), loop |-> Loop(debug_xt_list)])
  /\ drs' = Append(drs, dpc)
  /\ dpc' = <<"eval", 1>>
  /\ changed' = FALSE
  /\ UNCHANGED <<debug_xt_list, walk, dbgrstackcnt, subs, ups>>

InLine == dpc = <<"eval", 1>> /\ walk = -1 /\ ~changed

do_debug_xt(w) ==
  /\ InLine
  /\ debug_xt_list' = add_debug_xt(debug_xt_list, w)
  /\ changed' = TRUE
  /\ UNCHANGED <<dpc, drs, levels, walk, dbgrstackcnt, subs, ups>>

do_debug_off ==
  /\ InLine
  /\ debug_xt_list' = <<>>
  /\ ups' = {}
  /\ UNCHANGED <<dpc, drs, levels, changed, walk, dbgrstackcnt, subs>>

\* interpret runs a word with execute, that is, from the trampoline.
RunWord(w) ==
  /\ InLine /\ MayEnter(w)
  /\ drs' = drs \o <<dpc, <<"tramp", 1>> >>
  /\ dpc' = <<w, 0>>
  /\ debug_xt_list' = IF Level.loop = "dbg" THEN SetMode(debug_xt_list, w, "step")
                      ELSE debug_xt_list
  /\ UNCHANGED <<levels, changed, walk, dbgrstackcnt, subs, ups>>

\* What rstack holds above the entries in use is left over from before.
Cut(s, n) == [i \in 1 .. n |-> IF i <= Len(s) THEN s[i] ELSE <<"left over", 0>>]

\* "resume": cmdline_prompt ends and resets rstackcnt; the word that called it
\* then returns.
Resume ==
  /\ dpc = <<"oi", 1>> /\ walk = -1 /\ subs # <<>>
  /\ dpc' = Newest(Cut(drs, dbgrstackcnt))
  /\ drs' = Older(Cut(drs, dbgrstackcnt))
  /\ subs' = Older(subs)
  /\ UNCHANGED <<levels, debug_xt_list, changed, walk, dbgrstackcnt, ups>>

DebugNext ==
  \/ Fetch \/ FetchFast \/ Pass \/ ExecuteToken \/ Rechoose
  \/ KeyStep \/ KeyTrace \/ KeyUp \/ KeyDown \/ KeyForth
  \/ Line \/ Resume \/ do_debug_off
  \/ \E w \in User : do_debug_xt(w) \/ RunWord(w)

DebugSpec == DebugInit /\ [][DebugNext]_debugVars
-----------------------------------------------------------------------------
\* While a word is on the list, its cells are not executed by the inner loop that
\* knows nothing of the debugger: enterforth notices that the list was changed
\* below it before the next cell.
NoListedWordRunsFast ==
  Level.loop = "next" /\ ~changed => dpc[1] \notin Marked(debug_xt_list)

\* "Up - unmark current word for debug, mark its caller for debugging and finish
\* executing current word": so it is when the word returns.  Only a word that
\* called itself is marked again.
UpReachesCaller ==
  [][\A u \in ups :
       Len(drs) = u.depth /\ Len(drs') = u.depth - 1 =>
         /\ u.word \in Marked(debug_xt_list') => u.word = Newest(drs)[1]
         /\ Newest(drs)[1] \in Marked(debug_xt_list') \cup {"tramp"}]_debugVars

\* "resume" goes on in the word that was being debugged when the subordinate
\* interpreter was started ("Save rstack position for when we return").
ResumesWhereLeft ==
  [][subs' # subs /\ Len(subs') < Len(subs) => dpc' = Newest(subs)]_debugVars

\* The commands of the debugger do what its help text says when other words are
\* put on the list, taken off it and debugged on the way: "u" stops again in the
\* caller, "resume" in the word that was left.
DebuggerReturns == UpReachesCaller /\ ResumesWhereLeft
=============================================================================
