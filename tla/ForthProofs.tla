----------------------------- MODULE ForthProofs -----------------------------
(***************************************************************************)
(* The source debugger of the Forth kernel, for any program, any number of *)
(* debugged words and any nesting of lines.                                *)
(***************************************************************************)
EXTENDS ForthDebug, TLAPS

\* Seconds that the SMT solver has for a leaf.
USE SMTT(60)

\* Where execution may go on: a cell of the system's words or of the user's.
Fixed == {<<"boot", 0>>, <<"oi", 1>>, <<"eval", 1>>, <<"tramp", 1>>}
CodeLen(w) == Len(Program[w])
UserCells == User \X Nat
Frames == Fixed \cup {f \in UserCells : f[2] < CodeLen(f[1])}
Modes == {"none", "step", "trace", "stepup"}
Entries == [xt : User, mode : Modes]
LevelTypes == [base : Nat, loop : {"next", "dbg"}]

DebugTypeOK ==
  /\ debug_xt_list \in Seq(Entries)
  /\ changed \in BOOLEAN
  /\ walk \in -1 .. Len(debug_xt_list)
  /\ dbgrstackcnt \in Nat
  /\ ups \in SUBSET [word : User, depth : Nat]

\* The cell executed last, or fetched.
PcOK ==
  \/ dpc = <<"oi", 1>>
  \/ \E w \in {"eval", "tramp"} : dpc = <<w, IF walk = -1 THEN 1 ELSE 2>>
  \/ /\ dpc \in UserCells
     /\ IF walk = -1 THEN dpc[2] < CodeLen(dpc[1]) ELSE dpc[2] \in 1 .. CodeLen(dpc[1])

\* Who calls whom: word w runs above the return address f.
Calls(f, w) ==
  /\ w = "oi" => f = <<"boot", 0>> \/ f \in UserCells
  /\ w = "eval" => f = <<"oi", 1>>
  /\ w = "tramp" => f = <<"eval", 1>>
  /\ w \in User => \/ f = <<"tramp", 1>>
                   \/ f \in UserCells /\ f[2] > 0 /\ Program[f[1]][f[2]] = <<"call", w>>

\* The word above return address k, where word w runs.
AboveIn(rs, w, k) == IF k < Len(rs) THEN rs[k + 1][1] ELSE w
ChainIn(rs, w) ==
  /\ rs[1] = <<"boot", 0>> /\ \A k \in 2 .. Len(rs) : rs[k] # <<"boot", 0>>
  /\ \A k \in 1 .. Len(rs) : Calls(rs[k], AboveIn(rs, w, k))

\* enterforth was called by what interprets lines.
LevelsIn(rs, lv) ==
  /\ lv[1].base = 0
  /\ \A n \in 1 .. Len(lv) : lv[n].base < Len(rs)
                             /\ rs[lv[n].base + 1] \in {<<"boot", 0>>, <<"oi", 1>>}
  /\ \A m, n \in 1 .. Len(lv) : m < n => lv[m].base < lv[n].base

\* The activation that runs when the stack has d entries.
ActiveAt(lv, n, d) ==
  /\ lv[n].base < d
  /\ \A m \in 1 .. Len(lv) : n < m => d <= lv[m].base

\* The subordinate interpreter, and the loop it will resume.
SubsIn(rs, w, lv, ss, cnt) ==
  /\ ss # <<>> => /\ cnt \in 1 .. Len(rs)
                  /\ ss = <<rs[cnt]>> /\ rs[cnt] \in UserCells
                  /\ AboveIn(rs, w, cnt) = "oi"
                  /\ \A n \in 1 .. Len(lv) : ActiveAt(lv, n, cnt) => lv[n].loop = "dbg"
  /\ \A k \in 1 .. Len(rs) : AboveIn(rs, w, k) = "oi" => k = 1 \/ (ss # <<>> /\ k = cnt)

StackIn(rs, w, lv, ss, cnt) ==
  /\ rs \in Seq(Frames) /\ rs # <<>>
  /\ lv \in Seq(LevelTypes) /\ lv # <<>>
  /\ ChainIn(rs, w) /\ LevelsIn(rs, lv) /\ SubsIn(rs, w, lv, ss, cnt)
StackOK == StackIn(drs, dpc[1], levels, subs, dbgrstackcnt)

\* The loop that executes words.
LoopOK ==
  /\ dpc # <<"oi", 1>> /\ debug_xt_list # <<>> /\ (~changed \/ walk >= 0) => Level.loop = "dbg"
  /\ changed => debug_xt_list # <<>>
  /\ changed /\ walk >= 0 => dpc = <<"oi", 1>> \/ Op[1] = "call"

\* What the list holds, in any order.
Ents(list) == {list[i] : i \in DOMAIN list}
Distinct(list) == \A i, j \in DOMAIN list : list[i].xt = list[j].xt => i = j

\* Words that are to be left: they run once, and their entries say so.
UpsIn(rs, w, us) ==
  \A u \in us : /\ u.depth \in 1 .. Len(rs) /\ AboveIn(rs, w, u.depth) = u.word
                /\ \A k \in u.depth + 1 .. Len(rs) : AboveIn(rs, w, k) # u.word
UpsOK ==
  /\ Distinct(debug_xt_list)
  /\ UpsIn(drs, dpc[1], ups)
  /\ \A u \in ups : [xt |-> u.word, mode |-> "stepup"] \in Ents(debug_xt_list)

DebugInv == DebugTypeOK /\ PcOK /\ StackOK /\ LoopOK
-----------------------------------------------------------------------------
\* A part of a sequence.
LEMMA SubSeqFacts ==
  ASSUME NEW S, NEW s \in Seq(S), NEW m \in Int, NEW n \in Int,
         1 <= m, m <= n + 1, n <= Len(s)
  PROVE  /\ SubSeq(s, m, n) \in Seq(S) /\ Len(SubSeq(s, m, n)) = n - m + 1
         /\ \A i \in 1 .. n - m + 1 : SubSeq(s, m, n)[i] = s[m + i - 1]
<1>1. SubSeq(s, m, n) \in Seq(S)
  OBVIOUS
<1>2. Len(SubSeq(s, m, n)) = n - m + 1
  OBVIOUS
<1>3. \A i \in 1 .. n - m + 1 : SubSeq(s, m, n)[i] = s[m + i - 1]
  OBVIOUS
<1> QED
  BY <1>1, <1>2, <1>3

\* Two sequences, one after the other.
LEMMA ConcatFacts ==
  ASSUME NEW S, NEW s \in Seq(S), NEW t \in Seq(S)
  PROVE  /\ s \o t \in Seq(S) /\ Len(s \o t) = Len(s) + Len(t)
         /\ \A i \in 1 .. Len(s) : (s \o t)[i] = s[i]
         /\ \A i \in Len(s) + 1 .. Len(s) + Len(t) : (s \o t)[i] = t[i - Len(s)]
<1>1. s \o t \in Seq(S) /\ Len(s \o t) = Len(s) + Len(t)
  OBVIOUS
<1>2. \A i \in 1 .. Len(s) : (s \o t)[i] = s[i]
  OBVIOUS
<1>3. \A i \in Len(s) + 1 .. Len(s) + Len(t) : (s \o t)[i] = t[i - Len(s)]
  OBVIOUS
<1> QED
  BY <1>1, <1>2, <1>3

\* A sequence without its last element.
LEMMA OlderFacts ==
  ASSUME NEW S, NEW s \in Seq(S), s # <<>>
  PROVE  /\ Len(s) > 0 /\ Newest(s) \in S /\ Newest(s) = s[Len(s)]
         /\ Older(s) \in Seq(S) /\ Len(Older(s)) = Len(s) - 1
         /\ \A i \in 1 .. Len(s) - 1 : Older(s)[i] = s[i]
<1>1. Len(s) \in Nat /\ Len(s) > 0
  OBVIOUS
<1>2. Newest(s) \in S /\ Newest(s) = s[Len(s)]
  BY <1>1 DEF Newest
<1> DEFINE n == Len(s) - 1
<1>3. n \in Int /\ 1 <= n + 1 /\ n <= Len(s)
  BY <1>1
<1>4. Older(s) = SubSeq(s, 1, n)
  BY DEF Older
<1> HIDE DEF n
<1>5. /\ Older(s) \in Seq(S) /\ Len(Older(s)) = n - 1 + 1
      /\ \A i \in 1 .. n - 1 + 1 : Older(s)[i] = s[1 + i - 1]
  BY <1>3, <1>4, SubSeqFacts
<1>6. /\ Older(s) \in Seq(S) /\ Len(Older(s)) = n
      /\ \A i \in 1 .. n : Older(s)[i] = s[i]
  BY <1>3, <1>5
<1> QED
  BY <1>1, <1>2, <1>6 DEF n

\* A sequence with another element.
LEMMA PushFacts ==
  ASSUME NEW S, NEW s \in Seq(S), NEW e \in S
  PROVE  /\ Append(s, e) \in Seq(S) /\ Append(s, e) # <<>> /\ Len(Append(s, e)) = Len(s) + 1
         /\ \A i \in 1 .. Len(s) : Append(s, e)[i] = s[i]
         /\ Append(s, e)[Len(s) + 1] = e /\ Newest(Append(s, e)) = e
  BY DEF Newest

LEMMA ConcatPair ==
  ASSUME NEW S, NEW s \in Seq(S), NEW a \in S, NEW b \in S
  PROVE  s \o <<a, b>> = Append(Append(s, a), b)
<1> DEFINE p == <<a, b>>
           t == s \o p
           u == Append(Append(s, a), b)
<1>1. p \in Seq(S) /\ Len(p) = 2 /\ p[1] = a /\ p[2] = b
  OBVIOUS
<1> HIDE DEF p
<1>2. /\ t \in Seq(S) /\ Len(t) = Len(s) + 2 /\ Len(s) \in Nat
      /\ \A i \in 1 .. Len(s) : t[i] = s[i]
      /\ \A i \in Len(s) + 1 .. Len(s) + 2 : t[i] = p[i - Len(s)]
  <2>1. /\ t \in Seq(S) /\ Len(t) = Len(s) + Len(p)
        /\ \A i \in 1 .. Len(s) : t[i] = s[i]
        /\ \A i \in Len(s) + 1 .. Len(s) + Len(p) : t[i] = p[i - Len(s)]
    BY <1>1, ConcatFacts, Zenon
  <2> HIDE DEF t
  <2> QED
    BY <1>1, <2>1
<1>3. t[Len(s) + 1] = a /\ t[Len(s) + 2] = b
  BY <1>1, <1>2
<1>4. /\ u \in Seq(S) /\ Len(u) = Len(s) + 2
      /\ \A i \in 1 .. Len(s) : u[i] = s[i]
      /\ u[Len(s) + 1] = a /\ u[Len(s) + 2] = b
  OBVIOUS
<1> HIDE DEF t, u
<1>5. \A i \in 1 .. Len(s) + 2 : t[i] = u[i]
  <2>1. \A i \in 1 .. Len(s) + 2 : i \in 1 .. Len(s) \/ i = Len(s) + 1 \/ i = Len(s) + 2
    BY <1>2
  <2> QED
    BY <1>2, <1>3, <1>4, <2>1, Zenon
<1>6. t = u
  BY <1>2, <1>4, <1>5
<1> QED
  BY <1>6, Zenon DEF t, u, p

\* A mode set: the same words are listed.
LEMMA SetModeFacts ==
  ASSUME NEW list \in Seq(Entries), NEW w \in User, NEW m \in Modes
  PROVE  LET l == SetMode(list, w, m) IN
         /\ l \in Seq(Entries) /\ Len(l) = Len(list) /\ (l = <<>> <=> list = <<>>)
         /\ Marked(l) = Marked(list)
         /\ Distinct(list) => Distinct(l)
         /\ \A e \in Ents(list) : e.xt # w => e \in Ents(l)
         /\ w \in Marked(list) => [xt |-> w, mode |-> m] \in Ents(l)
<1> DEFINE l == SetMode(list, w, m)
<1>0. DOMAIN list = 1 .. Len(list) /\ \A i \in 1 .. Len(list) : list[i] \in Entries
  OBVIOUS
<1>1. /\ DOMAIN l = 1 .. Len(list)
      /\ \A i \in 1 .. Len(list) : l[i] = IF list[i].xt = w THEN [list[i] EXCEPT !.mode = m] ELSE list[i]
  BY <1>0 DEF SetMode
<1>2. \A i \in 1 .. Len(list) : l[i] \in Entries /\ l[i].xt = list[i].xt
  BY <1>0, <1>1 DEF Entries
<1>3. l = [i \in 1 .. Len(list) |-> l[i]]
  BY <1>0 DEF SetMode
<1> HIDE DEF l
<1>4. l \in Seq(Entries) /\ Len(l) = Len(list)
  BY <1>1, <1>2, <1>3
<1>5. l = <<>> <=> list = <<>>
  BY <1>4
<1>6. Marked(l) = Marked(list)
  BY <1>0, <1>1, <1>2 DEF Marked
<1>7. Distinct(list) => Distinct(l)
  BY <1>0, <1>1, <1>2 DEF Distinct
<1>8. \A e \in Ents(list) : e.xt # w => e \in Ents(l)
  BY <1>0, <1>1 DEF Ents
<1>9. ASSUME w \in Marked(list) PROVE [xt |-> w, mode |-> m] \in Ents(l)
  <2>1. PICK i \in 1 .. Len(list) : list[i].xt = w
    BY <1>0, <1>9 DEF Marked
  <2>2. l[i] = [xt |-> w, mode |-> m]
    BY <1>0, <1>1, <2>1 DEF Entries
  <2> QED
    BY <1>1, <2>2 DEF Ents
<1> QED
  BY <1>4, <1>5, <1>6, <1>7, <1>8, <1>9 DEF l

\* A word put on the list.
LEMMA AddFacts ==
  ASSUME NEW list \in Seq(Entries), NEW w \in User
  PROVE  LET l == add_debug_xt(list, w) IN
         /\ l \in Seq(Entries) /\ l # <<>> /\ Len(l) >= Len(list)
         /\ Marked(l) = Marked(list) \cup {w}
         /\ Distinct(list) => Distinct(l)
         /\ Ents(list) \subseteq Ents(l)
<1> DEFINE e == [xt |-> w, mode |-> "none"]
           l == <<e>> \o list
<1>0. DOMAIN list = 1 .. Len(list) /\ \A i \in 1 .. Len(list) : list[i] \in Entries
  OBVIOUS
<1>1. CASE w \in Marked(list)
  BY <1>0, <1>1 DEF add_debug_xt, Marked
<1>2. CASE w \notin Marked(list)
  <2>1. e \in Entries
    BY DEF Entries, Modes
  <2>2. /\ l \in Seq(Entries) /\ Len(l) = Len(list) + 1 /\ l[1] = e
        /\ \A i \in 1 .. Len(list) : l[i + 1] = list[i]
    BY <2>1
  <2>3. DOMAIN l = 1 .. Len(list) + 1 /\ \A i \in 2 .. Len(list) + 1 : l[i] = list[i - 1]
    BY <2>2
  <2>4. add_debug_xt(list, w) = l
    BY <1>2 DEF add_debug_xt
  <2>5. \A i \in 1 .. Len(list) : list[i].xt # w
    BY <1>0, <1>2 DEF Marked
  <2>6. e.xt = w
    OBVIOUS
  <2> HIDE DEF l, e
  <2>7. Marked(l) = Marked(list) \cup {w}
    <3>1. \A i \in 1 .. Len(list) : i + 1 \in 1 .. Len(list) + 1 /\ l[i + 1] = list[i]
      BY <1>0, <2>2
    <3>2. 1 \in 1 .. Len(list) + 1
      BY <1>0
    <3>3. \A i \in 1 .. Len(list) + 1 : i = 1 \/ \E j \in 1 .. Len(list) : l[i] = list[j]
      BY <1>0, <2>3
    <3>4. ASSUME NEW x \in Marked(l) PROVE x \in Marked(list) \cup {w}
      <4>1. PICK i \in 1 .. Len(list) + 1 : l[i].xt = x
        BY <2>3, <3>4 DEF Marked
      <4>2. CASE i = 1
        BY <4>1, <4>2, <2>2, <2>6
      <4>3. CASE i # 1
        <5>1. PICK j \in 1 .. Len(list) : l[i] = list[j]
          BY <3>3, <4>3
        <5> QED
          BY <4>1, <5>1, <1>0 DEF Marked
      <4> QED
        BY <4>2, <4>3
    <3>5. ASSUME NEW x \in Marked(list) PROVE x \in Marked(l)
      BY <1>0, <2>3, <3>1, <3>5 DEF Marked
    <3>6. w \in Marked(l)
      BY <2>2, <2>3, <2>6, <3>2 DEF Marked
    <3> QED
      BY <3>4, <3>5, <3>6
  <2>8. ASSUME Distinct(list) PROVE Distinct(l)
    <3> SUFFICES ASSUME NEW i \in 1 .. Len(list) + 1, NEW j \in 1 .. Len(list) + 1, l[i].xt = l[j].xt
                 PROVE i = j
      BY <2>3, Zenon DEF Distinct
    <3>1. \A k \in 2 .. Len(list) + 1 : k - 1 \in 1 .. Len(list) /\ l[k].xt = list[k - 1].xt /\ l[k].xt # w
      BY <2>3, <2>5
    <3>2. CASE i = 1 \/ j = 1
      BY <3>1, <3>2, <2>2, <2>6
    <3>3. CASE i # 1 /\ j # 1
      BY <3>1, <3>3, <2>8, <1>0 DEF Distinct
    <3> QED
      BY <3>2, <3>3
  <2>9. Ents(list) \subseteq Ents(l)
    BY <1>0, <2>2, <2>3 DEF Ents
  <2> QED
    BY <2>2, <2>4, <2>7, <2>8, <2>9
<1> QED
  BY <1>1, <1>2

\* A word taken off the list.
LEMMA DelFacts ==
  ASSUME NEW list \in Seq(Entries), NEW w \in User
  PROVE  LET l == del_debug_xt(list, w) IN
         /\ l \in Seq(Entries)
         /\ Marked(list) \ {w} \subseteq Marked(l) /\ Marked(l) \subseteq Marked(list)
         /\ Distinct(list) => Distinct(l) /\ w \notin Marked(l)
         /\ \A e \in Ents(list) : e.xt # w => e \in Ents(l)
<1>0. DOMAIN list = 1 .. Len(list) /\ \A i \in 1 .. Len(list) : list[i] \in Entries
  OBVIOUS
<1>1. CASE w \notin Marked(list)
  BY <1>1 DEF del_debug_xt
<1>2. CASE w \in Marked(list)
  <2> DEFINE p == Position(list, w)
             a == SubSeq(list, 1, p - 1)
             b == SubSeq(list, p + 1, Len(list))
             l == a \o b
  <2>1. p \in 1 .. Len(list) /\ list[p].xt = w
    BY <1>0, <1>2 DEF Marked, Position
  <2>2. del_debug_xt(list, w) = l
    BY <1>2, Zenon DEF del_debug_xt, Without
  <2> HIDE DEF p
  <2>3. /\ a \in Seq(Entries) /\ Len(a) = p - 1
        /\ \A i \in 1 .. p - 1 : a[i] = list[i]
    <3>1. /\ a \in Seq(Entries) /\ Len(a) = p - 1 - 1 + 1
          /\ \A i \in 1 .. p - 1 - 1 + 1 : a[i] = list[1 + i - 1]
      BY <2>1, SubSeqFacts
    <3> HIDE DEF a
    <3> QED
      BY <3>1, <2>1
  <2>4. /\ b \in Seq(Entries) /\ Len(b) = Len(list) - p
        /\ \A i \in 1 .. Len(list) - p : b[i] = list[p + i]
    <3>1. /\ b \in Seq(Entries) /\ Len(b) = Len(list) - (p + 1) + 1
          /\ \A i \in 1 .. Len(list) - (p + 1) + 1 : b[i] = list[p + 1 + i - 1]
      BY <2>1, SubSeqFacts
    <3> HIDE DEF b
    <3> QED
      BY <3>1, <2>1
  <2> HIDE DEF a, b
  <2>5. /\ l \in Seq(Entries) /\ Len(l) = Len(list) - 1
        /\ \A i \in 1 .. p - 1 : l[i] = list[i]
        /\ \A i \in p .. Len(list) - 1 : l[i] = list[i + 1]
    <3>1. /\ l \in Seq(Entries) /\ Len(l) = Len(a) + Len(b)
          /\ \A i \in 1 .. Len(a) : l[i] = a[i]
          /\ \A i \in Len(a) + 1 .. Len(a) + Len(b) : l[i] = b[i - Len(a)]
      BY <2>3, <2>4, ConcatFacts, ZenonT(60)
    <3> HIDE DEF l
    <3>0. p - 1 \in Nat /\ Len(list) - 1 = Len(a) + Len(b)
      BY <2>1, <2>3, <2>4
    <3>3. ASSUME NEW i \in 1 .. p - 1 PROVE l[i] = list[i]
      <4>1. i \in 1 .. Len(a)
        BY <2>1, <2>3, <2>4
      <4> QED
        BY <4>1, <3>1, <2>3
    <3>2. ASSUME NEW i \in p .. Len(list) - 1 PROVE l[i] = list[i + 1]
      <4>1. i \in Len(a) + 1 .. Len(a) + Len(b) /\ i - Len(a) \in 1 .. Len(list) - p /\ p + (i - Len(a)) = i + 1
        BY <2>1, <2>3, <2>4
      <4> QED
        BY <4>1, <3>1, <2>4
    <3> QED
      BY <3>0, <3>1, <3>2, <3>3
  <2>6. DOMAIN l = 1 .. Len(list) - 1
    BY <2>5
  <2> HIDE DEF l
  <2>7. \A i \in 1 .. Len(list) : i # p => \E j \in 1 .. Len(list) - 1 : l[j] = list[i]
    <3> SUFFICES ASSUME NEW i \in 1 .. Len(list), i # p
                 PROVE \E j \in 1 .. Len(list) - 1 : l[j] = list[i]
      OBVIOUS
    <3>1. CASE i < p
      BY <3>1, <2>1, <2>5
    <3>2. CASE i > p
      <4>1. i - 1 \in p .. Len(list) - 1 /\ (i - 1) + 1 = i
        BY <3>2, <2>1
      <4>2. l[i - 1] = list[(i - 1) + 1] /\ i - 1 \in 1 .. Len(list) - 1
        BY <4>1, <2>1, <2>5
      <4> QED
        BY <4>1, <4>2, Zenon
    <3> QED
      BY <3>1, <3>2, <2>1
  <2>8. \A j \in 1 .. Len(list) - 1 : \E i \in 1 .. Len(list) : i # p /\ l[j] = list[i]
    BY <2>1, <2>5
  <2>9. Marked(list) \ {w} \subseteq Marked(l) /\ Marked(l) \subseteq Marked(list)
    <3>1. ASSUME NEW x \in Marked(list), x # w PROVE x \in Marked(l)
      <4>1. PICK i \in 1 .. Len(list) : list[i].xt = x
        BY <1>0, <3>1 DEF Marked
      <4>2. PICK j \in 1 .. Len(list) - 1 : l[j] = list[i]
        BY <2>1, <2>7, <3>1, <4>1
      <4> QED
        BY <2>6, <4>1, <4>2 DEF Marked
    <3>2. ASSUME NEW x \in Marked(l) PROVE x \in Marked(list)
      <4>1. PICK j \in 1 .. Len(list) - 1 : l[j].xt = x
        BY <2>6, <3>2 DEF Marked
      <4>2. PICK i \in 1 .. Len(list) : l[j] = list[i]
        BY <2>8
      <4> QED
        BY <1>0, <4>1, <4>2 DEF Marked
    <3> QED
      BY <3>1, <3>2
  <2>10. ASSUME Distinct(list) PROVE Distinct(l)
    <3> SUFFICES ASSUME NEW i \in 1 .. Len(list) - 1, NEW j \in 1 .. Len(list) - 1, l[i].xt = l[j].xt
                 PROVE i = j
      BY <2>6, Zenon DEF Distinct
    <3> DEFINE at(k) == IF k < p THEN k ELSE k + 1
    <3>1. \A k \in 1 .. Len(list) - 1 : at(k) \in 1 .. Len(list) /\ l[k] = list[at(k)]
      BY <2>1, <2>5
    <3>2. at(i) = at(j)
      <4>1. \A x, y \in 1 .. Len(list) : list[x].xt = list[y].xt => x = y
        BY <2>10, <1>0 DEF Distinct
      <4> HIDE DEF at
      <4> QED
        BY <3>1, <4>1
    <3> QED
      BY <3>2, <2>1
  <2>11. ASSUME Distinct(list) PROVE w \notin Marked(l)
    BY <1>0, <2>1, <2>6, <2>8, <2>11 DEF Distinct, Marked
  <2>12. \A e \in Ents(list) : e.xt # w => e \in Ents(l)
    BY <1>0, <2>1, <2>6, <2>7, Zenon DEF Ents
  <2> QED
    BY <2>2, <2>5, <2>9, <2>10, <2>11, <2>12
<1> QED
  BY <1>1, <1>2
-----------------------------------------------------------------------------
SystemWords == {"oi", "eval", "tramp"}

\* What the words consist of.
LEMMA Words ==
  ASSUME NEW w \in User
  PROVE  /\ w \notin {"oi", "eval", "tramp", "boot"}
         /\ CodeLen(w) \in Nat /\ CodeLen(w) > 0 /\ Code(w) = Program[w]
         /\ \A c \in 1 .. CodeLen(w) :
              /\ Program[w][c] \in {"prim", "call", "exit", "semis"} \X STRING
              /\ Program[w][c][1] = "semis" <=> c = CodeLen(w)
              /\ Program[w][c][1] = "call" => Program[w][c][2] \in User
<1>1. w \notin {"oi", "eval", "tramp", "boot"}
  BY ForthDebugAssumption DEF User
<1>2. DOMAIN System = SystemWords
  BY DEF System, SystemWords
<1>3. Code(w) = Program[w]
  BY <1>1, <1>2 DEF Code, SystemWords
<1>4. /\ Program[w] \in Seq({"prim", "call", "exit", "semis"} \X STRING)
      /\ Len(Program[w]) > 0
      /\ \A c \in 1 .. Len(Program[w]) : /\ Program[w][c][1] = "semis" <=> c = Len(Program[w])
                                         /\ Program[w][c][1] = "call" => Program[w][c][2] \in User
  BY ForthDebugAssumption, Zenon DEF User
<1> QED
  BY <1>1, <1>3, <1>4 DEF CodeLen

\* The cell that was fetched.
LEMMA OpFacts ==
  ASSUME PcOK, walk >= 0, walk \in Int
  PROVE  /\ dpc = <<"oi", 1>> => Op[1] = "refill"
         /\ dpc[1] \in {"eval", "tramp"} => Op[1] = "semis"
         /\ dpc[1] \in User =>
              /\ dpc \in UserCells /\ dpc[2] \in 1 .. CodeLen(dpc[1])
              /\ Op = Program[dpc[1]][dpc[2]] /\ Code(dpc[1]) = Program[dpc[1]]
              /\ Op \in {"prim", "call", "exit", "semis"} \X STRING
              /\ Op[1] = "semis" <=> dpc[2] = CodeLen(dpc[1])
              /\ Op[1] = "call" => Op[2] \in User
         /\ dpc = <<"oi", 1>> \/ dpc[1] \in {"eval", "tramp"} \/ dpc[1] \in User
<1>1. ASSUME dpc = <<"oi", 1>> PROVE Op[1] = "refill"
  BY <1>1 DEF Op, Code, System
<1>2. ASSUME dpc[1] \in {"eval", "tramp"} PROVE Op[1] = "semis"
  <2>1. dpc = <<"eval", 2>> \/ dpc = <<"tramp", 2>>
    BY <1>2, Words DEF PcOK, UserCells
  <2> QED
    BY <2>1 DEF Op, Code, System
<1>3. ASSUME dpc[1] \in User
      PROVE  /\ dpc \in UserCells /\ dpc[2] \in 1 .. CodeLen(dpc[1])
             /\ Op = Program[dpc[1]][dpc[2]] /\ Code(dpc[1]) = Program[dpc[1]]
             /\ Op \in {"prim", "call", "exit", "semis"} \X STRING
             /\ Op[1] = "semis" <=> dpc[2] = CodeLen(dpc[1])
             /\ Op[1] = "call" => Op[2] \in User
  <2>1. dpc \in UserCells /\ dpc[2] \in 1 .. CodeLen(dpc[1])
    BY <1>3, Words DEF PcOK
  <2>2. Op = Program[dpc[1]][dpc[2]] /\ Code(dpc[1]) = Program[dpc[1]]
    BY <1>3, Words DEF Op
  <2> QED
    BY <1>3, <2>1, <2>2, Words
<1>4. dpc = <<"oi", 1>> \/ dpc[1] \in {"eval", "tramp"} \/ dpc[1] \in User
  BY DEF PcOK, UserCells
<1> QED
  BY <1>1, <1>2, <1>3, <1>4
-----------------------------------------------------------------------------
\* Pushing f, a cell of the word that runs, and popping what is on top.
LEMMA AbovePush ==
  ASSUME NEW rs \in Seq(Frames), NEW f \in Frames, NEW v, NEW k \in 1 .. Len(rs) + 1
  PROVE  AboveIn(Append(rs, f), v, k) = IF k <= Len(rs) THEN AboveIn(rs, f[1], k) ELSE v
  BY PushFacts DEF AboveIn

LEMMA AbovePop ==
  ASSUME NEW rs \in Seq(Frames), rs # <<>>, NEW w, NEW k \in 1 .. Len(rs) - 1
  PROVE  AboveIn(Older(rs), Newest(rs)[1], k) = AboveIn(rs, w, k)
<1>1. Len(Older(rs)) = Len(rs) - 1 /\ Newest(rs) = rs[Len(rs)] /\ Len(rs) \in Nat
  BY OlderFacts
<1>2. \A i \in 1 .. Len(rs) - 1 : Older(rs)[i] = rs[i]
  BY OlderFacts
<1>3. CASE k = Len(rs) - 1
  BY <1>1, <1>3 DEF AboveIn
<1>4. CASE k < Len(rs) - 1
  BY <1>1, <1>2, <1>4 DEF AboveIn
<1> QED
  BY <1>1, <1>3, <1>4

LEMMA ChainPush ==
  ASSUME NEW rs \in Seq(Frames), rs # <<>>, NEW f \in Frames, NEW v,
         ChainIn(rs, f[1]), f # <<"boot", 0>>, Calls(f, v)
  PROVE  ChainIn(Append(rs, f), v)
<1> DEFINE t == Append(rs, f)
<1>1. /\ Len(t) = Len(rs) + 1 /\ t[Len(rs) + 1] = f /\ Len(rs) \in Nat /\ Len(rs) > 0
      /\ \A i \in 1 .. Len(rs) : t[i] = rs[i]
  BY PushFacts
<1>2. \A k \in 1 .. Len(rs) : AboveIn(t, v, k) = AboveIn(rs, f[1], k)
  BY AbovePush, <1>1
<1>3. AboveIn(t, v, Len(rs) + 1) = v
  BY AbovePush, <1>1
<1> HIDE DEF t
<1>4. \A k \in 1 .. Len(rs) + 1 : Calls(t[k], AboveIn(t, v, k))
  BY <1>1, <1>2, <1>3 DEF ChainIn
<1> QED
  <2>1. t[1] = <<"boot", 0>> /\ \A k \in 2 .. Len(t) : t[k] # <<"boot", 0>>
    <3>1. rs[1] = <<"boot", 0>> /\ \A k \in 2 .. Len(rs) : rs[k] # <<"boot", 0>>
      BY Zenon DEF ChainIn
    <3>2. 1 \in 1 .. Len(rs) /\ \A k \in 2 .. Len(t) : k \in 2 .. Len(rs) \/ k = Len(rs) + 1
      BY <1>1
    <3>3. \A k \in 2 .. Len(rs) : k \in 1 .. Len(rs)
      OBVIOUS
    <3> QED
      BY <1>1, <3>1, <3>2, <3>3, Zenon
  <2>2. \A k \in 1 .. Len(t) : Calls(t[k], AboveIn(t, v, k))
    BY <1>1, <1>4
  <2> QED
    BY <2>1, <2>2, Zenon DEF ChainIn, t

LEMMA ChainPop ==
  ASSUME NEW rs \in Seq(Frames), Len(rs) > 1, NEW w, ChainIn(rs, w)
  PROVE  ChainIn(Older(rs), Newest(rs)[1])
<1> DEFINE t == Older(rs)
           v == Newest(rs)[1]
<1>0. rs # <<>>
  OBVIOUS
<1>1. Len(t) = Len(rs) - 1 /\ Len(rs) \in Nat /\ \A i \in 1 .. Len(rs) - 1 : t[i] = rs[i]
  BY <1>0, OlderFacts
<1>2. \A k \in 1 .. Len(rs) - 1 : AboveIn(t, v, k) = AboveIn(rs, w, k)
  BY <1>0, AbovePop
<1> HIDE DEF t, v
<1>3. \A k \in 1 .. Len(rs) - 1 : Calls(t[k], AboveIn(t, v, k))
  BY <1>1, <1>2 DEF ChainIn
<1> QED
  BY <1>1, <1>3 DEF ChainIn, t, v

\* Only what interprets lines runs right above the start of the kernel.
LEMMA Deep ==
  ASSUME NEW rs \in Seq(Frames), rs # <<>>, NEW w \in {"eval", "tramp"} \cup User, ChainIn(rs, w)
  PROVE  Len(rs) > 1 /\ rs[Len(rs)] # <<"boot", 0>> /\ w # "oi"
<1>1. w # "oi" /\ "tramp" \notin User /\ "eval" \notin User /\ "boot" \notin User
  BY Words
<1>2. Calls(rs[Len(rs)], w)
  BY DEF ChainIn, AboveIn
<1>3. rs[Len(rs)] # <<"boot", 0>>
  BY <1>1, <1>2 DEF Calls, UserCells
<1> QED
  BY <1>1, <1>3 DEF ChainIn

\* An activation of enterforth.
LEMMA LevelFacts ==
  ASSUME NEW lv \in Seq(LevelTypes), NEW n \in 1 .. Len(lv)
  PROVE  lv[n] \in LevelTypes /\ lv[n].base \in Nat
<1>1. lv[n] \in LevelTypes
  OBVIOUS
<1> QED
  BY <1>1 DEF LevelTypes

LEMMA LevelsPush ==
  ASSUME NEW rs \in Seq(Frames), NEW lv \in Seq(LevelTypes), NEW f \in Frames, LevelsIn(rs, lv)
  PROVE  LevelsIn(Append(rs, f), lv)
<1> DEFINE t == Append(rs, f)
<1>1. Len(t) = Len(rs) + 1 /\ Len(rs) \in Nat /\ \A i \in 1 .. Len(rs) : t[i] = rs[i]
  BY PushFacts
<1> HIDE DEF t
<1>2. ASSUME NEW n \in 1 .. Len(lv)
      PROVE  lv[n].base < Len(t) /\ t[lv[n].base + 1] \in {<<"boot", 0>>, <<"oi", 1>>}
  <2>1. lv[n].base \in Nat /\ lv[n].base < Len(rs)
    BY LevelFacts DEF LevelsIn
  <2>2. rs[lv[n].base + 1] \in {<<"boot", 0>>, <<"oi", 1>>}
    BY Zenon DEF LevelsIn
  <2>3. lv[n].base + 1 \in 1 .. Len(rs) /\ lv[n].base < Len(t)
    BY <1>1, <2>1
  <2> QED
    BY <1>1, <2>2, <2>3, Zenon
<1> QED
  BY <1>2, Zenon DEF LevelsIn, t

\* A call: the caller's cell f is pushed, and word v runs.
LEMMA Push ==
  ASSUME NEW rs, NEW lv, NEW ss, NEW cnt \in Nat, NEW f \in Frames, NEW v,
         StackIn(rs, f[1], lv, ss, cnt), f # <<"boot", 0>>, Calls(f, v), v # "oi"
  PROVE  StackIn(Append(rs, f), v, lv, ss, cnt)
<1> DEFINE t == Append(rs, f)
<1>0. rs \in Seq(Frames) /\ rs # <<>> /\ lv \in Seq(LevelTypes) /\ lv # <<>>
  BY DEF StackIn
<1>1. /\ t \in Seq(Frames) /\ t # <<>>
      /\ Len(t) = Len(rs) + 1 /\ t[Len(rs) + 1] = f /\ Len(rs) \in Nat /\ Len(rs) > 0
      /\ \A i \in 1 .. Len(rs) : t[i] = rs[i]
  BY <1>0, PushFacts
<1>2. \A k \in 1 .. Len(rs) : AboveIn(t, v, k) = AboveIn(rs, f[1], k)
  BY AbovePush, <1>0, <1>1
<1>3. AboveIn(t, v, Len(rs) + 1) = v
  BY AbovePush, <1>0, <1>1
<1>4. ChainIn(t, v)
  BY <1>0, ChainPush DEF StackIn
<1>5. LevelsIn(t, lv)
  BY <1>0, LevelsPush DEF StackIn
<1> HIDE DEF t
<1>6. SubsIn(t, v, lv, ss, cnt)
  <2>1. SubsIn(rs, f[1], lv, ss, cnt)
    BY DEF StackIn
  <2>2. ASSUME ss # <<>>
        PROVE  /\ cnt \in 1 .. Len(t) /\ ss = <<t[cnt]>> /\ t[cnt] \in UserCells
               /\ AboveIn(t, v, cnt) = "oi"
               /\ \A n \in 1 .. Len(lv) : ActiveAt(lv, n, cnt) => lv[n].loop = "dbg"
    BY <1>1, <1>2, <2>1, <2>2 DEF SubsIn
  <2>3. ASSUME NEW k \in 1 .. Len(t), AboveIn(t, v, k) = "oi"
        PROVE  k = 1 \/ (ss # <<>> /\ k = cnt)
    BY <1>1, <1>2, <1>3, <2>1, <2>3 DEF SubsIn
  <2> QED
    BY <2>2, <2>3, Zenon DEF SubsIn
<1> QED
  BY <1>0, <1>1, <1>4, <1>5, <1>6, Zenon DEF StackIn, t

\* A return, with the end of enterforth where it applies.
LEMMA Pop ==
  ASSUME NEW rs, NEW lv, NEW ss, NEW cnt \in Nat, NEW w \in {"eval", "tramp"} \cup User,
         StackIn(rs, w, lv, ss, cnt)
  PROVE  LET l == IF Len(rs) - 1 = Newest(lv).base THEN Older(lv) ELSE lv IN
         /\ StackIn(Older(rs), Newest(rs)[1], l, ss, cnt)
         /\ Len(rs) - 1 = Newest(lv).base => Newest(rs) = <<"oi", 1>>
<1> DEFINE t == Older(rs)
           v == Newest(rs)[1]
           l == IF Len(rs) - 1 = Newest(lv).base THEN Older(lv) ELSE lv
<1>0. rs \in Seq(Frames) /\ rs # <<>> /\ lv \in Seq(LevelTypes) /\ lv # <<>> /\ ChainIn(rs, w)
  BY DEF StackIn
<1>d. Len(rs) > 1 /\ rs[Len(rs)] # <<"boot", 0>> /\ w # "oi"
  BY <1>0, Deep
<1>1. /\ t \in Seq(Frames) /\ Len(t) = Len(rs) - 1 /\ Len(rs) \in Nat /\ Newest(rs) = rs[Len(rs)]
      /\ \A i \in 1 .. Len(rs) - 1 : t[i] = rs[i]
  BY <1>0, OlderFacts
<1>2. \A k \in 1 .. Len(rs) - 1 : AboveIn(t, v, k) = AboveIn(rs, w, k)
  BY <1>0, AbovePop
<1>3. AboveIn(rs, w, Len(rs)) = w
  BY <1>0 DEF AboveIn
<1>4. ChainIn(t, v)
  BY <1>0, <1>d, ChainPop
<1>5. /\ Older(lv) \in Seq(LevelTypes) /\ Len(Older(lv)) = Len(lv) - 1 /\ Len(lv) \in Nat /\ Len(lv) > 0
      /\ Newest(lv) = lv[Len(lv)] /\ \A i \in 1 .. Len(lv) - 1 : Older(lv)[i] = lv[i]
  BY <1>0, OlderFacts
<1>6. \A n \in 1 .. Len(lv) : lv[n].base \in Nat
  BY <1>0, LevelFacts, Zenon
<1>7. LevelsIn(rs, lv) /\ SubsIn(rs, w, lv, ss, cnt)
  BY DEF StackIn
<1> HIDE DEF t, v
\* Activations that are left.
<1>8. /\ l \in Seq(LevelTypes) /\ l # <<>> /\ Len(l) \in 1 .. Len(lv) /\ \A i \in 1 .. Len(l) : l[i] = lv[i]
      /\ \A i \in 1 .. Len(l) : lv[i].base < Len(rs) - 1
      /\ \A i \in Len(l) + 1 .. Len(lv) : lv[i].base = Len(rs) - 1
  <2>1. CASE Len(rs) - 1 = Newest(lv).base
    <3>1. l = Older(lv)
      BY <2>1
    <3>2. Len(lv) > 1
      BY <2>1, <1>5, <1>7, <1>d, <1>1 DEF LevelsIn
    <3>3. \A i \in 1 .. Len(lv) - 1 : lv[i].base < Len(rs) - 1
      BY <2>1, <1>5, <1>7 DEF LevelsIn
    <3> HIDE DEF l
    <3>4. l # <<>>
      BY <3>1, <3>2, <1>5
    <3> QED
      BY <3>1, <3>2, <3>3, <3>4, <2>1, <1>5
  <2>2. CASE Len(rs) - 1 # Newest(lv).base
    <3>1. l = lv
      BY <2>2
    <3>2. lv[Len(lv)].base < Len(rs) - 1
      BY <2>2, <1>1, <1>5, <1>6, <1>7 DEF LevelsIn
    <3>3. \A i \in 1 .. Len(lv) : lv[i].base < Len(rs) - 1
      BY <3>2, <1>1, <1>5, <1>6, <1>7 DEF LevelsIn
    <3> HIDE DEF l
    <3> QED
      BY <3>1, <3>3, <1>0, <1>5
  <2> QED
    BY <2>1, <2>2
<1>9. Len(rs) - 1 = Newest(lv).base => Newest(rs) = <<"oi", 1>>
  BY <1>1, <1>5, <1>7, <1>d DEF LevelsIn
<1> HIDE DEF l
<1>10. LevelsIn(t, l)
  <2>1. l[1].base = 0
    BY <1>7, <1>8 DEF LevelsIn
  <2>2. ASSUME NEW n \in 1 .. Len(l)
        PROVE  l[n].base < Len(t) /\ t[l[n].base + 1] \in {<<"boot", 0>>, <<"oi", 1>>}
    <3>1. n \in 1 .. Len(lv) /\ l[n] = lv[n] /\ lv[n].base < Len(rs) - 1 /\ lv[n].base \in Nat
      BY <1>6, <1>8
    <3>2. rs[lv[n].base + 1] \in {<<"boot", 0>>, <<"oi", 1>>}
      BY <1>7, <3>1 DEF LevelsIn
    <3>3. t[lv[n].base + 1] = rs[lv[n].base + 1]
      <4>1. lv[n].base + 1 \in 1 .. Len(rs) - 1
        BY <1>1, <3>1
      <4> QED
        BY <1>1, <4>1, Zenon
    <3> QED
      BY <1>1, <3>1, <3>2, <3>3
  <2>3. \A m, n \in 1 .. Len(l) : m < n => l[m].base < l[n].base
    BY <1>7, <1>8 DEF LevelsIn
  <2> QED
    BY <2>1, <2>2, <2>3, Zenon DEF LevelsIn
<1>11. SubsIn(t, v, l, ss, cnt)
  <2>1. ASSUME ss # <<>>
        PROVE  /\ cnt \in 1 .. Len(t) /\ ss = <<t[cnt]>> /\ t[cnt] \in UserCells
               /\ AboveIn(t, v, cnt) = "oi"
    <3>1. cnt # Len(rs) /\ cnt \in 1 .. Len(rs)
      BY <1>3, <1>7, <1>d, <2>1 DEF SubsIn
    <3>2. cnt \in 1 .. Len(rs) - 1
      BY <3>1, <1>1
    <3> QED
      BY <1>1, <1>2, <1>7, <2>1, <3>2 DEF SubsIn
  <2>2. ASSUME ss # <<>>, NEW n \in 1 .. Len(l), ActiveAt(l, n, cnt) PROVE l[n].loop = "dbg"
    <3>1. cnt <= Len(rs) - 1
      BY <1>1, <2>1, <2>2
    <3>2. ActiveAt(lv, n, cnt)
      <4>1. \A m \in 1 .. Len(lv) : m \in 1 .. Len(l) \/ m \in Len(l) + 1 .. Len(lv)
        BY <1>8, <1>5
      <4> QED
        BY <4>1, <3>1, <2>2, <1>8 DEF ActiveAt
    <3>3. n \in 1 .. Len(lv) /\ l[n] = lv[n]
      BY <1>8
    <3> QED
      BY <3>2, <3>3, <2>2, <1>7 DEF SubsIn
  <2>3. ASSUME NEW k \in 1 .. Len(t), AboveIn(t, v, k) = "oi"
        PROVE  k = 1 \/ (ss # <<>> /\ k = cnt)
    <3>1. k \in 1 .. Len(rs) /\ AboveIn(rs, w, k) = "oi"
      BY <1>1, <1>2, <2>3
    <3> QED
      BY <1>7, <3>1 DEF SubsIn
  <2> QED
    BY <2>1, <2>2, <2>3, Zenon DEF SubsIn
<1>12. t # <<>>
  BY <1>1, <1>d
<1> QED
  BY <1>1, <1>4, <1>8, <1>9, <1>10, <1>11, <1>12, Zenon DEF StackIn, t, v, l

\* "resume": the subordinate interpreter, which runs on top of the stack, ends.
LEMMA PopSub ==
  ASSUME NEW rs, NEW lv, NEW ss, NEW cnt \in Nat, StackIn(rs, "oi", lv, ss, cnt), ss # <<>>
  PROVE  /\ cnt = Len(rs) /\ ss = <<Newest(rs)>> /\ Newest(rs) \in UserCells
         /\ StackIn(Older(rs), Newest(rs)[1], lv, <<>>, cnt)
         /\ Newest(lv).loop = "dbg"
<1> DEFINE t == Older(rs)
           v == Newest(rs)[1]
<1>0. rs \in Seq(Frames) /\ rs # <<>> /\ lv \in Seq(LevelTypes) /\ lv # <<>> /\ ChainIn(rs, "oi")
  BY DEF StackIn
<1>1. /\ t \in Seq(Frames) /\ Len(t) = Len(rs) - 1 /\ Len(rs) \in Nat /\ Len(rs) > 0 /\ Newest(rs) = rs[Len(rs)]
      /\ \A i \in 1 .. Len(rs) - 1 : t[i] = rs[i]
  BY <1>0, OlderFacts
<1>2. \A k \in 1 .. Len(rs) - 1 : AboveIn(t, v, k) = AboveIn(rs, "oi", k)
  BY <1>0, AbovePop
<1>3. AboveIn(rs, "oi", Len(rs)) = "oi"
  BY <1>0 DEF AboveIn
<1>4. LevelsIn(rs, lv) /\ SubsIn(rs, "oi", lv, ss, cnt)
  BY DEF StackIn
<1>5. cnt = Len(rs)
  BY <1>1, <1>3, <1>4 DEF SubsIn
<1>6. ss = <<Newest(rs)>> /\ Newest(rs) \in UserCells /\ Newest(rs)[1] \in User
  BY <1>1, <1>4, <1>5 DEF SubsIn, UserCells
<1>7. Newest(rs) # <<"boot", 0>> /\ Newest(rs) # <<"oi", 1>> /\ v # "oi"
  BY <1>6, Words
<1>8. Len(rs) > 1
  BY <1>0, <1>1, <1>7 DEF ChainIn
<1>9. ChainIn(t, v)
  BY <1>0, <1>8, ChainPop
<1>10. Len(lv) \in Nat /\ Len(lv) > 0 /\ Newest(lv) = lv[Len(lv)]
  BY <1>0 DEF Newest
<1>11. \A n \in 1 .. Len(lv) : lv[n].base \in Nat
  BY <1>0, LevelFacts, Zenon
<1> HIDE DEF t, v
<1>12. \A n \in 1 .. Len(lv) : lv[n].base < Len(rs) - 1
  BY <1>1, <1>4, <1>7, <1>11 DEF LevelsIn
<1>13. LevelsIn(t, lv)
  <2>1. ASSUME NEW n \in 1 .. Len(lv)
        PROVE  lv[n].base < Len(t) /\ t[lv[n].base + 1] \in {<<"boot", 0>>, <<"oi", 1>>}
    <3>1. rs[lv[n].base + 1] \in {<<"boot", 0>>, <<"oi", 1>>}
      BY <1>4 DEF LevelsIn
    <3>2. t[lv[n].base + 1] = rs[lv[n].base + 1]
      BY <1>1, <1>11, <1>12
    <3> QED
      BY <1>1, <1>12, <3>1, <3>2
  <2> QED
    BY <1>4, <2>1, Zenon DEF LevelsIn
<1>14. SubsIn(t, v, lv, <<>>, cnt)
  <2>1. ASSUME NEW k \in 1 .. Len(t), AboveIn(t, v, k) = "oi" PROVE k = 1
    <3>1. k \in 1 .. Len(rs) /\ k # Len(rs) /\ AboveIn(rs, "oi", k) = "oi"
      BY <1>1, <1>2, <2>1
    <3> QED
      BY <1>4, <1>5, <3>1 DEF SubsIn
  <2> QED
    BY <2>1, Zenon DEF SubsIn
<1>15. Newest(lv).loop = "dbg"
  <2>1. ActiveAt(lv, Len(lv), cnt)
    BY <1>1, <1>5, <1>10, <1>11, <1>12 DEF ActiveAt
  <2> QED
    BY <1>4, <1>10, <2>1 DEF SubsIn
<1>16. t # <<>>
  BY <1>1, <1>8
<1> QED
  BY <1>0, <1>1, <1>5, <1>6, <1>9, <1>13, <1>14, <1>15, <1>16, Zenon DEF StackIn, t, v

\* A line: a new activation of enterforth, above the outer interpreter.
LEMMA PushLine ==
  ASSUME NEW rs, NEW lv, NEW ss, NEW cnt \in Nat, NEW loop \in {"next", "dbg"},
         StackIn(rs, "oi", lv, ss, cnt)
  PROVE  StackIn(Append(rs, <<"oi", 1>>), "eval", Append(lv, [base |-> Len(rs), loop |-> loop]), ss, cnt)
<1> DEFINE f == <<"oi", 1>>
           e == [base |-> Len(rs), loop |-> loop]
           t == Append(rs, f)
           l == Append(lv, e)
<1>0. rs \in Seq(Frames) /\ rs # <<>> /\ lv \in Seq(LevelTypes) /\ lv # <<>> /\ Len(rs) \in Nat
  BY DEF StackIn
<1>1. /\ f \in Frames /\ f[1] = "oi" /\ f # <<"boot", 0>> /\ Calls(f, "eval")
  BY Words DEF Frames, Fixed, Calls
<1>2. StackIn(t, "eval", lv, ss, cnt)
  <2> HIDE DEF f
  <2> QED
    BY <1>1, Push
<1>3. e \in LevelTypes /\ e.base = Len(rs)
  BY <1>0 DEF LevelTypes
<1> HIDE DEF e
<1>4. /\ l \in Seq(LevelTypes) /\ l # <<>> /\ Len(l) = Len(lv) + 1 /\ Len(lv) \in Nat /\ Len(lv) > 0
      /\ \A i \in 1 .. Len(lv) : l[i] = lv[i]
      /\ l[Len(lv) + 1] = e
  BY <1>0, <1>3, PushFacts
<1>5. t \in Seq(Frames) /\ t # <<>> /\ Len(t) = Len(rs) + 1 /\ t[Len(rs) + 1] = <<"oi", 1>>
  BY <1>0, <1>1, PushFacts
<1>6. LevelsIn(rs, lv) /\ LevelsIn(t, lv) /\ ChainIn(t, "eval")
  BY <1>2 DEF StackIn
<1>7. SubsIn(rs, "oi", lv, ss, cnt) /\ SubsIn(t, "eval", lv, ss, cnt)
  BY <1>2 DEF StackIn
<1> HIDE DEF t, l
<1>8. LevelsIn(t, l)
  <2>1. l[1].base = 0
    BY <1>4, <1>6 DEF LevelsIn
  <2>2. \A n \in 1 .. Len(l) : n \in 1 .. Len(lv) \/ n = Len(lv) + 1
    BY <1>4
  <2>3. ASSUME NEW n \in 1 .. Len(l)
        PROVE  l[n].base < Len(t) /\ t[l[n].base + 1] \in {<<"boot", 0>>, <<"oi", 1>>}
    <3>1. CASE n \in 1 .. Len(lv)
      BY <3>1, <1>4, <1>6 DEF LevelsIn
    <3>2. CASE n = Len(lv) + 1
      <4>1. l[n].base = Len(rs)
        BY <3>2, <1>3, <1>4
      <4> QED
        BY <4>1, <1>0, <1>5
    <3> QED
      BY <2>2, <3>1, <3>2
  <2>4. ASSUME NEW m \in 1 .. Len(l), NEW n \in 1 .. Len(l), m < n PROVE l[m].base < l[n].base
    <3>1. m \in 1 .. Len(lv) /\ l[m] = lv[m]
      BY <1>4, <2>4
    <3>2. CASE n \in 1 .. Len(lv)
      BY <3>1, <3>2, <2>4, <1>4, <1>6 DEF LevelsIn
    <3>3. CASE n = Len(lv) + 1
      BY <3>1, <3>3, <1>3, <1>4, <1>6 DEF LevelsIn
    <3> QED
      BY <2>2, <3>2, <3>3
  <2> QED
    BY <2>1, <2>3, <2>4, Zenon DEF LevelsIn
<1>9. ASSUME ss # <<>>, NEW n \in 1 .. Len(l), ActiveAt(l, n, cnt) PROVE l[n].loop = "dbg"
  <2>1. cnt <= Len(rs)
    BY <1>7, <1>9 DEF SubsIn
  <2>2. n \in 1 .. Len(lv) /\ l[n] = lv[n]
    BY <1>0, <1>3, <1>4, <1>9, <2>1 DEF ActiveAt
  <2>3. ActiveAt(lv, n, cnt)
    BY <1>4, <1>9, <2>2 DEF ActiveAt
  <2> QED
    BY <1>7, <1>9, <2>2, <2>3 DEF SubsIn
<1>10. SubsIn(t, "eval", l, ss, cnt)
  BY <1>7, <1>9, Zenon DEF SubsIn
<1> QED
  BY <1>4, <1>5, <1>6, <1>8, <1>10, Zenon DEF StackIn, t, l, e

\* "f": the subordinate interpreter is started above the word being debugged.
LEMMA PushSub ==
  ASSUME NEW rs, NEW lv, NEW cnt \in Nat, NEW f \in Frames, f \in UserCells,
         StackIn(rs, f[1], lv, <<>>, cnt), Newest(lv).loop = "dbg"
  PROVE  StackIn(Append(rs, f), "oi", lv, <<f>>, Len(rs) + 1)
<1> DEFINE t == Append(rs, f)
           ss == <<f>>
           c == Len(rs) + 1
<1>0. rs \in Seq(Frames) /\ rs # <<>> /\ lv \in Seq(LevelTypes) /\ lv # <<>> /\ ChainIn(rs, f[1])
  BY DEF StackIn
<1>1. /\ t \in Seq(Frames) /\ t # <<>>
      /\ Len(t) = Len(rs) + 1 /\ t[Len(rs) + 1] = f /\ Len(rs) \in Nat /\ Len(rs) > 0
      /\ \A i \in 1 .. Len(rs) : t[i] = rs[i]
  BY <1>0, PushFacts
<1>2. \A k \in 1 .. Len(rs) : AboveIn(t, "oi", k) = AboveIn(rs, f[1], k)
  BY AbovePush, <1>0, <1>1
<1>3. AboveIn(t, "oi", c) = "oi"
  BY AbovePush, <1>0, <1>1
<1>4. f[1] \in User /\ f # <<"boot", 0>>
  BY Words DEF UserCells
<1>5. Calls(f, "oi")
  BY Words DEF Calls
<1>6. ChainIn(t, "oi")
  BY <1>0, <1>4, <1>5, ChainPush
<1>7. LevelsIn(rs, lv) /\ SubsIn(rs, f[1], lv, <<>>, cnt)
  BY DEF StackIn
<1>8. \A n \in 1 .. Len(lv) : lv[n].base \in Nat
  BY <1>0, LevelFacts, Zenon
<1>9. Len(lv) \in Nat /\ Len(lv) > 0 /\ Newest(lv) = lv[Len(lv)]
  BY <1>0 DEF Newest
<1>10. ss # <<>>
  OBVIOUS
<1>11. ss = <<t[c]>> /\ t[c] \in UserCells /\ c \in 1 .. Len(t)
  BY <1>1
<1>12. LevelsIn(t, lv)
  BY <1>0, <1>7, LevelsPush
<1> HIDE DEF t, ss
<1>13. ASSUME NEW n \in 1 .. Len(lv), ActiveAt(lv, n, c) PROVE lv[n].loop = "dbg"
  <2>1. \A m \in 1 .. Len(lv) : lv[m].base < Len(rs)
    BY <1>7 DEF LevelsIn
  <2>2. n = Len(lv)
    <3>1. SUFFICES ASSUME n < Len(lv) PROVE FALSE
      BY <1>9
    <3>2. c <= lv[Len(lv)].base
      BY <1>9, <1>13, <3>1 DEF ActiveAt
    <3> QED
      BY <1>1, <1>8, <1>9, <2>1, <3>2
  <2> QED
    BY <1>9, <2>2
<1>14. ASSUME NEW k \in 1 .. Len(t), AboveIn(t, "oi", k) = "oi" PROVE k = 1 \/ k = c
  BY <1>1, <1>2, <1>7, <1>14 DEF SubsIn
<1>15. SubsIn(t, "oi", lv, ss, c)
  <2> HIDE DEF c
  <2> QED
    BY <1>3, <1>10, <1>11, <1>13, <1>14, Zenon DEF SubsIn
<1> QED
  BY <1>0, <1>1, <1>6, <1>12, <1>15, Zenon DEF StackIn, t, ss, c

\* The loop chosen again.
LEMMA Reloop ==
  ASSUME NEW rs, NEW w, NEW lv, NEW ss, NEW cnt \in Nat, StackIn(rs, w, lv, ss, cnt)
  PROVE  LET l == [lv EXCEPT ![Len(lv)].loop = "dbg"] IN
         StackIn(rs, w, l, ss, cnt) /\ Newest(l).loop = "dbg"
<1> DEFINE l == [lv EXCEPT ![Len(lv)].loop = "dbg"]
<1>0. /\ rs \in Seq(Frames) /\ rs # <<>> /\ lv \in Seq(LevelTypes) /\ lv # <<>> /\ ChainIn(rs, w)
      /\ LevelsIn(rs, lv) /\ SubsIn(rs, w, lv, ss, cnt)
  BY DEF StackIn
<1>1. Len(lv) \in Nat /\ Len(lv) > 0 /\ DOMAIN lv = 1 .. Len(lv)
  BY <1>0
<1>2. \A n \in 1 .. Len(lv) : lv[n] \in LevelTypes
  BY <1>0, LevelFacts, Zenon
<1>3. /\ DOMAIN l = 1 .. Len(lv) /\ l[Len(lv)] = [lv[Len(lv)] EXCEPT !.loop = "dbg"]
      /\ \A n \in 1 .. Len(lv) : n # Len(lv) => l[n] = lv[n]
  BY <1>1
<1>4. l[Len(lv)] \in LevelTypes /\ l[Len(lv)].base = lv[Len(lv)].base /\ l[Len(lv)].loop = "dbg"
  BY <1>1, <1>2, <1>3 DEF LevelTypes
<1>5. l = [n \in 1 .. Len(lv) |-> l[n]]
  BY <1>1, Zenon
<1> HIDE DEF l
<1>6. \A n \in 1 .. Len(lv) : /\ l[n] \in LevelTypes /\ l[n].base = lv[n].base
                              /\ lv[n].loop = "dbg" => l[n].loop = "dbg"
  BY <1>2, <1>3, <1>4, Zenon
<1>7. l \in Seq(LevelTypes) /\ Len(l) = Len(lv) /\ l # <<>>
  BY <1>1, <1>3, <1>5, <1>6
<1>8. LevelsIn(rs, l)
  BY <1>0, <1>1, <1>6, <1>7 DEF LevelsIn
<1>9. ASSUME NEW n \in 1 .. Len(lv), ActiveAt(l, n, cnt) PROVE ActiveAt(lv, n, cnt)
  BY <1>6, <1>7, <1>9 DEF ActiveAt
<1>10. SubsIn(rs, w, l, ss, cnt)
  BY <1>0, <1>6, <1>7, <1>9, Zenon DEF SubsIn
<1>11. Newest(l).loop = "dbg"
  BY <1>4, <1>7 DEF Newest
<1> QED
  BY <1>0, <1>7, <1>8, <1>10, <1>11, Zenon DEF StackIn, l

\* Words that are to be left, over a call and a return.
LEMMA UpsPush ==
  ASSUME NEW rs \in Seq(Frames), NEW f \in Frames, NEW v, NEW us \in SUBSET [word : User, depth : Nat],
         UpsIn(rs, f[1], us), \A u \in us : u.word # v
  PROVE  UpsIn(Append(rs, f), v, us)
<1>1. Len(Append(rs, f)) = Len(rs) + 1 /\ Len(rs) \in Nat
  BY PushFacts
<1>2. SUFFICES ASSUME NEW u \in us
               PROVE  /\ u.depth \in 1 .. Len(rs) + 1 /\ AboveIn(Append(rs, f), v, u.depth) = u.word
                      /\ \A k \in u.depth + 1 .. Len(rs) + 1 : AboveIn(Append(rs, f), v, k) # u.word
  BY <1>1 DEF UpsIn
<1>3. /\ u.depth \in 1 .. Len(rs) /\ AboveIn(rs, f[1], u.depth) = u.word
      /\ \A k \in u.depth + 1 .. Len(rs) : AboveIn(rs, f[1], k) # u.word
  BY DEF UpsIn
<1>4. u.word # v
  OBVIOUS
<1>5. AboveIn(Append(rs, f), v, u.depth) = u.word
  BY <1>1, <1>3, AbovePush
<1>6. ASSUME NEW k \in u.depth + 1 .. Len(rs) + 1 PROVE AboveIn(Append(rs, f), v, k) # u.word
  BY <1>1, <1>3, <1>4, AbovePush
<1> QED
  BY <1>1, <1>3, <1>5, <1>6

LEMMA UpsPop ==
  ASSUME NEW rs \in Seq(Frames), rs # <<>>, NEW w, NEW us \in SUBSET [word : User, depth : Nat],
         UpsIn(rs, w, us)
  PROVE  UpsIn(Older(rs), Newest(rs)[1], {u \in us : u.depth # Len(rs)})
<1> DEFINE t == Older(rs)
           v == Newest(rs)[1]
<1>1. Len(t) = Len(rs) - 1 /\ Len(rs) \in Nat
  BY OlderFacts
<1>2. \A k \in 1 .. Len(rs) - 1 : AboveIn(t, v, k) = AboveIn(rs, w, k)
  BY AbovePop
<1> HIDE DEF t, v
<1>3. ASSUME NEW u \in us, u.depth # Len(rs)
      PROVE  /\ u.depth \in 1 .. Len(t) /\ AboveIn(t, v, u.depth) = u.word
             /\ \A k \in u.depth + 1 .. Len(t) : AboveIn(t, v, k) # u.word
  <2>1. /\ u.depth \in 1 .. Len(rs) /\ AboveIn(rs, w, u.depth) = u.word
        /\ \A k \in u.depth + 1 .. Len(rs) : AboveIn(rs, w, k) # u.word
    BY DEF UpsIn
  <2> QED
    BY <1>1, <1>2, <1>3, <2>1
<1> QED
  BY <1>3, Zenon DEF UpsIn, t, v
-----------------------------------------------------------------------------
\* Nothing is called and nothing returns.
LEMMA SameStack ==
  ASSUME StackOK, drs' = drs, dpc'[1] = dpc[1], levels' = levels, subs' = subs, dbgrstackcnt' = dbgrstackcnt
  PROVE  StackOK'
  BY Zenon DEF StackOK

\* Where the stepper asks for a key.
LEMMA PromptFacts ==
  ASSUME DebugInv, Prompts
  PROVE  /\ walk \in 1 .. Len(debug_xt_list) /\ debug_xt_list # <<>>
         /\ Entry \in Ents(debug_xt_list) /\ Entry \in Entries /\ Entry.xt = dpc[1] /\ Entry.xt \in User
         /\ dpc[1] \in User /\ dpc \in UserCells /\ dpc[2] \in 1 .. CodeLen(dpc[1])
         /\ Entry.mode # "stepup" /\ dpc # <<"oi", 1>> /\ Level.loop = "dbg"
<1>1. debug_xt_list \in Seq(Entries) /\ walk \in Int /\ walk <= Len(debug_xt_list) /\ Len(debug_xt_list) \in Nat
  BY DEF DebugInv, DebugTypeOK
<1>2. walk > 0 /\ Entry.xt = dpc[1] /\ Entry.mode # "stepup"
  BY Zenon DEF Prompts, Stops
<1>3. Len(debug_xt_list) - walk + 1 \in 1 .. Len(debug_xt_list)
  BY <1>1, <1>2
<1>4. Entry \in Ents(debug_xt_list) /\ Entry \in Entries
  BY <1>1, <1>3 DEF Entry, Ents
<1>5. Entry.xt \in User
  BY <1>4 DEF Entries
<1>6. dpc # <<"oi", 1>>
  BY <1>2, <1>5, Words
<1>7. dpc \in UserCells /\ dpc[2] \in 1 .. CodeLen(dpc[1])
  BY <1>1, <1>2, <1>5, OpFacts DEF DebugInv
<1>8. debug_xt_list # <<>>
  BY <1>3
<1>9. Level.loop = "dbg"
  BY <1>1, <1>2, <1>6, <1>8 DEF DebugInv, LoopOK
<1> QED
  BY <1>1, <1>2, <1>4, <1>5, <1>6, <1>7, <1>8, <1>9

LEMMA FetchKeeps ==
  ASSUME DebugInv, Fetch \/ FetchFast
  PROVE  DebugInv'
<1>1. /\ walk = -1 /\ ~changed /\ dpc # <<"oi", 1>> /\ dpc' = <<dpc[1], dpc[2] + 1>>
      /\ walk' = Len(debug_xt_list) \/ walk' = 0
      /\ UNCHANGED <<drs, levels, debug_xt_list, changed, dbgrstackcnt, subs, ups>>
  BY Zenon DEF Fetch, FetchFast
<1>2. DebugTypeOK /\ PcOK /\ StackOK /\ LoopOK
  BY DEF DebugInv
<1>3. Len(debug_xt_list) \in Nat /\ walk' >= 0 /\ walk' \in -1 .. Len(debug_xt_list)
  BY <1>1, <1>2 DEF DebugTypeOK
<1>4. DebugTypeOK'
  BY <1>1, <1>2, <1>3 DEF DebugTypeOK
<1>5. PcOK'
  <2>1. CASE \E w \in {"eval", "tramp"} : dpc = <<w, 1>>
    BY <1>1, <1>3, <2>1 DEF PcOK
  <2>2. CASE dpc \in UserCells /\ dpc[2] < CodeLen(dpc[1])
    BY <1>1, <1>3, <2>2, Words DEF PcOK, UserCells
  <2> QED
    BY <1>1, <1>2, <2>1, <2>2 DEF PcOK
<1>6. StackOK'
  BY <1>1, <1>2, SameStack
<1>7. LoopOK'
  BY <1>1, <1>2 DEF LoopOK, Level
<1> QED
  BY <1>4, <1>5, <1>6, <1>7 DEF DebugInv

\* The entries are looked at: the cell stays, and so do the loops.
LEMMA WalkKeeps ==
  ASSUME DebugInv, walk > 0, walk' = walk - 1, UNCHANGED <<dpc, drs, levels, dbgrstackcnt, subs>>,
         debug_xt_list' \in Seq(Entries), Len(debug_xt_list') >= Len(debug_xt_list),
         ups' \in SUBSET [word : User, depth : Nat],
         changed' \in BOOLEAN, changed' => changed \/ (dpc[1] \in User /\ Op[1] = "call")
  PROVE  DebugInv'
<1>2. DebugTypeOK /\ PcOK /\ StackOK /\ LoopOK
  BY DEF DebugInv
<1>3. /\ Len(debug_xt_list) \in Nat /\ Len(debug_xt_list') \in Nat /\ walk \in Int /\ walk' >= 0
      /\ walk <= Len(debug_xt_list)
  BY <1>2 DEF DebugTypeOK
<1>4. DebugTypeOK'
  BY <1>2, <1>3 DEF DebugTypeOK
<1>5. PcOK'
  BY <1>2, <1>3 DEF PcOK
<1>6. StackOK'
  BY <1>2, SameStack
<1>7. debug_xt_list # <<>> /\ debug_xt_list' # <<>>
  BY <1>2, <1>3 DEF DebugTypeOK
<1>8. Op' = Op /\ Level' = Level
  BY DEF Op, Level
<1>9. LoopOK'
  BY <1>2, <1>3, <1>7, <1>8 DEF LoopOK
<1> QED
  BY <1>4, <1>5, <1>6, <1>9 DEF DebugInv

LEMMA KeysKeep ==
  ASSUME DebugInv, Pass \/ KeyStep \/ KeyTrace \/ KeyUp \/ KeyDown
  PROVE  DebugInv'
<1>0. /\ debug_xt_list \in Seq(Entries) /\ changed \in BOOLEAN /\ walk \in Int /\ Len(debug_xt_list) \in Nat
      /\ ups \in SUBSET [word : User, depth : Nat] /\ drs \in Seq(Frames)
  BY DEF DebugInv, DebugTypeOK, StackOK, StackIn
<1>1. CASE Pass \/ KeyStep
  <2>1. /\ walk > 0 /\ walk' = walk - 1
        /\ UNCHANGED <<dpc, drs, levels, debug_xt_list, changed, dbgrstackcnt, subs, ups>>
    BY <1>1, Zenon DEF Pass, KeyStep, Prompts, Stops
  <2> QED
    BY <1>0, <2>1, WalkKeeps
<1>2. CASE KeyTrace
  <2>1. /\ Prompts /\ walk' = walk - 1 /\ debug_xt_list' = SetMode(debug_xt_list, Entry.xt, "trace")
        /\ UNCHANGED <<dpc, drs, levels, changed, dbgrstackcnt, subs, ups>>
    BY <1>2, Zenon DEF KeyTrace
  <2>2. debug_xt_list' \in Seq(Entries) /\ Len(debug_xt_list') = Len(debug_xt_list) /\ walk > 0
    <3>1. walk > 0 /\ Entry.xt \in User /\ "trace" \in Modes /\ "stepup" \in Modes
      BY <2>1, PromptFacts DEF Modes
    <3> QED
      BY <1>0, <2>1, <3>1, SetModeFacts, Zenon
  <2> QED
    BY <1>0, <2>1, <2>2, WalkKeeps
<1>3. CASE KeyUp
  <2>1. /\ Prompts /\ walk' = walk - 1 /\ debug_xt_list' = SetMode(debug_xt_list, Entry.xt, "stepup")
        /\ ups' = ups \cup {[word |-> Entry.xt, depth |-> Len(drs)]}
        /\ UNCHANGED <<dpc, drs, levels, changed, dbgrstackcnt, subs>>
    BY <1>3, Zenon DEF KeyUp
  <2>2. debug_xt_list' \in Seq(Entries) /\ Len(debug_xt_list') = Len(debug_xt_list) /\ walk > 0
    <3>1. walk > 0 /\ Entry.xt \in User /\ "trace" \in Modes /\ "stepup" \in Modes
      BY <2>1, PromptFacts DEF Modes
    <3> QED
      BY <1>0, <2>1, <3>1, SetModeFacts, Zenon
  <2>3. ups' \in SUBSET [word : User, depth : Nat]
    BY <1>0, <2>1, PromptFacts
  <2> QED
    BY <1>0, <2>1, <2>2, <2>3, WalkKeeps
<1>4. CASE KeyDown
  <2>1. /\ Prompts /\ Op[1] = "call" /\ walk' = walk - 1
        /\ debug_xt_list' = add_debug_xt(debug_xt_list, Op[2])
        /\ changed' = (changed \/ Op[2] \notin Marked(debug_xt_list))
        /\ UNCHANGED <<dpc, drs, levels, dbgrstackcnt, subs, ups>>
    BY <1>4, Zenon DEF KeyDown
  <2>2. walk > 0 /\ dpc[1] \in User
    BY <2>1, PromptFacts
  <2>3. Op[2] \in User
    BY <1>0, <2>1, <2>2, OpFacts DEF DebugInv
  <2>4. debug_xt_list' \in Seq(Entries) /\ Len(debug_xt_list') >= Len(debug_xt_list)
    BY <1>0, <2>1, <2>3, AddFacts
  <2>5. changed' \in BOOLEAN
    BY <2>1, Zenon
  <2> QED
    BY <1>0, <2>1, <2>2, <2>4, <2>5, WalkKeeps
<1> QED
  BY <1>1, <1>2, <1>3, <1>4

LEMMA KeyForthKeeps ==
  ASSUME DebugInv, ~SubInSub, KeyForth
  PROVE  DebugInv'
<1> DEFINE f == <<dpc[1], dpc[2] - 1>>
<1>1. /\ Prompts /\ walk' = walk - 1 /\ subs = <<>>
      /\ drs' = Append(drs, f) /\ dpc' = <<"oi", 1>> /\ dbgrstackcnt' = Len(drs) + 1
      /\ subs' = Append(subs, f)
      /\ UNCHANGED <<levels, debug_xt_list, changed, ups>>
  BY Zenon DEF KeyForth
<1>2. DebugTypeOK /\ PcOK /\ StackOK /\ LoopOK
  BY DEF DebugInv
<1>3. /\ walk \in 1 .. Len(debug_xt_list) /\ dpc[1] \in User /\ dpc[2] \in 1 .. CodeLen(dpc[1])
      /\ Newest(levels).loop = "dbg"
  BY <1>1, PromptFacts DEF Level
<1>4. f \in Frames /\ f \in UserCells /\ f[1] = dpc[1]
  BY <1>3, Words DEF Frames, UserCells
<1>5. subs' = <<f>>
  BY <1>1
<1>6. drs \in Seq(Frames) /\ dbgrstackcnt \in Nat /\ Len(drs) \in Nat
  BY <1>2 DEF StackOK, StackIn, DebugTypeOK
<1> HIDE DEF f
<1>7. StackIn(drs', "oi", levels, subs', dbgrstackcnt')
  BY <1>1, <1>2, <1>3, <1>4, <1>5, <1>6, PushSub DEF StackOK
<1>8. StackOK'
  BY <1>1, <1>7 DEF StackOK
<1>9. DebugTypeOK'
  BY <1>1, <1>2, <1>3, <1>6 DEF DebugTypeOK
<1>10. PcOK' /\ LoopOK'
  BY <1>1, <1>2 DEF PcOK, LoopOK
<1> QED
  BY <1>8, <1>9, <1>10 DEF DebugInv
-----------------------------------------------------------------------------
\* A cell that neither calls nor returns.
LEMMA PlainCellKeeps ==
  ASSUME DebugInv, walk = 0, walk' = -1, Op[1] \in {"prim", "call", "exit", "refill"},
         UNCHANGED <<dpc, drs, levels, debug_xt_list, changed, dbgrstackcnt, subs, ups>>
  PROVE  DebugInv'
<1>1. DebugTypeOK /\ PcOK /\ StackOK /\ LoopOK
  BY DEF DebugInv
<1>2. DebugTypeOK'
  BY <1>1 DEF DebugTypeOK
<1>3. PcOK'
  <2>1. CASE dpc = <<"oi", 1>>
    BY <2>1 DEF PcOK
  <2>2. CASE dpc[1] \in {"eval", "tramp"}
    BY <1>1, <2>2, OpFacts
  <2>3. CASE dpc[1] \in User
    <3>1. dpc \in UserCells /\ dpc[2] \in 1 .. CodeLen(dpc[1]) /\ dpc[2] # CodeLen(dpc[1])
      BY <1>1, <2>3, OpFacts
    <3>2. CodeLen(dpc[1]) \in Nat
      BY <2>3, Words
    <3> QED
      BY <3>1, <3>2 DEF PcOK
  <2> QED
    BY <1>1, <2>1, <2>2, <2>3, OpFacts
<1>4. StackOK'
  BY <1>1, SameStack
<1>5. LoopOK'
  BY <1>1 DEF LoopOK, Level
<1> QED
  BY <1>2, <1>3, <1>4, <1>5 DEF DebugInv

LEMMA CallKeeps ==
  ASSUME DebugInv, walk = 0, walk' = -1, Op[1] = "call", docol_dbg(Op[2])
  PROVE  DebugInv'
<1>1. DebugTypeOK /\ PcOK /\ StackOK /\ LoopOK
  BY DEF DebugInv
<1>2. /\ drs' = Append(drs, dpc) /\ dpc' = <<Op[2], 0>>
      /\ debug_xt_list' = IF Level.loop = "dbg" THEN SetMode(debug_xt_list, Op[2], "step") ELSE debug_xt_list
      /\ UNCHANGED <<levels, changed, dbgrstackcnt, subs, ups>>
  BY Zenon DEF docol_dbg
<1>3. dpc[1] \in User
  BY <1>1, OpFacts
<1>4. /\ dpc \in UserCells /\ dpc[2] \in 1 .. CodeLen(dpc[1]) /\ dpc[2] # CodeLen(dpc[1])
      /\ Program[dpc[1]][dpc[2]] = <<"call", Op[2]>> /\ Op[2] \in User
  BY <1>1, <1>3, OpFacts
<1>5. CodeLen(dpc[1]) \in Nat /\ CodeLen(Op[2]) \in Nat /\ CodeLen(Op[2]) > 0
  BY <1>3, <1>4, Words
<1>6. Op[2] \notin {"oi", "eval", "tramp", "boot"} /\ dpc[1] \notin {"oi", "eval", "tramp", "boot"}
  BY <1>3, <1>4, Words
<1>7. dpc \in Frames /\ dpc # <<"boot", 0>> /\ dpc # <<"oi", 1>>
  BY <1>4, <1>5, <1>6 DEF Frames
<1>8. Calls(dpc, Op[2])
  BY <1>4, <1>6 DEF Calls
<1>9. StackIn(drs', Op[2], levels, subs, dbgrstackcnt)
  BY <1>1, <1>2, <1>6, <1>7, <1>8, Push DEF StackOK, DebugTypeOK
<1>10. StackOK'
  BY <1>2, <1>9 DEF StackOK
<1>11. debug_xt_list' \in Seq(Entries) /\ (debug_xt_list' = <<>> <=> debug_xt_list = <<>>)
  <2>1. debug_xt_list \in Seq(Entries) /\ "step" \in Modes
    BY <1>1 DEF DebugTypeOK, Modes
  <2> QED
    BY <1>2, <1>4, <2>1, SetModeFacts, Zenon
<1>12. DebugTypeOK'
  BY <1>1, <1>2, <1>11 DEF DebugTypeOK
<1>13. PcOK'
  BY <1>2, <1>4, <1>5 DEF PcOK, UserCells
<1>14. LoopOK'
  BY <1>1, <1>2, <1>7, <1>11 DEF LoopOK, Level
<1> QED
  BY <1>10, <1>12, <1>13, <1>14 DEF DebugInv

\* The list after "Up" of a word that is on it.
LEMMA GoneUpFacts ==
  ASSUME NEW list \in Seq(Entries), NEW w \in User, NEW caller \in User \cup {"tramp"}
  PROVE  LET l == GoneUp(list, w, caller) IN
         /\ l \in Seq(Entries)
         /\ caller \notin Marked(del_debug_xt(list, w)) \cup {"tramp"} => l # <<>>
         /\ Distinct(list) => /\ Distinct(l)
                              /\ w \in Marked(l) => w = caller
         /\ caller \in Marked(l) \cup {"tramp"}
         /\ \A e \in Ents(list) : e.xt # w => e \in Ents(l)
<1> DEFINE d == del_debug_xt(list, w)
<1>1. /\ d \in Seq(Entries)
      /\ Distinct(list) => Distinct(d) /\ w \notin Marked(d)
      /\ \A e \in Ents(list) : e.xt # w => e \in Ents(d)
  BY DelFacts
<1>2. GoneUp(list, w, caller) = IF caller = "tramp" THEN d ELSE add_debug_xt(d, caller)
  BY Zenon DEF GoneUp
<1> HIDE DEF d
<1>3. CASE caller = "tramp"
  BY <1>1, <1>2, <1>3, Zenon DEF d
<1>4. CASE caller # "tramp"
  <2> DEFINE l == add_debug_xt(d, caller)
  <2>1. caller \in User
    BY <1>4
  <2>2. /\ l \in Seq(Entries) /\ l # <<>> /\ Marked(l) = Marked(d) \cup {caller}
        /\ Distinct(d) => Distinct(l)
        /\ Ents(d) \subseteq Ents(l)
    BY <1>1, <2>1, AddFacts, Zenon
  <2>3. GoneUp(list, w, caller) = l
    BY <1>2, <1>4, Zenon
  <2> HIDE DEF l
  <2> QED
    BY <1>1, <2>2, <2>3, Zenon
<1> QED
  BY <1>3, <1>4

\* What returning from the word that runs does to the list.
LEMMA SemisFacts ==
  ASSUME DebugInv, walk = 0, Op[1] \in {"exit", "semis"}, semis_dbg
  PROVE  /\ dpc[1] \in {"eval", "tramp"} \cup User /\ ~changed
         /\ dpc' = Newest(drs) /\ drs' = Older(drs)
         /\ levels' = (IF Len(drs) - 1 = Newest(levels).base THEN Older(levels) ELSE levels)
         /\ ups' = {u \in ups : u.depth # Len(drs)}
         /\ UNCHANGED <<dbgrstackcnt, subs>>
         /\ debug_xt_list' \in Seq(Entries) /\ changed' \in BOOLEAN
         /\ changed' => debug_xt_list' # <<>>
         /\ debug_xt_list = <<>> => debug_xt_list' = <<>>
         /\ Distinct(debug_xt_list) => Distinct(debug_xt_list')
         /\ \A e \in Ents(debug_xt_list) : e.xt # dpc[1] => e \in Ents(debug_xt_list')
         /\ AtEnd /\ ModeOf(dpc[1]) = "stepup" /\ Level.loop = "dbg" =>
              /\ debug_xt_list' = GoneUp(debug_xt_list, dpc[1], Newest(drs)[1])
              /\ dpc[1] \in User /\ Newest(drs)[1] \in User \cup {"tramp"}
<1>1. DebugTypeOK /\ PcOK /\ StackOK /\ LoopOK
  BY DEF DebugInv
<1>2. dpc # <<"oi", 1>>
  BY <1>1, OpFacts
<1>3. dpc[1] \in {"eval", "tramp"} \cup User
  BY <1>1, <1>2, OpFacts
<1>4. ~changed
  BY <1>1, <1>2 DEF LoopOK
<1> DEFINE w == dpc[1]
           caller == Newest(drs)[1]
           goesUp == AtEnd /\ ModeOf(w) = "stepup"
           list == IF Level.loop = "next" \/ ~AtEnd THEN debug_xt_list
                   ELSE IF goesUp THEN GoneUp(debug_xt_list, w, caller)
                   ELSE SetMode(debug_xt_list, w, "step")
           adds == /\ Level.loop = "dbg" /\ goesUp
                   /\ caller \notin Marked(del_debug_xt(debug_xt_list, w)) \cup {"tramp"}
<1>5. /\ Leave(drs) /\ debug_xt_list' = list /\ changed' = (changed \/ adds)
      /\ ups' = {u \in ups : u.depth # Len(drs)}
      /\ UNCHANGED <<dbgrstackcnt, subs>>
  BY Zenon DEF semis_dbg
<1>6. /\ dpc' = Newest(drs) /\ drs' = Older(drs)
      /\ levels' = (IF Len(drs) - 1 = Newest(levels).base THEN Older(levels) ELSE levels)
  BY <1>5, Zenon DEF Leave, Level
<1>7. debug_xt_list \in Seq(Entries)
  BY <1>1 DEF DebugTypeOK
<1>8. AtEnd => w \in User /\ caller \in User \cup {"tramp"} /\ debug_xt_list # <<>>
  <2> SUFFICES ASSUME AtEnd PROVE w \in User /\ caller \in User \cup {"tramp"} /\ debug_xt_list # <<>>
    OBVIOUS
  <2>1. w \in Marked(debug_xt_list)
    BY Zenon DEF AtEnd
  <2>2. PICK i \in DOMAIN debug_xt_list : debug_xt_list[i].xt = w
    BY <2>1 DEF Marked
  <2>3. debug_xt_list[i] \in Entries /\ debug_xt_list # <<>>
    BY <1>7, <2>2
  <2>4. w \in User
    BY <2>2, <2>3 DEF Entries
  <2>5. drs \in Seq(Frames) /\ drs # <<>> /\ ChainIn(drs, w)
    BY <1>1 DEF StackOK, StackIn
  <2>6. Calls(drs[Len(drs)], w)
    BY <2>5 DEF ChainIn, AboveIn
  <2>7. caller \in User \cup {"tramp"}
    BY <2>4, <2>6 DEF Calls, UserCells, Newest
  <2> QED
    BY <2>3, <2>4, <2>7
<1>9. /\ debug_xt_list' \in Seq(Entries) /\ (adds => debug_xt_list' # <<>>)
      /\ Distinct(debug_xt_list) => Distinct(debug_xt_list')
      /\ \A e \in Ents(debug_xt_list) : e.xt # w => e \in Ents(debug_xt_list')
  <2>1. CASE Level.loop = "next" \/ ~AtEnd
    BY <1>5, <1>7, <2>1, Zenon
  <2>2. CASE ~(Level.loop = "next" \/ ~AtEnd) /\ goesUp
    <3>1. debug_xt_list' = GoneUp(debug_xt_list, w, caller)
      BY <1>5, <2>2, Zenon
    <3>2. w \in User /\ caller \in User \cup {"tramp"}
      BY <1>8, <2>2
    <3> HIDE DEF w, caller, list, goesUp
    <3> QED
      BY <1>7, <3>1, <3>2, GoneUpFacts, Zenon
  <2>3. CASE ~(Level.loop = "next" \/ ~AtEnd) /\ ~goesUp
    <3>1. debug_xt_list' = SetMode(debug_xt_list, w, "step") /\ ~adds
      BY <1>5, <2>3, Zenon
    <3>2. w \in User /\ "step" \in Modes
      BY <1>8, <2>3 DEF Modes
    <3> HIDE DEF w, adds
    <3> QED
      BY <1>7, <3>1, <3>2, SetModeFacts, Zenon
  <2> QED
    BY <2>1, <2>2, <2>3, Zenon
<1>10. debug_xt_list = <<>> => debug_xt_list' = <<>>
  BY <1>5, <1>8, Zenon
<1>11. changed' \in BOOLEAN /\ (changed' => debug_xt_list' # <<>>)
  <2> HIDE DEF adds
  <2> QED
    BY <1>4, <1>5, <1>9, Zenon
<1>12. AtEnd /\ ModeOf(w) = "stepup" /\ Level.loop = "dbg" =>
         /\ debug_xt_list' = GoneUp(debug_xt_list, w, caller)
         /\ w \in User /\ caller \in User \cup {"tramp"}
  <2>1. "dbg" # "next"
    OBVIOUS
  <2> QED
    BY <1>5, <1>8, <2>1, Zenon
<1> HIDE DEF list, adds, goesUp
<1> QED
  BY <1>3, <1>4, <1>5, <1>6, <1>9, <1>10, <1>11, <1>12, Zenon

LEMMA SemisKeeps ==
  ASSUME DebugInv, walk = 0, walk' = -1, Op[1] \in {"exit", "semis"}, semis_dbg
  PROVE  DebugInv'
<1>1. DebugTypeOK /\ PcOK /\ StackOK /\ LoopOK
  BY DEF DebugInv
<1>2. /\ dpc[1] \in {"eval", "tramp"} \cup User /\ ~changed
      /\ dpc' = Newest(drs) /\ drs' = Older(drs)
      /\ levels' = (IF Len(drs) - 1 = Newest(levels).base THEN Older(levels) ELSE levels)
      /\ ups' = {u \in ups : u.depth # Len(drs)}
      /\ UNCHANGED <<dbgrstackcnt, subs>>
  BY SemisFacts, Zenon
<1>3. /\ debug_xt_list' \in Seq(Entries) /\ changed' \in BOOLEAN
      /\ changed' => debug_xt_list' # <<>>
      /\ debug_xt_list = <<>> => debug_xt_list' = <<>>
  BY SemisFacts, Zenon
<1>4. /\ StackIn(drs', dpc'[1], levels', subs, dbgrstackcnt)
      /\ Len(drs) - 1 = Newest(levels).base => dpc' = <<"oi", 1>>
  <2>1. StackIn(drs, dpc[1], levels, subs, dbgrstackcnt) /\ dbgrstackcnt \in Nat
    BY <1>1, Zenon DEF StackOK, DebugTypeOK
  <2> QED
    BY <1>2, <2>1, Pop, Zenon
<1>5. StackOK'
  BY <1>2, <1>4 DEF StackOK
<1>6. DebugTypeOK'
  BY <1>1, <1>2, <1>3 DEF DebugTypeOK
<1>7. dpc' \in Frames /\ dpc' # <<"boot", 0>>
  <2>1. drs \in Seq(Frames) /\ drs # <<>> /\ ChainIn(drs, dpc[1])
    BY <1>1 DEF StackOK, StackIn
  <2>2. drs[Len(drs)] # <<"boot", 0>>
    BY <1>2, <2>1, Deep, Zenon
  <2> QED
    BY <1>2, <2>1, <2>2 DEF Newest
<1>8. PcOK'
  BY <1>7 DEF PcOK, Frames, Fixed
<1>9. dpc # <<"oi", 1>>
  BY <1>2, Words
<1>10. LoopOK'
  BY <1>1, <1>2, <1>3, <1>4, <1>9 DEF LoopOK, Level
<1> QED
  BY <1>5, <1>6, <1>8, <1>10 DEF DebugInv

LEMMA ExecuteKeeps ==
  ASSUME DebugInv, ExecuteToken
  PROVE  DebugInv'
<1>1. walk = 0 /\ walk' = -1 /\ ExecuteCell
  BY Zenon DEF ExecuteToken
<1>2. \/ /\ Op[1] \in {"prim", "call", "exit", "refill"}
         /\ UNCHANGED <<dpc, drs, levels, debug_xt_list, changed, dbgrstackcnt, subs, ups>>
      \/ Op[1] = "call" /\ docol_dbg(Op[2])
      \/ Op[1] \in {"exit", "semis"} /\ semis_dbg
  BY <1>1 DEF ExecuteCell
<1> QED
  BY <1>1, <1>2, PlainCellKeeps, CallKeeps, SemisKeeps, Zenon

LEMMA RechooseKeeps ==
  ASSUME DebugInv, Rechoose
  PROVE  DebugInv'
<1>1. /\ changed /\ walk = -1 /\ changed' = FALSE
      /\ levels' = [levels EXCEPT ![Len(levels)].loop = Loop(debug_xt_list)]
      /\ UNCHANGED <<dpc, drs, debug_xt_list, walk, dbgrstackcnt, subs, ups>>
  BY Zenon DEF Rechoose
<1>2. DebugTypeOK /\ PcOK /\ StackOK /\ LoopOK
  BY DEF DebugInv
<1>3. Loop(debug_xt_list) = "dbg"
  BY <1>1, <1>2, Zenon DEF LoopOK, Loop
<1>4. StackIn(drs, dpc[1], levels', subs, dbgrstackcnt) /\ Newest(levels').loop = "dbg"
  <2>1. StackIn(drs, dpc[1], levels, subs, dbgrstackcnt) /\ dbgrstackcnt \in Nat
    BY <1>2, Zenon DEF StackOK, DebugTypeOK
  <2> QED
    BY <1>1, <1>3, <2>1, Reloop, Zenon
<1>5. StackOK'
  BY <1>1, <1>4 DEF StackOK
<1>6. DebugTypeOK' /\ PcOK'
  <2>1. DebugTypeOK'
    BY <1>1, <1>2, Zenon DEF DebugTypeOK
  <2>2. PcOK'
    BY <1>1, <1>2 DEF PcOK
  <2> QED
    BY <2>1, <2>2
<1>7. LoopOK'
  BY <1>1, <1>4 DEF LoopOK, Level
<1> QED
  BY <1>5, <1>6, <1>7 DEF DebugInv

LEMMA LineKeeps ==
  ASSUME DebugInv, Line
  PROVE  DebugInv'
<1>1. /\ dpc = <<"oi", 1>> /\ walk = -1 /\ dpc' = <<"eval", 1>> /\ changed' = FALSE
      /\ levels' = Append(levels, [base |-> Len(drs), loop |-> Loop(debug_xt_list)])
      /\ drs' = Append(drs, dpc)
      /\ UNCHANGED <<debug_xt_list, walk, dbgrstackcnt, subs, ups>>
  BY Zenon DEF Line
<1>2. DebugTypeOK /\ PcOK /\ StackOK /\ LoopOK
  BY DEF DebugInv
<1> DEFINE loop == Loop(debug_xt_list)
<1>3. loop \in {"next", "dbg"} /\ (debug_xt_list # <<>> => loop = "dbg") /\ dpc[1] = "oi" /\ dpc'[1] = "eval"
  BY <1>1 DEF Loop
<1> HIDE DEF loop
<1>4. drs' = Append(drs, <<"oi", 1>>) /\ levels' = Append(levels, [base |-> Len(drs), loop |-> loop])
  BY <1>1, Zenon DEF loop
<1>5. StackIn(drs, "oi", levels, subs, dbgrstackcnt) /\ dbgrstackcnt \in Nat
  BY <1>2, <1>3, Zenon DEF StackOK, DebugTypeOK
<1>6. StackIn(drs', "eval", levels', subs, dbgrstackcnt)
  BY <1>3, <1>4, <1>5, PushLine, Zenon
<1>7. StackOK'
  BY <1>1, <1>3, <1>6, Zenon DEF StackOK
<1>8. DebugTypeOK' /\ PcOK'
  <2>1. DebugTypeOK'
    BY <1>1, <1>2, Zenon DEF DebugTypeOK
  <2>2. PcOK'
    BY <1>1, <1>2 DEF PcOK
  <2> QED
    BY <2>1, <2>2
<1>9. Level'.loop = loop
  <2>1. levels \in Seq(LevelTypes) /\ drs \in Seq(Frames)
    BY <1>5, Zenon DEF StackIn
  <2>2. [base |-> Len(drs), loop |-> loop] \in LevelTypes
    BY <1>3, <2>1 DEF LevelTypes
  <2> QED
    BY <1>4, <2>1, <2>2, PushFacts DEF Level
<1>10. LoopOK'
  BY <1>1, <1>3, <1>9 DEF LoopOK
<1> QED
  BY <1>7, <1>8, <1>10 DEF DebugInv

LEMMA MarkKeeps ==
  ASSUME DebugInv, do_debug_off \/ \E w \in User : do_debug_xt(w)
  PROVE  DebugInv'
<1>1. DebugTypeOK /\ PcOK /\ StackOK /\ LoopOK
  BY DEF DebugInv
<1>2. /\ dpc = <<"eval", 1>> /\ walk = -1 /\ ~changed
      /\ UNCHANGED <<dpc, drs, levels, walk, dbgrstackcnt, subs>>
  BY Zenon DEF do_debug_off, do_debug_xt, InLine
<1>3. StackOK'
  BY <1>1, <1>2, SameStack
<1>4. PcOK'
  BY <1>1, <1>2 DEF PcOK
<1>5. CASE do_debug_off
  <2>1. debug_xt_list' = <<>> /\ ups' = {} /\ changed' = changed
    BY <1>5, Zenon DEF do_debug_off
  <2>2. DebugTypeOK'
    BY <1>1, <1>2, <2>1 DEF DebugTypeOK
  <2>3. LoopOK'
    BY <1>2, <2>1 DEF LoopOK
  <2> QED
    BY <1>3, <1>4, <2>2, <2>3 DEF DebugInv
<1>6. ASSUME NEW w \in User, do_debug_xt(w) PROVE DebugInv'
  <2>1. debug_xt_list' = add_debug_xt(debug_xt_list, w) /\ ups' = ups /\ changed' = TRUE
    BY <1>6, Zenon DEF do_debug_xt
  <2>2. debug_xt_list \in Seq(Entries)
    BY <1>1 DEF DebugTypeOK
  <2>3. debug_xt_list' \in Seq(Entries) /\ debug_xt_list' # <<>>
    BY <2>1, <2>2, AddFacts, Zenon
  <2>4. DebugTypeOK'
    BY <1>1, <1>2, <2>1, <2>3 DEF DebugTypeOK
  <2>5. LoopOK'
    BY <1>2, <2>1, <2>3 DEF LoopOK
  <2> QED
    BY <1>3, <1>4, <2>4, <2>5 DEF DebugInv
<1> QED
  BY <1>5, <1>6

LEMMA RunKeeps ==
  ASSUME DebugInv, NEW w \in User, RunWord(w)
  PROVE  /\ DebugInv'
         /\ drs' = Append(Append(drs, dpc), <<"tramp", 1>>)
         /\ dpc \in Frames /\ <<"tramp", 1>> \in Frames
<1>1. DebugTypeOK /\ PcOK /\ StackOK /\ LoopOK
  BY DEF DebugInv
<1>2. /\ dpc = <<"eval", 1>> /\ walk = -1 /\ ~changed
      /\ drs' = drs \o <<dpc, <<"tramp", 1>> >> /\ dpc' = <<w, 0>>
      /\ debug_xt_list' = IF Level.loop = "dbg" THEN SetMode(debug_xt_list, w, "step") ELSE debug_xt_list
      /\ UNCHANGED <<levels, changed, walk, dbgrstackcnt, subs, ups>>
  BY Zenon DEF RunWord, InLine
<1> DEFINE f == <<"tramp", 1>>
<1>3. /\ dpc \in Frames /\ f \in Frames /\ f[1] = "tramp" /\ f # <<"boot", 0>> /\ dpc # <<"boot", 0>>
  BY <1>2 DEF Frames, Fixed
<1>4. w \notin {"oi", "eval", "tramp", "boot"} /\ "tramp" \notin User /\ CodeLen(w) > 0
  BY Words
<1>5. Calls(dpc, f[1]) /\ Calls(f, w)
  BY <1>2, <1>4 DEF Calls
<1>6. StackIn(drs, dpc[1], levels, subs, dbgrstackcnt) /\ dbgrstackcnt \in Nat /\ drs \in Seq(Frames)
  BY <1>1, Zenon DEF StackOK, StackIn, DebugTypeOK
<1>7. drs' = Append(Append(drs, dpc), f)
  <2>1. drs' = drs \o <<dpc, f>>
    BY <1>2, Zenon
  <2>2. drs \in Seq(Frames) /\ dpc \in Frames /\ f \in Frames
    BY <1>3, <1>6, Zenon
  <2> HIDE DEF f
  <2> QED
    BY <2>1, <2>2, ConcatPair
<1>8. f[1] # "oi" /\ w # "oi"
  BY <1>4
<1> HIDE DEF f
<1>9. StackIn(Append(drs, dpc), f[1], levels, subs, dbgrstackcnt)
  BY <1>3, <1>5, <1>6, <1>8, Push, Zenon
<1>10. StackIn(drs', w, levels, subs, dbgrstackcnt)
  BY <1>3, <1>5, <1>6, <1>7, <1>8, <1>9, Push, Zenon
<1>11. StackOK'
  BY <1>2, <1>10 DEF StackOK
<1>12. debug_xt_list' \in Seq(Entries) /\ (debug_xt_list' = <<>> <=> debug_xt_list = <<>>)
  <2>1. debug_xt_list \in Seq(Entries) /\ "step" \in Modes
    BY <1>1 DEF DebugTypeOK, Modes
  <2> QED
    BY <1>2, <2>1, SetModeFacts, Zenon
<1>13. DebugTypeOK'
  BY <1>1, <1>2, <1>12 DEF DebugTypeOK
<1>14. PcOK'
  BY <1>2, <1>4 DEF PcOK, UserCells
<1>15. LoopOK'
  BY <1>1, <1>2, <1>12 DEF LoopOK, Level
<1> QED
  BY <1>3, <1>7, <1>11, <1>13, <1>14, <1>15 DEF DebugInv, f

LEMMA ResumeKeeps ==
  ASSUME DebugInv, Resume
  PROVE  DebugInv' /\ dpc' = Newest(subs) /\ dpc' = Newest(drs) /\ drs' = Older(drs)
<1>1. /\ dpc = <<"oi", 1>> /\ walk = -1 /\ subs # <<>>
      /\ dpc' = Newest(Cut(drs, dbgrstackcnt)) /\ drs' = Older(Cut(drs, dbgrstackcnt))
      /\ subs' = Older(subs)
      /\ UNCHANGED <<levels, debug_xt_list, changed, walk, dbgrstackcnt, ups>>
  BY Zenon DEF Resume
<1>2. DebugTypeOK /\ PcOK /\ StackOK /\ LoopOK
  BY DEF DebugInv
<1>3. StackIn(drs, "oi", levels, subs, dbgrstackcnt) /\ dbgrstackcnt \in Nat /\ drs \in Seq(Frames) /\ drs # <<>>
  BY <1>1, <1>2 DEF StackOK, StackIn, DebugTypeOK
<1>4. /\ dbgrstackcnt = Len(drs) /\ subs = <<Newest(drs)>> /\ Newest(drs) \in UserCells
      /\ StackIn(Older(drs), Newest(drs)[1], levels, <<>>, dbgrstackcnt)
      /\ Newest(levels).loop = "dbg"
  BY <1>1, <1>3, PopSub, Zenon
<1>5. Cut(drs, Len(drs)) = drs
  BY <1>3 DEF Cut
<1>6. dpc' = Newest(drs) /\ drs' = Older(drs)
  BY <1>1, <1>4, <1>5, Zenon
<1>7. subs' = <<>> /\ Newest(subs) = Newest(drs)
  <2> DEFINE x == Newest(drs)
  <2> HIDE DEF x
  <2>1. subs = <<x>>
    BY <1>4 DEF x
  <2>2. Older(<<x>>) = <<>> /\ Newest(<<x>>) = x
    BY DEF Older, Newest
  <2> QED
    BY <1>1, <2>1, <2>2 DEF x
<1>8. StackOK'
  BY <1>1, <1>4, <1>6, <1>7, Zenon DEF StackOK
<1>9. DebugTypeOK'
  BY <1>1, <1>2 DEF DebugTypeOK
<1>10. dpc' \in Frames /\ dpc' \in UserCells
  BY <1>3, <1>4, <1>6, OlderFacts
<1>11. dpc' \in UserCells /\ dpc'[2] < CodeLen(dpc'[1])
  <2>1. dpc' \notin Fixed
    BY <1>10, Words DEF Fixed, UserCells
  <2> QED
    BY <1>10, <2>1 DEF Frames
<1>12. PcOK'
  BY <1>1, <1>11 DEF PcOK
<1>13. LoopOK'
  BY <1>1, <1>2, <1>4 DEF LoopOK, Level
<1> QED
  BY <1>6, <1>7, <1>8, <1>9, <1>12, <1>13 DEF DebugInv
-----------------------------------------------------------------------------
LEMMA DebugInvInit == DebugInit => DebugInv
<1> SUFFICES ASSUME DebugInit PROVE DebugInv
  OBVIOUS
<1> DEFINE b == <<"boot", 0>>
           e == [base |-> 0, loop |-> "next"]
<1>1. /\ dpc = <<"oi", 1>> /\ drs = <<b>> /\ levels = <<e>>
      /\ debug_xt_list = <<>> /\ changed = FALSE /\ walk = -1
      /\ dbgrstackcnt = 0 /\ subs = <<>> /\ ups = {}
  BY DEF DebugInit
<1>2. b \in Frames /\ e \in LevelTypes /\ e.base = 0
  BY DEF Frames, Fixed, LevelTypes
<1>3. DebugTypeOK /\ PcOK /\ LoopOK
  <2>1. DebugTypeOK
    <3>1. changed \in BOOLEAN
      BY <1>1, Zenon
    <3>2. /\ debug_xt_list \in Seq(Entries) /\ walk \in -1 .. Len(debug_xt_list)
          /\ dbgrstackcnt \in Nat /\ ups \in SUBSET [word : User, depth : Nat]
      BY <1>1
    <3> QED
      BY <3>1, <3>2, Zenon DEF DebugTypeOK
  <2>2. PcOK /\ LoopOK
    BY <1>1 DEF PcOK, LoopOK
  <2> QED
    BY <2>1, <2>2
<1> HIDE DEF e
<1>4. drs \in Seq(Frames) /\ drs # <<>> /\ Len(drs) = 1 /\ drs[1] = b
  BY <1>1, <1>2
<1>5. levels \in Seq(LevelTypes) /\ levels # <<>> /\ Len(levels) = 1 /\ levels[1] = e
  BY <1>1, <1>2
<1>6. ChainIn(drs, "oi")
  <2>1. Calls(b, "oi")
    BY Words DEF Calls
  <2> QED
    BY <1>4, <2>1 DEF ChainIn, AboveIn
<1>7. LevelsIn(drs, levels)
  BY <1>2, <1>4, <1>5 DEF LevelsIn
<1>8. SubsIn(drs, "oi", levels, subs, dbgrstackcnt)
  BY <1>1, <1>4 DEF SubsIn
<1>9. StackOK
  BY <1>1, <1>4, <1>5, <1>6, <1>7, <1>8 DEF StackOK, StackIn
<1> QED
  BY <1>3, <1>9 DEF DebugInv

LEMMA DebugInvStep ==
  ASSUME ~SubInSub, DebugInv, [DebugNext]_debugVars
  PROVE  DebugInv'
<1>1. CASE UNCHANGED debugVars
  BY <1>1 DEF debugVars, DebugInv, DebugTypeOK, PcOK, StackOK, LoopOK, Level, Op
<1>2. CASE DebugNext
  BY <1>2, FetchKeeps, KeysKeep, KeyForthKeeps, ExecuteKeeps, RechooseKeeps, LineKeeps, MarkKeeps, RunKeeps,
     ResumeKeeps, Zenon DEF DebugNext
<1> QED
  BY <1>1, <1>2

LEMMA InvNoFast == DebugInv => NoListedWordRunsFast
<1> SUFFICES ASSUME DebugInv, Level.loop = "next", ~changed, dpc[1] \in Marked(debug_xt_list) PROVE FALSE
  BY DEF NoListedWordRunsFast
<1>1. debug_xt_list \in Seq(Entries)
  BY DEF DebugInv, DebugTypeOK
<1>2. PICK i \in DOMAIN debug_xt_list : debug_xt_list[i].xt = dpc[1]
  BY DEF Marked
<1>3. debug_xt_list[i] \in Entries /\ debug_xt_list # <<>>
  BY <1>1, <1>2
<1>4. dpc[1] \in User
  BY <1>2, <1>3 DEF Entries
<1>5. dpc # <<"oi", 1>>
  BY <1>4, Words
<1> QED
  BY <1>3, <1>5 DEF DebugInv, LoopOK

\* However words are marked, left by "Up", entered by "Down" or taken off the
\* list, at whatever depth of calls and of lines: the inner loop without the
\* debugger executes no cell of a word that is on the list (next, enterforth), as
\* long as no subordinate interpreter is started below another.
THEOREM NeverRunsFast == ASSUME ~SubInSub PROVE DebugSpec => []NoListedWordRunsFast
<1>1. DebugInv /\ [DebugNext]_debugVars => DebugInv'
  BY DebugInvStep
<1> QED
  BY <1>1, DebugInvInit, InvNoFast, PTL DEF DebugSpec
-----------------------------------------------------------------------------
\* A word has one entry.
LEMMA OneEntry ==
  ASSUME NEW list \in Seq(Entries), Distinct(list), NEW d \in Ents(list), NEW e \in Ents(list), d.xt = e.xt
  PROVE  d = e
  BY Zenon DEF Distinct, Ents

\* Of the words to be left, only the one on top can be the one that runs.
LEMMA UpFacts ==
  ASSUME DebugInv, UpsOK, NEW u \in ups
  PROVE  /\ u.word \in User /\ u.depth \in Nat /\ u.depth \in 1 .. Len(drs) /\ drs \in Seq(Frames)
         /\ u.word = dpc[1] <=> u.depth = Len(drs)
         /\ [xt |-> u.word, mode |-> "stepup"] \in Ents(debug_xt_list)
<1>1. u \in [word : User, depth : Nat] /\ drs \in Seq(Frames) /\ drs # <<>> /\ Len(drs) \in Nat /\ Len(drs) > 0
  BY DEF DebugInv, DebugTypeOK, StackOK, StackIn
<1>2. /\ u.depth \in 1 .. Len(drs) /\ AboveIn(drs, dpc[1], u.depth) = u.word
      /\ \A k \in u.depth + 1 .. Len(drs) : AboveIn(drs, dpc[1], k) # u.word
  BY Zenon DEF UpsOK, UpsIn
<1>3. AboveIn(drs, dpc[1], Len(drs)) = dpc[1]
  BY <1>1 DEF AboveIn
<1>4. u.word = dpc[1] <=> u.depth = Len(drs)
  BY <1>1, <1>2, <1>3
<1>5. [xt |-> u.word, mode |-> "stepup"] \in Ents(debug_xt_list)
  BY Zenon DEF UpsOK
<1> QED
  BY <1>1, <1>2, <1>4, <1>5

LEMMA SameUps ==
  ASSUME UpsOK, dpc'[1] = dpc[1], UNCHANGED <<drs, ups>>,
         Distinct(debug_xt_list'),
         \A u \in ups : [xt |-> u.word, mode |-> "stepup"] \in Ents(debug_xt_list')
  PROVE  UpsOK'
  BY Zenon DEF UpsOK

\* A key that sets the mode of the word that runs, which is not one to be left.
LEMMA NotLeaving ==
  ASSUME DebugInv, UpsOK, Prompts, NEW m \in Modes, debug_xt_list' = SetMode(debug_xt_list, Entry.xt, m)
  PROVE  /\ Distinct(debug_xt_list') /\ [xt |-> Entry.xt, mode |-> m] \in Ents(debug_xt_list')
         /\ \A u \in ups : [xt |-> u.word, mode |-> "stepup"] \in Ents(debug_xt_list')
<1>1. debug_xt_list \in Seq(Entries) /\ Distinct(debug_xt_list)
  BY DEF DebugInv, DebugTypeOK, UpsOK
<1>2. Entry \in Ents(debug_xt_list) /\ Entry.xt \in User /\ Entry.mode # "stepup"
  BY PromptFacts
<1>3. /\ Distinct(debug_xt_list')
      /\ \A e \in Ents(debug_xt_list) : e.xt # Entry.xt => e \in Ents(debug_xt_list')
      /\ Entry.xt \in Marked(debug_xt_list) => [xt |-> Entry.xt, mode |-> m] \in Ents(debug_xt_list')
  BY <1>1, <1>2, SetModeFacts, Zenon
<1>4. Entry.xt \in Marked(debug_xt_list)
  BY <1>2, Zenon DEF Ents, Marked
<1>5. ASSUME NEW u \in ups PROVE [xt |-> u.word, mode |-> "stepup"] \in Ents(debug_xt_list')
  <2> DEFINE e == [xt |-> u.word, mode |-> "stepup"]
  <2>1. e \in Ents(debug_xt_list) /\ e.xt = u.word /\ e.mode = "stepup"
    BY UpFacts
  <2> HIDE DEF e
  <2>2. e.xt # Entry.xt
    BY <1>1, <1>2, <2>1, OneEntry, Zenon
  <2> QED
    BY <1>3, <2>1, <2>2, Zenon DEF e
<1> QED
  BY <1>3, <1>4, <1>5, Zenon

LEMMA KeysUps ==
  ASSUME DebugInv, UpsOK, Pass \/ KeyStep \/ KeyTrace \/ KeyUp \/ KeyDown
  PROVE  UpsOK'
<1>0. debug_xt_list \in Seq(Entries) /\ drs \in Seq(Frames) /\ drs # <<>> /\ walk \in Int
  BY DEF DebugInv, DebugTypeOK, StackOK, StackIn
<1>1. CASE Pass \/ KeyStep
  <2>1. UNCHANGED <<dpc, drs, debug_xt_list, ups>>
    BY <1>1, Zenon DEF Pass, KeyStep
  <2> QED
    BY <2>1, Zenon DEF UpsOK
<1>2. CASE KeyTrace
  <2>1. /\ Prompts /\ debug_xt_list' = SetMode(debug_xt_list, Entry.xt, "trace") /\ UNCHANGED <<dpc, drs, ups>>
    BY <1>2, Zenon DEF KeyTrace
  <2>2. "trace" \in Modes
    BY DEF Modes
  <2> QED
    BY <2>1, <2>2, NotLeaving, SameUps, Zenon
<1>3. CASE KeyUp
  <2> DEFINE n == [word |-> Entry.xt, depth |-> Len(drs)]
  <2>1. /\ Prompts /\ debug_xt_list' = SetMode(debug_xt_list, Entry.xt, "stepup")
        /\ ups' = ups \cup {n} /\ UNCHANGED <<dpc, drs>>
    BY <1>3, Zenon DEF KeyUp
  <2>2. "stepup" \in Modes
    BY DEF Modes
  <2>3. Distinct(debug_xt_list') /\ [xt |-> Entry.xt, mode |-> "stepup"] \in Ents(debug_xt_list')
    BY <2>1, <2>2, NotLeaving, Zenon
  <2>4. \A u \in ups : [xt |-> u.word, mode |-> "stepup"] \in Ents(debug_xt_list')
    BY <2>1, <2>2, NotLeaving, ZenonT(60)
  <2>5. n.word = Entry.xt /\ n.depth = Len(drs) /\ Entry.xt = dpc[1]
    BY <2>1, PromptFacts
  <2> HIDE DEF n
  <2>6. /\ n.depth \in 1 .. Len(drs) /\ AboveIn(drs, dpc[1], n.depth) = n.word
        /\ \A k \in n.depth + 1 .. Len(drs) : AboveIn(drs, dpc[1], k) # n.word
    BY <1>0, <2>5 DEF AboveIn
  <2>7. UpsIn(drs, dpc[1], ups')
    BY <2>1, <2>6, Zenon DEF UpsOK, UpsIn
  <2> QED
    BY <2>1, <2>3, <2>4, <2>5, <2>7, Zenon DEF UpsOK
<1>4. CASE KeyDown
  <2>1. /\ Prompts /\ Op[1] = "call" /\ debug_xt_list' = add_debug_xt(debug_xt_list, Op[2])
        /\ UNCHANGED <<dpc, drs, ups>>
    BY <1>4, Zenon DEF KeyDown
  <2>2. walk > 0 /\ dpc[1] \in User
    BY <2>1, PromptFacts
  <2>3. Op[2] \in User
    BY <1>0, <2>1, <2>2, OpFacts DEF DebugInv
  <2>4. /\ Distinct(debug_xt_list) => Distinct(debug_xt_list')
        /\ Ents(debug_xt_list) \subseteq Ents(debug_xt_list')
    BY <1>0, <2>1, <2>3, AddFacts, Zenon
  <2> QED
    BY <2>1, <2>4, SameUps, Zenon DEF UpsOK
<1> QED
  BY <1>1, <1>2, <1>3, <1>4

\* A call, of a word that is not one to be left.
LEMMA EnterUps ==
  ASSUME DebugInv, UpsOK, NEW f \in Frames, f[1] = dpc[1], drs' = Append(drs, f), ups' = ups,
         \A u \in ups : u.word # dpc'[1],
         Distinct(debug_xt_list'),
         \A u \in ups : [xt |-> u.word, mode |-> "stepup"] \in Ents(debug_xt_list')
  PROVE  UpsOK'
<1>1. drs \in Seq(Frames) /\ ups \in SUBSET [word : User, depth : Nat]
  BY DEF DebugInv, DebugTypeOK, StackOK, StackIn
<1>2. UpsIn(drs, f[1], ups)
  BY Zenon DEF UpsOK
<1>3. UpsIn(drs', dpc'[1], ups)
  BY <1>1, <1>2, UpsPush, Zenon
<1> QED
  BY <1>3, Zenon DEF UpsOK

\* The mode of a word that is entered is set.
LEMMA EnteredList ==
  ASSUME DebugInv, UpsOK, NEW w \in User, \A u \in ups : u.word # w,
         debug_xt_list' = IF Level.loop = "dbg" THEN SetMode(debug_xt_list, w, "step") ELSE debug_xt_list
  PROVE  /\ Distinct(debug_xt_list')
         /\ \A u \in ups : [xt |-> u.word, mode |-> "stepup"] \in Ents(debug_xt_list')
<1>1. debug_xt_list \in Seq(Entries) /\ Distinct(debug_xt_list) /\ "step" \in Modes
  BY DEF DebugInv, DebugTypeOK, UpsOK, Modes
<1>2. CASE Level.loop # "dbg"
  BY <1>1, <1>2, UpFacts, Zenon
<1>3. CASE Level.loop = "dbg"
  <2>1. /\ Distinct(debug_xt_list')
        /\ \A e \in Ents(debug_xt_list) : e.xt # w => e \in Ents(debug_xt_list')
    BY <1>1, <1>3, SetModeFacts, Zenon
  <2>2. ASSUME NEW u \in ups PROVE [xt |-> u.word, mode |-> "stepup"] \in Ents(debug_xt_list')
    <3> DEFINE e == [xt |-> u.word, mode |-> "stepup"]
    <3>1. e \in Ents(debug_xt_list) /\ e.xt = u.word
      BY UpFacts
    <3> HIDE DEF e
    <3> QED
      BY <2>1, <3>1, Zenon DEF e
  <2> QED
    BY <2>1, <2>2
<1> QED
  BY <1>2, <1>3

\* A return.
LEMMA SemisUps ==
  ASSUME DebugInv, UpsOK, walk = 0, Op[1] \in {"exit", "semis"}, semis_dbg
  PROVE  UpsOK'
<1>1. /\ dpc' = Newest(drs) /\ drs' = Older(drs) /\ ups' = {u \in ups : u.depth # Len(drs)}
      /\ Distinct(debug_xt_list) => Distinct(debug_xt_list')
      /\ \A e \in Ents(debug_xt_list) : e.xt # dpc[1] => e \in Ents(debug_xt_list')
  BY SemisFacts, Zenon
<1>2. drs \in Seq(Frames) /\ drs # <<>> /\ ups \in SUBSET [word : User, depth : Nat]
  BY DEF DebugInv, DebugTypeOK, StackOK, StackIn
<1>3. UpsIn(drs', dpc'[1], ups')
  BY <1>1, <1>2, UpsPop, Zenon DEF UpsOK
<1>4. ASSUME NEW u \in ups' PROVE [xt |-> u.word, mode |-> "stepup"] \in Ents(debug_xt_list')
  <2> DEFINE e == [xt |-> u.word, mode |-> "stepup"]
  <2>1. u \in ups /\ u.depth # Len(drs)
    BY <1>1, <1>4, Zenon
  <2>2. e \in Ents(debug_xt_list) /\ e.xt = u.word /\ u.word # dpc[1]
    BY <2>1, UpFacts
  <2> HIDE DEF e
  <2> QED
    BY <1>1, <2>2, Zenon DEF e
<1> QED
  BY <1>1, <1>3, <1>4, Zenon DEF UpsOK

LEMMA ResumeUps ==
  ASSUME DebugInv, UpsOK, Resume
  PROVE  UpsOK' /\ \A u \in ups : u.depth # Len(drs)
<1>1. dpc' = Newest(drs) /\ drs' = Older(drs)
  BY ResumeKeeps
<1>2. dpc = <<"oi", 1>> /\ UNCHANGED <<debug_xt_list, ups>>
  BY Zenon DEF Resume
<1>3. drs \in Seq(Frames) /\ drs # <<>> /\ ups \in SUBSET [word : User, depth : Nat]
  BY DEF DebugInv, DebugTypeOK, StackOK, StackIn
<1>4. UpsIn(drs', dpc'[1], {u \in ups : u.depth # Len(drs)})
  BY <1>1, <1>3, UpsPop, Zenon DEF UpsOK
<1>5. \A u \in ups : u.depth # Len(drs)
  <2>1. dpc[1] = "oi"
    BY <1>2
  <2>2. "oi" \notin User
    BY Words
  <2> QED
    BY <2>1, <2>2, UpFacts, Zenon
<1>6. UpsIn(drs', dpc'[1], ups')
  BY <1>2, <1>4, <1>5, Zenon DEF UpsIn
<1> QED
  BY <1>2, <1>5, <1>6, Zenon DEF UpsOK

LEMMA ExecuteUps ==
  ASSUME DebugInv, UpsOK, ~LeavesEarly, ExecuteToken
  PROVE  UpsOK'
<1>1. walk = 0 /\ ExecuteCell
  BY Zenon DEF ExecuteToken
<1>2. CASE UNCHANGED <<dpc, drs, debug_xt_list, ups>>
  BY <1>2, Zenon DEF UpsOK
<1>3. CASE Op[1] = "call" /\ MayEnter(Op[2]) /\ docol_dbg(Op[2])
  <2>1. /\ drs' = Append(drs, dpc) /\ dpc' = <<Op[2], 0>> /\ ups' = ups
        /\ debug_xt_list' = IF Level.loop = "dbg" THEN SetMode(debug_xt_list, Op[2], "step") ELSE debug_xt_list
    BY <1>3, Zenon DEF docol_dbg
  <2>2. PcOK /\ \A u \in ups : u.word # Op[2]
    BY <1>3, Zenon DEF MayEnter, DebugInv
  <2>3. /\ dpc \in UserCells /\ dpc[2] \in 1 .. CodeLen(dpc[1]) /\ dpc[2] # CodeLen(dpc[1])
        /\ dpc[1] \in User /\ Op[2] \in User
    BY <1>1, <1>3, <2>2, OpFacts
  <2>4. dpc \in Frames
    BY <2>3, Words DEF Frames
  <2>5. dpc'[1] = Op[2]
    BY <2>1
  <2> QED
    BY <2>1, <2>2, <2>3, <2>4, <2>5, EnteredList, EnterUps, Zenon
<1>4. CASE Op[1] \in {"exit", "semis"} /\ semis_dbg
  BY <1>1, <1>4, SemisUps
<1> QED
  BY <1>1, <1>2, <1>3, <1>4 DEF ExecuteCell

LEMMA TopUps ==
  ASSUME DebugInv, UpsOK, ~SubInSub, ~LeavesEarly,
         Fetch \/ FetchFast \/ Rechoose \/ KeyForth \/ Line \/ do_debug_off
         \/ \E w \in User : do_debug_xt(w) \/ RunWord(w)
  PROVE  UpsOK'
<1>0. debug_xt_list \in Seq(Entries) /\ drs \in Seq(Frames) /\ ups \in SUBSET [word : User, depth : Nat]
  BY DEF DebugInv, DebugTypeOK, StackOK, StackIn
<1>d. Distinct(debug_xt_list) /\ \A u \in ups : [xt |-> u.word, mode |-> "stepup"] \in Ents(debug_xt_list)
  BY ZenonT(60) DEF UpsOK
<1>s. "oi" \notin User /\ "eval" \notin User /\ "tramp" \notin User
  BY Words
<1>w. \A u \in ups : u.word \in User
  BY <1>0
<1>1. CASE Fetch \/ FetchFast \/ Rechoose
  <2>1. UNCHANGED <<drs, debug_xt_list, ups>>
    BY <1>1, Zenon DEF Fetch, FetchFast, Rechoose
  <2>2. dpc' = <<dpc[1], dpc[2] + 1>> \/ dpc' = dpc
    BY <1>1, Zenon DEF Fetch, FetchFast, Rechoose
  <2>3. dpc'[1] = dpc[1]
    BY <2>2
  <2> QED
    BY <1>d, <2>1, <2>3, SameUps, Zenon
<1>2. CASE KeyForth
  <2> DEFINE f == <<dpc[1], dpc[2] - 1>>
  <2>1. Prompts /\ drs' = Append(drs, f) /\ dpc' = <<"oi", 1>> /\ UNCHANGED <<debug_xt_list, ups>>
    BY <1>2, Zenon DEF KeyForth
  <2>2. dpc[1] \in User /\ dpc[2] \in 1 .. CodeLen(dpc[1]) /\ dpc'[1] = "oi" /\ f[1] = dpc[1]
    BY <2>1, PromptFacts
  <2>3. f \in Frames
    BY <2>2, Words DEF Frames, UserCells
  <2> HIDE DEF f
  <2> QED
    BY <1>d, <1>s, <1>w, <2>1, <2>2, <2>3, EnterUps, Zenon
<1>3. CASE Line
  <2>1. drs' = Append(drs, dpc) /\ dpc = <<"oi", 1>> /\ dpc' = <<"eval", 1>> /\ UNCHANGED <<debug_xt_list, ups>>
    BY <1>3, Zenon DEF Line
  <2>2. dpc \in Frames /\ dpc'[1] = "eval"
    BY <2>1 DEF Frames, Fixed
  <2> QED
    BY <1>d, <1>s, <1>w, <2>1, <2>2, EnterUps, Zenon
<1>4. CASE do_debug_off
  <2>1. debug_xt_list' = <<>> /\ ups' = {}
    BY <1>4, Zenon DEF do_debug_off
  <2>2. Distinct(debug_xt_list')
    BY <2>1 DEF Distinct
  <2> QED
    BY <2>1, <2>2, Zenon DEF UpsOK, UpsIn
<1>5. ASSUME NEW w \in User, do_debug_xt(w) PROVE UpsOK'
  <2>1. debug_xt_list' = add_debug_xt(debug_xt_list, w) /\ UNCHANGED <<dpc, drs, ups>>
    BY <1>5, Zenon DEF do_debug_xt
  <2>2. /\ Distinct(debug_xt_list) => Distinct(debug_xt_list')
        /\ Ents(debug_xt_list) \subseteq Ents(debug_xt_list')
    BY <1>0, <2>1, AddFacts, Zenon
  <2> QED
    BY <1>d, <2>1, <2>2, SameUps, Zenon
<1>6. ASSUME NEW w \in User, RunWord(w) PROVE UpsOK'
  <2> DEFINE f == <<"tramp", 1>>
  <2>1. /\ MayEnter(w) /\ dpc' = <<w, 0>> /\ ups' = ups
        /\ debug_xt_list' = IF Level.loop = "dbg" THEN SetMode(debug_xt_list, w, "step") ELSE debug_xt_list
    BY <1>6, Zenon DEF RunWord
  <2>2. drs' = Append(Append(drs, dpc), f) /\ dpc \in Frames /\ f \in Frames
    BY <1>6, RunKeeps
  <2>3. dpc'[1] = w /\ f[1] = "tramp"
    BY <2>1
  <2> HIDE DEF f
  <2>4. \A u \in ups : u.word # w /\ u.word # f[1]
    BY <1>s, <1>w, <2>1, <2>3, Zenon DEF MayEnter
  <2>5. UpsIn(Append(drs, dpc), f[1], ups)
    BY <1>0, <2>2, <2>4, UpsPush, Zenon DEF UpsOK
  <2>6. Append(drs, dpc) \in Seq(Frames)
    BY <1>0, <2>2
  <2>7. UpsIn(drs', dpc'[1], ups')
    BY <1>0, <2>1, <2>2, <2>3, <2>4, <2>5, <2>6, UpsPush, Zenon
  <2>8. /\ Distinct(debug_xt_list')
        /\ \A u \in ups : [xt |-> u.word, mode |-> "stepup"] \in Ents(debug_xt_list')
    BY <2>1, <2>4, EnteredList, Zenon
  <2> QED
    BY <2>1, <2>7, <2>8, Zenon DEF UpsOK
<1> QED
  BY <1>1, <1>2, <1>3, <1>4, <1>5, <1>6, Zenon

LEMMA UpsStep ==
  ASSUME DebugInv, UpsOK, ~SubInSub, ~LeavesEarly, [DebugNext]_debugVars
  PROVE  UpsOK'
<1>1. CASE UNCHANGED debugVars
  <2>1. UNCHANGED <<dpc, drs, debug_xt_list, ups>>
    BY <1>1, Zenon DEF debugVars
  <2> QED
    BY <2>1, Zenon DEF UpsOK
<1>2. CASE DebugNext
  BY <1>2, KeysUps, ExecuteUps, ResumeUps, TopUps, Zenon DEF DebugNext
<1> QED
  BY <1>1, <1>2

LEMMA UpsInit == DebugInit => UpsOK
<1> SUFFICES ASSUME DebugInit PROVE UpsOK
  OBVIOUS
<1>1. debug_xt_list = <<>> /\ ups = {}
  BY DEF DebugInit
<1>2. Distinct(debug_xt_list)
  BY <1>1 DEF Distinct
<1> QED
  BY <1>1, <1>2, Zenon DEF UpsOK, UpsIn
-----------------------------------------------------------------------------
\* Steps that take nothing off the stack.
LEMMA Grows ==
  ASSUME DebugInv, DebugNext, ~ExecuteToken, ~Resume
  PROVE  Len(drs') >= Len(drs)
<1>1. drs \in Seq(Frames)
  BY DEF DebugInv, StackOK, StackIn
<1>2. \/ drs' = drs
      \/ drs' = Append(drs, <<dpc[1], dpc[2] - 1>>)
      \/ drs' = Append(drs, dpc)
      \/ \E w \in User : RunWord(w)
  BY Zenon DEF DebugNext, Fetch, FetchFast, Pass, Rechoose, KeyStep, KeyTrace, KeyUp, KeyDown, KeyForth, Line,
     do_debug_off, do_debug_xt
<1>3. ASSUME NEW f, drs' = Append(drs, f) PROVE Len(drs') >= Len(drs)
  BY <1>1, <1>3
<1>4. ASSUME NEW w \in User, RunWord(w) PROVE Len(drs') >= Len(drs)
  <2>1. drs' = Append(Append(drs, dpc), <<"tramp", 1>>)
    BY <1>4, RunKeeps
  <2> QED
    BY <1>1, <2>1
<1>5. ASSUME drs' = drs PROVE Len(drs') >= Len(drs)
  BY <1>1, <1>5
<1> QED
  BY <1>2, <1>3, <1>4, <1>5, Zenon

LEMMA UpStep ==
  ASSUME DebugInv, UpsOK, ~LeavesEarly, DebugNext,
         NEW u \in ups, Len(drs) = u.depth, Len(drs') = u.depth - 1
  PROVE  /\ u.word \in Marked(debug_xt_list') => u.word = Newest(drs)[1]
         /\ Newest(drs)[1] \in Marked(debug_xt_list') \cup {"tramp"}
<1>1. /\ u.word \in User /\ u.depth \in Nat /\ u.depth \in 1 .. Len(drs) /\ drs \in Seq(Frames)
      /\ u.word = dpc[1]
      /\ [xt |-> u.word, mode |-> "stepup"] \in Ents(debug_xt_list)
  BY UpFacts
<1>2. ~Resume
  BY ResumeUps
<1>3. ExecuteToken
  BY <1>1, <1>2, Grows
<1>4. walk = 0 /\ ExecuteCell
  BY <1>3, Zenon DEF ExecuteToken
<1>5. debug_xt_list \in Seq(Entries) /\ PcOK /\ LoopOK /\ Distinct(debug_xt_list)
  BY DEF DebugInv, DebugTypeOK, UpsOK
<1>6. Op[1] = "semis" /\ semis_dbg
  <2>1. ~MayEnter(dpc[1])
    BY <1>1, Zenon DEF MayEnter
  <2>2. drs' # drs /\ ~docol_dbg(Op[2])
    <3>1. drs' # drs /\ drs' # Append(drs, dpc)
      BY <1>1
    <3> QED
      BY <3>1, Zenon DEF docol_dbg
  <2> QED
    BY <1>4, <2>1, <2>2, Zenon DEF ExecuteCell
<1>7. dpc[2] = Len(Code(dpc[1]))
  BY <1>1, <1>4, <1>5, <1>6, OpFacts DEF CodeLen
<1>8. PICK i \in DOMAIN debug_xt_list : debug_xt_list[i] = [xt |-> u.word, mode |-> "stepup"]
  BY <1>1, ZenonT(60) DEF Ents
<1>9. debug_xt_list[i].xt = dpc[1] /\ debug_xt_list[i].mode = "stepup" /\ debug_xt_list # <<>>
  BY <1>1, <1>5, <1>8
<1>10. AtEnd
  BY <1>7, <1>9, Zenon DEF AtEnd, Marked
<1>11. ModeOf(dpc[1]) = "stepup"
  <2>1. Position(debug_xt_list, dpc[1]) = i
    BY <1>5, <1>9, ZenonT(60) DEF Position, Distinct
  <2> QED
    BY <1>9, <2>1, Zenon DEF ModeOf
<1>12. Level.loop = "dbg"
  BY <1>1, <1>4, <1>5, <1>9, Words DEF LoopOK
<1>13. /\ debug_xt_list' = GoneUp(debug_xt_list, dpc[1], Newest(drs)[1])
       /\ dpc[1] \in User /\ Newest(drs)[1] \in User \cup {"tramp"}
  BY <1>4, <1>6, <1>10, <1>11, <1>12, SemisFacts
<1> QED
  BY <1>1, <1>5, <1>13, GoneUpFacts, ZenonT(60)

LEMMA ResumeStep ==
  ASSUME DebugInv, ~SubInSub, DebugNext, subs' # subs, Len(subs') < Len(subs)
  PROVE  dpc' = Newest(subs)
<1>1. CASE Resume
  BY <1>1, ResumeKeeps
<1>2. CASE KeyForth
  <2>1. subs = <<>> /\ subs' = Append(subs, <<dpc[1], dpc[2] - 1>>)
    BY <1>2, Zenon DEF KeyForth
  <2> QED
    BY <2>1
<1>3. CASE ~Resume /\ ~KeyForth
  <2>1. subs' = subs
    BY <1>3, Zenon DEF DebugNext, Fetch, FetchFast, Pass, Rechoose, KeyStep, KeyTrace, KeyUp, KeyDown, Line,
       do_debug_off, do_debug_xt, RunWord, ExecuteToken, ExecuteCell, docol_dbg, semis_dbg
  <2> QED
    BY <2>1
<1> QED
  BY <1>1, <1>2, <1>3

\* "u" unmarks the word that is left and marks its caller, whatever is called,
\* marked and debugged until then, and "resume" goes on where the subordinate
\* interpreter was started (semis_dbg, do_source_dbg, cmdline_prompt): as long as a
\* word that is left neither leaves early nor is entered again, and no subordinate
\* interpreter is started below another.
THEOREM AlwaysReturns ==
  ASSUME ~SubInSub, ~LeavesEarly
  PROVE  DebugSpec => DebuggerReturns
<1> DEFINE Inv == DebugInv /\ UpsOK
           Up == \A u \in ups :
                   Len(drs) = u.depth /\ Len(drs') = u.depth - 1 =>
                     /\ u.word \in Marked(debug_xt_list') => u.word = Newest(drs)[1]
                     /\ Newest(drs)[1] \in Marked(debug_xt_list') \cup {"tramp"}
           Back == subs' # subs /\ Len(subs') < Len(subs) => dpc' = Newest(subs)
<1>1. DebugInit => Inv
  BY DebugInvInit, UpsInit
<1>2. Inv /\ [DebugNext]_debugVars => Inv'
  BY DebugInvStep, UpsStep
<1>3. Inv /\ [DebugNext]_debugVars => [Up]_debugVars
  <2> SUFFICES ASSUME Inv, DebugNext PROVE Up
    OBVIOUS
  <2> QED
    BY UpStep, Zenon
<1>4. Inv /\ [DebugNext]_debugVars => [Back]_debugVars
  BY ResumeStep
<1> QED
  BY <1>1, <1>2, <1>3, <1>4, PTL DEF DebugSpec, DebuggerReturns, UpReachesCaller, ResumesWhereLeft
=============================================================================
