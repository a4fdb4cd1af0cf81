---------------------------- MODULE OhciTdProofs -----------------------------
(***************************************************************************)
(* The OHCI driver and the controller lose no transfer descriptor, and     *)
(* free none twice or too early.                                           *)
(***************************************************************************)
EXTENDS OhciProofs, FiniteSetTheorems

\* Seconds that the SMT solver has for a leaf.
USE SMTT(60)

\* The places of a TD on one list, and on the list from head to tail of an ED.
On(name, e, s, td) == {<<<<name, e, s>>, i>> : i \in {i \in DOMAIN s : s[i] = td}}
EdList(e) == Append(ed[e].tds, ed[e].dummy)

\* The list of an ED that is not there.
LEMMA NoEdList ==
  ASSUME NEW e, ed[e] = NoEd
  PROVE  ed[e].tds = <<>> /\ IsInjective(EdList(e)) /\ Range(EdList(e)) = {<<>>}
<1>1. ed[e].tds = <<>> /\ ed[e].dummy = <<>>
  BY DEF NoEd
<1>2. \A x : IsInjective(Append(<<>>, x)) /\ Range(Append(<<>>, x)) = {x}
  <2> TAKE x
  <2>1. <<>> \in Seq({x}) /\ x \in {x} /\ x \notin Range(<<>>) /\ Range(<<>>) \cup {x} = {x}
    BY EmptyList
  <2> QED BY <2>1, AppendRange, EmptyList, ZenonT(60)
<1> QED BY <1>1, <1>2, ZenonT(60) DEF EdList

\* A TD that is not on a list has no place on it.
LEMMA OnEmpty ==
  ASSUME NEW name, NEW e, NEW s, NEW td, td \notin Range(s)
  PROVE  On(name, e, s, td) = {}
BY Zenon DEF On, Range

\* A TD on a list without repetitions has one place on it.
LEMMA OnOnce ==
  ASSUME NEW e, NEW td
  PROVE  \A name, s : IsInjective(s) /\ td \in Range(s) => \E x : On(name, e, s, td) = {x}
<1> SUFFICES ASSUME NEW name, NEW s, IsInjective(s), td \in Range(s)
             PROVE  \E x : On(name, e, s, td) = {x}
  BY Zenon
<1>1. PICK i \in DOMAIN s : s[i] = td
  BY Zenon DEF Range
<1>2. {j \in DOMAIN s : s[j] = td} = {i}
  BY <1>1, Zenon DEF IsInjective
<1>3. On(name, e, s, td) = {<<<<name, e, s>>, j>> : j \in {i}}
  BY <1>2, ZenonT(60) DEF On
<1>4. {<<<<name, e, s>>, j>> : j \in {i}} = {<<<<name, e, s>>, i>>}
  BY Zenon
<1> QED BY <1>3, <1>4, ZenonT(60)

\* The TDs of a transfer are all alike, and have every place of a list.
LEMMA OnAsync ==
  ASSUME NEW name, NEW e, NEW s \in AsyncList
  PROVE  /\ IsFiniteSet(On(name, e, s, AsyncTd))
         /\ Cardinality(On(name, e, s, AsyncTd)) = Size(s)
<1> DEFINE n == Len(s)
           T == On(name, e, s, AsyncTd)
           f == [i \in 1 .. n |-> <<<<name, e, s>>, i>>]
<1>1. n \in Nat /\ {i \in DOMAIN s : s[i] = AsyncTd} = 1 .. n
  BY DEF AsyncList
<1>2. T = {<<<<name, e, s>>, i>> : i \in 1 .. n}
  BY <1>1, Zenon DEF On
<1> HIDE DEF n, T
<1>3. f \in Bijection(1 .. n, T)
  <2>1. f \in [1 .. n -> T]
    BY <1>2, Zenon
  <2>2. \A a, b \in 1 .. n : f[a] = f[b] => a = b
    BY Zenon
  <2>3. \A t \in T : \E i \in 1 .. n : f[i] = t
    BY <1>2, Zenon
  <2> HIDE DEF f
  <2>4. f \in Injection(1 .. n, T)
    BY <2>1, <2>2, Zenon DEF Injection, IsInjective
  <2>5. f \in Surjection(1 .. n, T)
    BY <2>1, <2>3, ZenonT(60) DEF Surjection
  <2> QED BY <2>4, <2>5, ZenonT(60) DEF Bijection
<1>4. ExistsBijection(1 .. n, T)
  BY <1>3, Zenon DEF ExistsBijection
<1>5. IsFiniteSet(1 .. n) /\ Cardinality(1 .. n) = n
  BY <1>1, FS_Interval
<1> QED BY <1>4, <1>5, FS_Bijection, ZenonT(60) DEF T, n, Size

\* The elements of Places.
LEMMA PlacesOn ==
  ASSUME NEW td
  PROVE  \A x : x \in Places(td) <=>
           \/ \E e \in Eds : x \in On("hc", e, hcDone[e], td)
           \/ \E e \in Eds : x \in On("hcca", e, hccaDone[e], td)
           \/ \E e \in Eds : x \in On("ed", e, EdList(e), td)
           \/ \E q \in Queues : x \in On("fetched", q, intrq[q].list, td)
<1> DEFINE Pl(l) == {<<l, i>> : i \in {i \in DOMAIN l[3] : l[3][i] = td}}
<1>1. \A x : x \in Places(td) <=> \E l \in Lists : x \in Pl(l)
  BY Zenon DEF Places
<1>2. \A name, e, s : Pl(<<name, e, s>>) = On(name, e, s, td)
  BY Zenon DEF On
<1> HIDE DEF Pl
<1>3. \A l : l \in Lists <=>
        \/ \E e \in Eds : l = <<"hc", e, hcDone[e]>>
        \/ \E e \in Eds : l = <<"hcca", e, hccaDone[e]>>
        \/ \E e \in Eds : l = <<"ed", e, EdList(e)>>
        \/ \E q \in Queues : l = <<"fetched", q, intrq[q].list>>
  BY Zenon DEF Lists, EdList
<1>4. /\ \A e \in Eds : /\ <<"hc", e, hcDone[e]>> \in Lists /\ <<"hcca", e, hccaDone[e]>> \in Lists
                       /\ <<"ed", e, EdList(e)>> \in Lists
      /\ \A q \in Queues : <<"fetched", q, intrq[q].list>> \in Lists
  BY <1>3, Zenon
<1> TAKE x
<1>5. ASSUME x \in Places(td)
      PROVE  \/ \E e \in Eds : x \in On("hc", e, hcDone[e], td)
             \/ \E e \in Eds : x \in On("hcca", e, hccaDone[e], td)
             \/ \E e \in Eds : x \in On("ed", e, EdList(e), td)
             \/ \E q \in Queues : x \in On("fetched", q, intrq[q].list, td)
  <2>1. PICK l \in Lists : x \in Pl(l)
    BY <1>1, <1>5, Zenon
  <2>2. CASE \E e \in Eds : l = <<"hc", e, hcDone[e]>>
    BY <1>2, <2>1, <2>2, Zenon
  <2>3. CASE \E e \in Eds : l = <<"hcca", e, hccaDone[e]>>
    BY <1>2, <2>1, <2>3, Zenon
  <2>4. CASE \E e \in Eds : l = <<"ed", e, EdList(e)>>
    BY <1>2, <2>1, <2>4, Zenon
  <2>5. CASE \E q \in Queues : l = <<"fetched", q, intrq[q].list>>
    BY <1>2, <2>1, <2>5
  <2> QED BY <1>3, <2>2, <2>3, <2>4, <2>5, ZenonT(60)
<1>6. ASSUME NEW e \in Eds, x \in On("hc", e, hcDone[e], td) PROVE x \in Places(td)
  BY <1>1, <1>2, <1>4, <1>6, ZenonT(60)
<1>7. ASSUME NEW e \in Eds, x \in On("hcca", e, hccaDone[e], td) PROVE x \in Places(td)
  BY <1>1, <1>2, <1>4, <1>7, Zenon
<1>8. ASSUME NEW e \in Eds, x \in On("ed", e, EdList(e), td) PROVE x \in Places(td)
  BY <1>1, <1>2, <1>4, <1>8, Zenon
<1>9. ASSUME NEW q \in Queues, x \in On("fetched", q, intrq[q].list, td) PROVE x \in Places(td)
  BY <1>1, <1>2, <1>4, <1>9, Zenon
<1> QED BY <1>5, <1>6, <1>7, <1>8, <1>9

\* A TD that only the lists of one endpoint can have.
LEMMA PlacesOfOne ==
  ASSUME NEW td, NEW e \in Eds,
         \A f \in Eds : f # e => /\ td \notin Range(hcDone[f]) /\ td \notin Range(hccaDone[f])
                                 /\ td \notin Range(EdList(f)),
         \A q \in Queues : q # e => td \notin Range(intrq[q].list)
  PROVE  Places(td) = On("hc", e, hcDone[e], td) \cup On("hcca", e, hccaDone[e], td)
                      \cup On("ed", e, EdList(e), td)
                      \cup (IF e \in Queues THEN On("fetched", e, intrq[e].list, td) ELSE {})
<1>1. \A f \in Eds : f # e => /\ On("hc", f, hcDone[f], td) = {}
                              /\ On("hcca", f, hccaDone[f], td) = {}
                              /\ On("ed", f, EdList(f), td) = {}
  BY OnEmpty, Zenon
<1>2. \A q \in Queues : q # e => On("fetched", q, intrq[q].list, td) = {}
  BY OnEmpty, Zenon
<1>3. ASSUME NEW x
      PROVE  x \in Places(td) <=>
               \/ x \in On("hc", e, hcDone[e], td)
               \/ x \in On("hcca", e, hccaDone[e], td)
               \/ x \in On("ed", e, EdList(e), td)
               \/ e \in Queues /\ x \in On("fetched", e, intrq[e].list, td)
  BY <1>1, <1>2, PlacesOn, ZenonT(60)
<1> QED BY <1>3, Zenon

\* Every list has only TDs of its own endpoint, or ends in no dummy.
LEMMA OwnTds ==
  ASSUME OhciTypeOK, OhciControl, OhciPlaced, OhciAsync
  PROVE  /\ \A e \in Eds : /\ Range(hcDone[e]) \subseteq TdsOf(e)
                            /\ Range(hccaDone[e]) \subseteq TdsOf(e)
                            /\ Range(EdList(e)) \subseteq TdsOf(e) \cup {<<>>}
         /\ \A q \in Queues : Range(intrq[q].list) \subseteq TdsOf(q)
<1> USE Names
<1>1. \A s \in AsyncList : Range(s) \subseteq {AsyncTd}
  BY DEF AsyncList, Range
<1>2. TdsOf(Async) = {AsyncTd}
  BY Zenon DEF TdsOf
<1>3. \A S : \A s \in Seq(S) : \A x : Range(Append(s, x)) \subseteq Range(s) \cup {x}
  <2> SUFFICES ASSUME NEW S, NEW s \in Seq(S), NEW x, NEW y \in Range(Append(s, x))
               PROVE  y \in Range(s) \/ y = x
    BY Zenon
  <2>1. PICK i \in DOMAIN Append(s, x) : y = Append(s, x)[i]
    BY Zenon DEF Range
  <2>2. i \in 1 .. Len(s) + 1 /\ DOMAIN s = 1 .. Len(s)
    BY <2>1
  <2>3. (i \in 1 .. Len(s) /\ y = s[i]) \/ y = x
    BY <2>1, <2>2
  <2> QED BY <2>2, <2>3, Zenon DEF Range
<1>4. \A e \in Eds : ed[e].tds \in Seq(AllTds)
  BY Zenon DEF OhciTypeOK, EdType
<1>5. \A e \in Eds : Range(EdList(e)) \subseteq Range(ed[e].tds) \cup {ed[e].dummy}
  BY <1>3, <1>4, Zenon DEF EdList
<1>6. /\ Range(hcDone[Async]) \subseteq TdsOf(Async) /\ Range(hccaDone[Async]) \subseteq TdsOf(Async)
      /\ Range(ed[Async].tds) \subseteq TdsOf(Async)
  BY <1>1, <1>2, ZenonT(60) DEF OhciAsync
<1>7. ed[Async].dummy \in TdsOf(Async) \cup {<<>>}
  BY <1>2 DEF OhciControl, NoEd
<1>8. ASSUME NEW q \in Queues
      PROVE  /\ Range(hcDone[q]) \subseteq TdsOf(q) /\ Range(hccaDone[q]) \subseteq TdsOf(q)
             /\ Range(ed[q].tds) \subseteq TdsOf(q) /\ Range(intrq[q].list) \subseteq TdsOf(q)
             /\ ed[q].dummy \in TdsOf(q) \cup {<<>>}
  <2>1. PlacedOf(q)
    BY Zenon DEF OhciPlaced
  <2>2. /\ Range(hcDone[q]) \subseteq TdsOf(q) /\ Range(hccaDone[q]) \subseteq TdsOf(q)
        /\ Range(ed[q].tds) \subseteq TdsOf(q) /\ Range(intrq[q].list) \subseteq TdsOf(q)
        /\ Dummy(q) \subseteq TdsOf(q)
    BY <2>1, Zenon DEF PlacedOf, Split
  <2>3. ed[q].dummy \in TdsOf(q) \cup {<<>>}
    <3>1. CASE intrq[q].state = "live"
      <4>1. Dummy(q) = {ed[q].dummy}
        BY <3>1, Zenon DEF Dummy
      <4> QED BY <2>2, <4>1, Zenon
    <3>2. CASE intrq[q].state # "live"
      <4>1. ed[q] = NoEd
        BY <2>1, <3>2, Zenon DEF PlacedOf
      <4>2. NoEd.dummy = <<>>
        BY Zenon DEF NoEd
      <4> QED BY <4>1, <4>2, Zenon
    <3> QED BY <3>1, <3>2, Zenon
  <2> QED BY <2>2, <2>3, Zenon
<1>9. \A e \in Eds : e = Async \/ e \in Queues
  BY Zenon DEF Eds
<1> QED BY <1>5, <1>6, <1>7, <1>8, <1>9

\* TDs of different endpoints are different, and no TD is the absent dummy.
LEMMA TdsOfEds ==
  /\ \A e, f \in Eds : \A x \in TdsOf(e) : x \in TdsOf(f) => e = f
  /\ \A e \in Eds : <<>> \notin TdsOf(e)
<1>1. \A q \in Queues : TdsOf(q) = {q} \X (0 .. ReqCount[q])
  BY TdsApart, Zenon
<1>2. TdsOf(Async) = {<<Async, 0>>}
  BY Zenon DEF TdsOf, AsyncTd
<1>3. \A e \in Eds : \A x \in TdsOf(e) : x[1] = e /\ x # <<>>
  BY <1>1, <1>2 DEF Eds
<1> QED BY <1>3, Zenon

\* Every allocated TD is on exactly one list, and a free one on none, in the
\* build in which __le32_to_cpu leaves a pointer as it is.
THEOREM OhciEachTdOnOneList ==
  ASSUME ~Swapped
  PROVE  OhciSpec => []EachTdOnOneList
<1>1. OhciTypeOK /\ OhciControl /\ OhciPlaced /\ OhciAsync => EachTdOnOneList
  <2> SUFFICES ASSUME OhciTypeOK, OhciControl, OhciPlaced, OhciAsync PROVE EachTdOnOneList
    BY Zenon
  <2> USE Names
  <2>1. ASSUME NEW e \in Eds, NEW td \in TdsOf(e)
        PROVE  Places(td) = On("hc", e, hcDone[e], td) \cup On("hcca", e, hccaDone[e], td)
                            \cup On("ed", e, EdList(e), td)
                            \cup (IF e \in Queues THEN On("fetched", e, intrq[e].list, td) ELSE {})
    <3>1. \A f \in Eds : f # e => td \notin TdsOf(f) \cup {<<>>}
      BY TdsOfEds, Zenon
    <3>2. \A f \in Eds : f # e => /\ td \notin Range(hcDone[f]) /\ td \notin Range(hccaDone[f])
                                  /\ td \notin Range(EdList(f))
      BY <3>1, OwnTds, Zenon
    <3>3. \A q \in Queues : q # e => td \notin Range(intrq[q].list)
      BY <3>1, OwnTds, Zenon
    <3> QED BY <3>2, <3>3, PlacesOfOne, Zenon
  <2>2. ASSUME NEW q \in Queues, NEW td \in TdsOf(q)
        PROVE  Cardinality(Places(td)) = IF td \in used THEN 1 ELSE 0
    <3> DEFINE A == Range(ed[q].tds)
               B == Range(intrq[q].list)
               C == Range(hcDone[q])
               D == Range(hccaDone[q])
               E == Dummy(q)
               F == Range(EdList(q))
               W == On("hc", q, hcDone[q], td)
               X == On("hcca", q, hccaDone[q], td)
               Y == On("ed", q, EdList(q), td)
               Z == On("fetched", q, intrq[q].list, td)
    <3>1. /\ IsInjective(ed[q].tds) /\ IsInjective(intrq[q].list)
          /\ IsInjective(hcDone[q]) /\ IsInjective(hccaDone[q])
          /\ Split(A, B, C, D, E, used \cap TdsOf(q))
          /\ intrq[q].state # "live" => ed[q] = NoEd
      BY Zenon DEF OhciPlaced, PlacedOf
    <3>2. Places(td) = W \cup X \cup Y \cup Z
      BY <2>1, Zenon
    <3>3. IsInjective(EdList(q)) /\ (td \in F <=> td \in A \/ td \in E)
      <4>1. CASE intrq[q].state = "live"
        <5>1. ed[q].tds \in Seq(AllTds) /\ ed[q].dummy \in AllTds
          BY <4>1, Zenon DEF OhciTypeOK, EdType
        <5>2. E = {ed[q].dummy}
          BY <4>1, Zenon DEF Dummy
        <5>3. ed[q].dummy \notin A
          BY <3>1, <5>2, Zenon DEF Split
        <5>4. IsInjective(EdList(q)) /\ F = A \cup {ed[q].dummy}
          <6>1. \A s \in Seq(AllTds), x \in AllTds : x \notin Range(s) /\ IsInjective(s) =>
                  IsInjective(Append(s, x)) /\ Range(Append(s, x)) = Range(s) \cup {x}
            BY AppendedTd, Zenon
          <6> QED BY <3>1, <5>1, <5>3, <6>1, ZenonT(60) DEF EdList
        <5> QED BY <5>2, <5>4, Zenon
      <4>2. CASE intrq[q].state # "live"
        <5>1. ed[q].tds = <<>> /\ IsInjective(EdList(q)) /\ F = {<<>>} /\ E = {}
          BY <3>1, <4>2, NoEdList, Zenon DEF Dummy
        <5>2. td # <<>>
          BY TdsOfEds, Zenon
        <5> QED BY <5>1, <5>2, EmptyList, Zenon
      <4> QED BY <4>1, <4>2, Zenon
    <3>4. /\ td \in C => \E x : W = {x}
          /\ td \in D => \E x : X = {x}
          /\ td \in F => \E x : Y = {x}
          /\ td \in B => \E x : Z = {x}
      <4>1. \A name, s : IsInjective(s) /\ td \in Range(s) => \E x : On(name, q, s, td) = {x}
        BY OnOnce, Zenon
      <4> QED BY <3>1, <3>3, <4>1, Zenon
    <3>5. /\ td \notin C => W = {}
          /\ td \notin D => X = {}
          /\ td \notin F => Y = {}
          /\ td \notin B => Z = {}
      BY OnEmpty, Zenon
    <3> HIDE DEF A, B, C, D, E, F, W, X, Y, Z
    <3>6. CASE td \notin used
      <4>1. td \notin B /\ td \notin C /\ td \notin D /\ td \notin F
        BY <3>1, <3>3, <3>6, Zenon DEF Split
      <4>2. Places(td) = {}
        BY <3>2, <3>5, <4>1, ZenonT(60)
      <4> QED BY <3>6, <4>2, FS_EmptySet, ZenonT(60)
    <3>7. CASE td \in used
      <4>1. td \in used \cap TdsOf(q)
        BY <3>7, Zenon
      <4>2. \/ td \in C /\ td \notin D /\ td \notin F /\ td \notin B
            \/ td \notin C /\ td \in D /\ td \notin F /\ td \notin B
            \/ td \notin C /\ td \notin D /\ td \in F /\ td \notin B
            \/ td \notin C /\ td \notin D /\ td \notin F /\ td \in B
        BY <3>1, <3>3, <4>1, Zenon DEF Split
      <4>3. \E x : Places(td) = {x}
        BY <3>2, <3>4, <3>5, <4>2, ZenonT(60)
      <4> QED BY <3>7, <4>3, FS_Singleton, Zenon
    <3> QED BY <3>6, <3>7, Zenon
  <2>3. Cardinality(Places(AsyncTd)) = asyncUsed
    <3> DEFINE W == On("hc", Async, hcDone[Async], AsyncTd)
               X == On("hcca", Async, hccaDone[Async], AsyncTd)
               Y == On("ed", Async, EdList(Async), AsyncTd)
    <3>1. Places(AsyncTd) = W \cup X \cup Y
      <4>1. AsyncTd \in TdsOf(Async)
        BY Zenon DEF TdsOf
      <4> QED BY <2>1, <4>1, ZenonT(60)
    <3>2. /\ IsFiniteSet(W) /\ Cardinality(W) = Size(hcDone[Async])
          /\ IsFiniteSet(X) /\ Cardinality(X) = Size(hccaDone[Async])
      BY OnAsync, Zenon DEF OhciAsync
    <3>3. /\ IsFiniteSet(Y)
          /\ Cardinality(Y) = Size(ed[Async].tds) + (IF Transfer THEN 1 ELSE 0)
      <4>1. CASE Transfer
        <5>1. ed[Async].tds \in AsyncList /\ ed[Async].dummy = AsyncTd
          BY <4>1, Zenon DEF OhciAsync, OhciControl
        <5>2. EdList(Async) \in AsyncList /\ Size(EdList(Async)) = Size(ed[Async].tds) + 1
          BY <5>1 DEF EdList, AsyncList, Size
        <5> QED BY <4>1, <5>2, OnAsync, Zenon
      <4>2. CASE ~Transfer
        <5>1. ed[Async].tds = <<>> /\ Range(EdList(Async)) = {<<>>}
          BY <4>2, NoEdList, Zenon DEF OhciControl
        <5>2. AsyncTd # <<>>
          BY Zenon DEF AsyncTd
        <5>3. Y = {}
          BY <5>1, <5>2, OnEmpty, ZenonT(60)
        <5>4. IsFiniteSet(Y) /\ Cardinality(Y) = 0
          BY <5>3, FS_EmptySet, ZenonT(60)
        <5>5. Size(ed[Async].tds) = 0
          BY <5>1, AsyncSizes, ZenonT(60)
        <5> QED BY <4>2, <5>4, <5>5
      <4> QED BY <4>1, <4>2, Zenon
    <3>4. W \cap X = {} /\ (W \cup X) \cap Y = {}
      BY DEF On
    <3>5. /\ Size(hcDone[Async]) \in Nat /\ Size(hccaDone[Async]) \in Nat
          /\ Size(ed[Async].tds) \in Nat
      BY AsyncSizes, Zenon DEF OhciAsync
    <3> HIDE DEF W, X, Y
    <3>6. IsFiniteSet(W \cup X) /\ Cardinality(W \cup X) = Cardinality(W) + Cardinality(X)
      <4>1. /\ IsFiniteSet(W \cup X)
            /\ Cardinality(W \cup X) = Cardinality(W) + Cardinality(X) - Cardinality(W \cap X)
        BY <3>2, FS_Union, Zenon
      <4>2. Cardinality(W \cap X) = 0
        BY <3>4, FS_EmptySet, Zenon
      <4> QED BY <3>2, <3>5, <4>1, <4>2
    <3>7. Cardinality(W \cup X \cup Y) = Cardinality(W \cup X) + Cardinality(Y)
      <4>1. Cardinality(W \cup X \cup Y)
              = Cardinality(W \cup X) + Cardinality(Y) - Cardinality((W \cup X) \cap Y)
        BY <3>3, <3>6, FS_Union, Zenon
      <4>2. Cardinality((W \cup X) \cap Y) = 0
        BY <3>4, FS_EmptySet, Zenon
      <4>3. Cardinality(W \cup X) \in Nat /\ Cardinality(Y) \in Nat
        BY <3>3, <3>6, FS_CardinalityType, Zenon
      <4> QED BY <4>1, <4>2, <4>3
    <3> QED BY <3>1, <3>2, <3>3, <3>5, <3>6, <3>7 DEF OhciAsync
  <2>4. \A td \in Tds : \E q \in Queues : td \in TdsOf(q)
    BY TdsApart, Zenon DEF Tds
  <2> QED BY <2>2, <2>3, <2>4, Zenon DEF EachTdOnOneList
<1> QED BY <1>1, OhciTypeInvariant, OhciControlInvariant, OhciPlacedInvariant, OhciAsyncInvariant, PTL
=============================================================================
