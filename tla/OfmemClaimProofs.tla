-------------------------- MODULE OfmemClaimProofs ---------------------------
(***************************************************************************)
(* What clients of the memory services may rely on, for every address      *)
(* width, page size, RAM and set of requests, as long as the requests are  *)
(* for areas that begin at a page, are not empty, fit into memory and keep *)
(* clear of the last page of the address space.                            *)
(***************************************************************************)
EXTENDS Ofmem, WellFoundedInduction, TLAPS

\* Seconds that the SMT solver has for a leaf.
USE SMTT(60)

Aligned(x) == x % PageSize = 0
Clear(start, size) == 0 < size /\ start + size <= AddrMod - PageSize

CleanRequests ==
  /\ PageSize > 1 /\ Aligned(RamSize)
  /\ RamSize <= AddrMod - PageSize /\ VirtTop <= AddrMod - PageSize
  /\ Aligned(InitVirt) /\ Clear(InitVirt, InitSize)
  /\ \A addr \in FixedAddrs : Aligned(addr) /\ \A size \in FixedSizes : Clear(addr, size)
  /\ \A addr \in AlignedAddrs : Aligned(addr)
  /\ \A size \in AlignedSizes : 0 < size /\ size <= RamSize
  /\ \A size \in MethodSizes : 0 < size /\ size <= RamSize /\ size <= VirtTop

-----------------------------------------------------------------------------
\* A claimed area, and what a failed search leaves in the list of virtual memory.
Good(r) ==
  /\ r.start \in Nat /\ r.size \in Nat /\ r = Entry(r.start, r.size)
  /\ Clear(r.start, r.size)
Stray(r) == r.size \in Cell /\ r = Entry(NONE, r.size)

Apart(q, r) == q.start + q.size <= r.start \/ r.start + r.size <= q.start

ListOK(rs) ==
  /\ \A r \in rs : Good(r) \/ Stray(r)
  /\ \A q, r \in rs : Good(q) /\ Good(r) /\ q # r => Apart(q, r)

\* Physical memory: all of it below the end of RAM, so that none is missed when
\* the free memory is published.
PhysOK(rs) == ListOK(rs) /\ \A r \in rs : Good(r) /\ Aligned(r.start) /\ r.start < RamSize

\* Clients hold different entries of the lists.
ClientsOK ==
  /\ held \subseteq phys_range \cap virt_range
  /\ pheld \subseteq phys_range /\ vheld \subseteq virt_range
  /\ held \cap pheld = {} /\ held \cap vheld = {}
  /\ \A c \in held \cup pheld \cup vheld : Good(c) /\ Aligned(c.start)
  /\ mapped \subseteq pheld \X vheld
  /\ \A m \in mapped : m[1].size = m[2].size
  /\ \A m, n \in mapped : m # n => m[1] # n[1] /\ m[2] # n[2]

\* Translations, in pages.
First(r) == r.start \div PageSize
Count(size) == RoundUp(size) \div PageSize
Maps(p, v) == Trans!T(First(v), Count(v.size), First(p), "mode")

Separate(t, u) == t.virt + t.size <= u.virt \/ u.virt + u.size <= t.virt
Within(s, t) == t.virt <= s.virt /\ s.virt + s.size <= t.virt + t.size

Orderly(ts) ==
  /\ \A t \in ts : /\ t.virt \in Nat /\ t.size \in Nat /\ t.phys \in Nat
                   /\ t = Trans!T(t.virt, t.size, t.phys, "mode")
                   /\ 0 < t.size /\ t.virt + t.size < NPages
  /\ \A t, u \in ts : t # u => Separate(t, u)

\* Each use has one entry, and what is left of the area that ofmem_init mapped
\* has the others.
InitTrans == Trans!T(InitVirt \div PageSize, Count(InitSize), InitPhys \div PageSize, "mode")
Wanted(cs, ms) == {Maps(c, c) : c \in cs} \cup {Maps(m[1], m[2]) : m \in ms}
TransFor(ts, wanted) ==
  /\ Orderly(ts) /\ wanted \subseteq ts
  /\ \A t \in ts \ wanted : Within(t, InitTrans)
TransOK == TransFor(trans, Wanted(held, mapped))

\* The inductive invariant.
ClaimInv ==
  /\ registered \in BOOLEAN
  /\ PhysOK(phys_range) /\ ListOK(virt_range) /\ ClientsOK /\ TransOK
  /\ AvailableNotClaimed
-----------------------------------------------------------------------------
\* Pages and cells.
LEMMA Division ==
  ASSUME NEW p \in Nat \ {0}
  PROVE  /\ \A x \in Nat : /\ x \div p \in Nat /\ x % p \in 0 .. p - 1
                           /\ x = p * (x \div p) + (x % p)
         /\ \A k, r \in Nat : r < p => (p * k + r) \div p = k /\ (p * k + r) % p = r
         /\ \A i, j \in Int : p * i < p * j + p => i <= j
         /\ \A i, j \in Int : i <= j => p * i <= p * j
<1>1. \A x \in Nat : /\ x \div p \in Nat /\ x % p \in 0 .. p - 1
                     /\ x = p * (x \div p) + (x % p)
  OBVIOUS
<1>2. \A k, r \in Nat : r < p => (p * k + r) \div p = k
  OBVIOUS
<1>3. \A k, r \in Nat : r < p => (p * k + r) % p = r
  OBVIOUS
<1>4. \A i, j \in Int : p * i < p * j + p => i <= j
  OBVIOUS
<1>5. \A i, j \in Int : i <= j => p * i <= p * j
  OBVIOUS
<1> QED BY <1>1, <1>2, <1>3, <1>4, <1>5, Zenon

\* The page size, as the provers see it.
LEMMA Sizes ==
  ASSUME CleanRequests
  PROVE  /\ PageSize \in Nat \ {0, 1} /\ AddrMod \in Nat \ {0} /\ NPages \in Nat
         /\ AddrMod = PageSize * NPages
<1>1. PageSize \in Nat \ {0} /\ AddrMod \in Nat \ {0} /\ PageSize > 1
  BY RangeOpsAssumption, Zenon DEF CleanRequests
<1>2. PageSize \in Nat \ {0, 1}
  BY <1>1
<1>3. NPages \in Nat /\ AddrMod = PageSize * NPages + (AddrMod % PageSize)
  BY <1>1, Division, Zenon DEF NPages
<1>4. AddrMod % PageSize = 0
  BY OfmemAssumption, Zenon
<1>5. AddrMod = PageSize * NPages
  <2>1. \A a, b \in Nat : a = b + 0 => a = b
    OBVIOUS
  <2>2. PageSize * NPages \in Nat
    BY <1>1, <1>3
  <2> QED BY <1>1, <1>3, <1>4, <2>1, <2>2, Zenon
<1> QED BY <1>1, <1>2, <1>3, <1>5, Zenon

\* The pages of an area that begins at a page and is clear of the last page.
LEMMA PagesOf ==
  ASSUME CleanRequests, NEW a \in Nat, NEW n \in Nat, Aligned(a), Clear(a, n)
  PROVE  /\ a \div PageSize \in Nat /\ a = PageSize * (a \div PageSize)
         /\ Count(n) \in Nat \ {0}
         /\ PageSize * Count(n) < n + PageSize /\ n <= PageSize * Count(n)
         /\ a \div PageSize + Count(n) < NPages
<1> DEFINE P == PageSize
           k == a \div PageSize
           m == n + (P - 1)
<1>0. /\ P \in Nat \ {0, 1} /\ AddrMod \in Nat /\ NPages \in Nat /\ AddrMod = P * NPages
  BY Sizes, Zenon
<1>1. k \in Nat /\ a = P * k + 0
  BY <1>0, Division, Zenon DEF Aligned
<1>2. m \in Nat /\ m < AddrMod /\ Wrap(m) = m
  BY <1>0 DEF Clear, Wrap
<1>3. /\ m \div P \in Nat /\ m % P \in 0 .. P - 1 /\ m = P * (m \div P) + (m % P)
  BY <1>0, <1>2, Division, Zenon
<1> DEFINE c == m \div P
<1>4. RoundUp(n) = P * c + 0
  BY <1>2, <1>3, <1>0 DEF RoundUp, AlignDown
<1>5. Count(n) = c
  <2>1. 0 \in Nat /\ 0 < P
    BY <1>0
  <2>2. (P * c + 0) \div P = c
    BY <1>0, <1>3, <2>1, Division, Zenon
  <2> QED BY <1>4, <2>2, Zenon DEF Count
<1>6. P * c < n + P /\ n <= P * c
  BY <1>0, <1>3
<1> HIDE DEF k, c, m, P
<1>7. c # 0
  BY <1>6, <1>0 DEF Clear
<1>8. P * (k + c) = P * k + P * c
  BY <1>0, <1>1, <1>3 DEF c
<1>9. P * (k + c) < P * (NPages - 1) + P
  <2>1. P * (NPages - 1) = P * NPages - P
    BY <1>0
  <2>2. a + n <= AddrMod - P
    BY Zenon DEF Clear, P
  <2>3. c \in Nat /\ P * c \in Nat /\ P * k \in Nat
    BY <1>0, <1>1, <1>3 DEF c
  <2> QED BY <1>0, <1>1, <1>6, <1>8, <2>1, <2>2, <2>3
<1>10. k + c <= NPages - 1
  <2>1. k + c \in Int /\ NPages - 1 \in Int
    BY <1>0, <1>1, <1>3 DEF c
  <2> QED BY <1>0, <1>9, <2>1, Division, Zenon
<1> QED BY <1>0, <1>1, <1>3, <1>5, <1>6, <1>7, <1>10 DEF k, c, P

\* The pages of two areas that are apart, those of a cell of an area, and the
\* first cell of a page of an area.
LEMMA PagesApart ==
  ASSUME CleanRequests, NEW q, NEW r, Good(q), Good(r), Aligned(q.start), Aligned(r.start),
         q.start + q.size <= r.start
  PROVE  First(q) + Count(q.size) <= First(r)
<1> DEFINE P == PageSize
           k == First(q)
           j == First(r)
           n == Count(q.size)
<1>0. P \in Nat \ {0, 1}
  BY Sizes, Zenon
<1>1. /\ k \in Nat /\ q.start = P * k /\ n \in Nat /\ P * n < q.size + P
      /\ j \in Nat /\ r.start = P * j
  BY PagesOf, Zenon DEF Good, First
<1>2. q.start \in Nat /\ r.start \in Nat /\ q.size \in Nat
  BY Zenon DEF Good
<1> HIDE DEF P, k, j, n
<1>3. P * (k + n) = P * k + P * n
  BY <1>0, <1>1
<1>4. P * (k + n) < P * j + P
  BY <1>0, <1>1, <1>2, <1>3
<1>5. k + n <= j
  BY <1>0, <1>1, <1>4, Division, k + n \in Int, j \in Int, Zenon
<1> QED BY <1>5, Zenon DEF k, j, n

LEMMA PageOfCell ==
  ASSUME CleanRequests, NEW r, Good(r), Aligned(r.start), NEW x \in Nat,
         r.start <= x, x < r.start + r.size
  PROVE  /\ x \div PageSize \in Nat /\ x % PageSize \in Nat
         /\ First(r) <= x \div PageSize /\ x \div PageSize < First(r) + Count(r.size)
         /\ PageSize * (x \div PageSize - First(r)) + (x % PageSize) = x - r.start
<1> DEFINE P == PageSize
           k == First(r)
           n == Count(r.size)
           j == x \div P
           d == x % P
<1>0. P \in Nat \ {0, 1}
  BY Sizes, Zenon
<1>1. /\ k \in Nat /\ r.start = P * k /\ n \in Nat /\ r.size <= P * n
  BY PagesOf, Zenon DEF Good, First
<1>2. j \in Nat /\ d \in 0 .. P - 1 /\ x = P * j + d
  BY <1>0, Division, Zenon
<1>3. r.start \in Nat /\ r.size \in Nat
  BY Zenon DEF Good
<1> HIDE DEF P, k, n, j, d
<1>4. P * k < P * j + P
  BY <1>0, <1>1, <1>2, <1>3
<1>5. k <= j
  BY <1>0, <1>1, <1>2, <1>4, Division, k \in Int, j \in Int, Zenon
<1>6. P * (j + 1) = P * j + P /\ P * (k + n) = P * k + P * n
  BY <1>0, <1>1, <1>2
<1>7. P * (j + 1) < P * (k + n) + P
  BY <1>0, <1>1, <1>2, <1>3, <1>6
<1>8. j + 1 <= k + n
  <2>1. j + 1 \in Int /\ k + n \in Int
    BY <1>1, <1>2
  <2> QED BY <1>0, <1>7, <2>1, Division, Zenon
<1>9. P * (j - k) = P * j - P * k
  BY <1>0, <1>1, <1>2
<1>10. P * (j - k) + d = x - r.start
  BY <1>0, <1>1, <1>2, <1>3, <1>9
<1>11. d \in Nat /\ j < k + n
  BY <1>0, <1>1, <1>2, <1>8
<1> QED BY <1>2, <1>5, <1>10, <1>11, Zenon DEF P, k, n, j, d

LEMMA CellOfPage ==
  ASSUME CleanRequests, NEW r, Good(r), Aligned(r.start), NEW j \in Nat,
         First(r) <= j, j < First(r) + Count(r.size)
  PROVE  /\ PageSize * j \in Nat /\ (PageSize * j) \div PageSize = j
         /\ r.start <= PageSize * j /\ PageSize * j < r.start + r.size
<1> DEFINE P == PageSize
           k == First(r)
           n == Count(r.size)
<1>0. P \in Nat \ {0, 1}
  BY Sizes, Zenon
<1>1. /\ k \in Nat /\ r.start = P * k /\ n \in Nat /\ P * n < r.size + P
  BY PagesOf, Zenon DEF Good, First
<1>2. r.start \in Nat /\ r.size \in Nat
  BY Zenon DEF Good
<1> HIDE DEF P, k, n
<1>3. P * k <= P * j
  BY <1>0, <1>1, Division, k \in Int, j \in Int, k <= j, Zenon DEF k
<1>4. P * (j + 1) <= P * (k + n)
  <2>1. j + 1 \in Int /\ k + n \in Int /\ j + 1 <= k + n
    BY <1>1 DEF k, n
  <2> QED BY <1>0, <2>1, Division, Zenon
<1>5. P * (j + 1) = P * j + P /\ P * (k + n) = P * k + P * n /\ P * j \in Nat
  BY <1>0, <1>1
<1>6. P * j < r.start + r.size
  BY <1>0, <1>1, <1>2, <1>4, <1>5
<1>7. (P * j + 0) \div P = j
  BY <1>0, Division, 0 \in Nat, 0 < P, Zenon
<1>8. (P * j) \div P = j
  BY <1>5, <1>7, P * j + 0 = P * j, Zenon
<1> QED BY <1>1, <1>3, <1>5, <1>6, <1>8, Zenon DEF P

-----------------------------------------------------------------------------
\* The lists of claimed ranges.
LEMMA StrayStart ==
  ASSUME NEW r, Stray(r)
  PROVE  r.start = NONE
<1>1. Entry(NONE, r.size).start = NONE
  BY Zenon DEF Entry
<1>2. r = Entry(NONE, r.size)
  BY Zenon DEF Stray
<1> QED BY <1>1, <1>2, Zenon

\* An area is free if it is apart from all others;
\* what a failed search left does not matter.
LEMMA IsFreeApart ==
  ASSUME CleanRequests, NEW rs, ListOK(rs), NEW ea \in Nat, NEW size \in Nat, Clear(ea, size)
  PROVE  is_free(ea, size, rs) <=> \A r \in rs : Good(r) => Apart(r, Entry(ea, size))
<1>0. PageSize \in Nat \ {0, 1} /\ AddrMod \in Nat
  BY Sizes, Zenon
<1>1. Last(ea, size) = ea + size - 1 /\ ea + size - 1 < NONE /\ ea < NONE /\ size # 0
  BY <1>0 DEF Last, Wrap, Clear, NONE
<1>2. ASSUME NEW r \in rs
      PROVE  (/\ ~(Last(r.start, r.size) >= ea /\ r.start <= ea)
              /\ ~(r.start >= ea /\ r.start <= Last(ea, size)))
             <=> (Good(r) => Apart(r, Entry(ea, size)))
  <2>1. CASE Good(r)
    <3>1. Last(r.start, r.size) = r.start + r.size - 1 /\ r.start \in Nat /\ r.size \in Nat
          /\ 0 < r.size
      BY <2>1, <1>0 DEF Last, Wrap, Good, Clear
    <3>2. Entry(ea, size).start = ea /\ Entry(ea, size).size = size
      BY Zenon DEF Entry
    <3> QED BY <1>1, <2>1, <3>1, <3>2 DEF Apart, Clear
  <2>2. CASE ~Good(r)
    <3>1. r.start = NONE
      BY <2>2, StrayStart, Zenon DEF ListOK
    <3>2. NONE \in Nat
      BY <1>0, <1>1 DEF NONE
    <3> QED BY <1>1, <2>2, <3>1, <3>2
  <2> QED BY <2>1, <2>2, Zenon
<1> QED BY <1>1, <1>2, Zenon DEF is_free

\* A claim of a free area.
LEMMA AddGood ==
  ASSUME CleanRequests, NEW rs, ListOK(rs), NEW ea \in Nat, NEW size \in Nat, Clear(ea, size),
         is_free(ea, size, rs)
  PROVE  /\ add_entry(ea, size, rs) = rs \cup {Entry(ea, size)}
         /\ Good(Entry(ea, size)) /\ Entry(ea, size) \notin rs
         /\ ListOK(add_entry(ea, size, rs))
<1> DEFINE e == Entry(ea, size)
<1>1. add_entry(ea, size, rs) = rs \cup {e}
  BY Zenon DEF add_entry, Entry
<1>2. Good(e) /\ e.start = ea /\ e.size = size
  BY Zenon DEF Good, Entry
<1>3. \A r \in rs : Good(r) => Apart(r, e) /\ Apart(e, r)
  BY IsFreeApart, Zenon DEF Apart
<1>4. ~Apart(e, e)
  BY <1>2 DEF Apart, Clear
<1>5. e \notin rs
  BY <1>2, <1>3, <1>4, Zenon
<1>6. ListOK(rs \cup {e})
  <2> HIDE DEF e
  <2> QED BY <1>2, <1>3, Zenon DEF ListOK
<1> QED BY <1>1, <1>2, <1>5, <1>6, Zenon

\* The claim at address -1 of ofmem_claim, after a failed search.
LEMMA AddStray ==
  ASSUME CleanRequests, NEW rs, ListOK(rs), NEW size \in Cell
  PROVE  ListOK(add_entry(NONE, size, rs)) /\ rs \subseteq add_entry(NONE, size, rs)
<1> DEFINE e == Entry(NONE, size)
<1>0. PageSize \in Nat \ {0, 1} /\ AddrMod \in Nat \ {0}
  BY Sizes, Zenon
<1>1. Stray(e) /\ e.start = NONE /\ e.size = size
  BY Zenon DEF Stray, Entry
<1>2. ~Good(e)
  BY <1>0, <1>1 DEF Good, Clear, NONE, Cell
<1>3. add_entry(NONE, size, rs) \in {rs, rs \cup {e}}
  BY Zenon DEF add_entry, Entry
<1>4. ListOK(rs \cup {e})
  <2> HIDE DEF e
  <2> QED BY <1>1, <1>2, Zenon DEF ListOK
<1> QED BY <1>3, <1>4, Zenon

\* The release of a claim removes its entry and nothing else.
LEMMA RemoveGood ==
  ASSUME CleanRequests, NEW rs, ListOK(rs), NEW c \in rs, Good(c)
  PROVE  remove_range(c.start, c.size, rs) = rs \ {c} /\ ListOK(rs \ {c})
<1>0. PageSize \in Nat \ {0, 1} /\ AddrMod \in Nat \ {0}
  BY Sizes, Zenon
<1>1. c.start \in Nat /\ c.size \in Nat /\ 0 < c.size /\ c.start + c.size < NONE
      /\ c = Entry(c.start, c.size) /\ Clear(c.start, c.size)
  <2>1. c.start \in Nat /\ c.size \in Nat /\ Clear(c.start, c.size) /\ c = Entry(c.start, c.size)
    BY Zenon DEF Good
  <2>2. 0 < c.size /\ c.start + c.size < NONE
    BY <1>0, <2>1 DEF Clear, NONE
  <2> QED BY <2>1, <2>2, Zenon
<1>2. ~is_free(c.start, c.size, rs)
  <2>1. ~Apart(c, c)
    BY <1>1 DEF Apart
  <2> QED BY <1>1, <2>1, IsFreeApart, Zenon
<1>3. ASSUME NEW r \in rs
      PROVE  /\ ~(c.start > r.start /\ c.start < Last(r.start, r.size))
             /\ (/\ c.start >= r.start
                 /\ Wrap(c.start + c.size) <= Wrap(r.start + r.size)) <=> r = c
  <2>1. CASE Good(r)
    <3>1. r.start \in Nat /\ r.size \in Nat /\ 0 < r.size /\ r.start + r.size < AddrMod
      BY <1>0, <2>1 DEF Good, Clear
    <3>2. /\ Last(r.start, r.size) = r.start + r.size - 1
          /\ Wrap(r.start + r.size) = r.start + r.size
          /\ Wrap(c.start + c.size) = c.start + c.size
      BY <1>0, <1>1, <3>1 DEF Last, Wrap, NONE
    <3>3. r # c => Apart(r, c)
      BY <2>1, Zenon DEF ListOK
    <3> QED BY <1>1, <3>1, <3>2, <3>3 DEF Apart
  <2>2. CASE ~Good(r)
    <3>1. r.start = NONE /\ r # c
      BY <2>2, StrayStart, Zenon DEF ListOK
    <3>2. NONE \in Nat
      BY <1>0 DEF NONE
    <3> QED BY <1>1, <3>1, <3>2
  <2> QED BY <2>1, <2>2, Zenon
<1>4. SplitAt(c.start, c.size, rs) = rs
  BY <1>3, Zenon DEF SplitAt
<1>5. {r \in rs : /\ c.start >= r.start
                  /\ Wrap(c.start + c.size) <= Wrap(r.start + r.size)} = {c}
  BY <1>3, Zenon
<1>6. DropFirst(c.start, c.size, rs) = rs \ {c}
  BY <1>5, Zenon DEF DropFirst
<1>7. ListOK(rs \ {c})
  BY Zenon DEF ListOK
<1> QED BY <1>2, <1>4, <1>6, <1>7, Zenon DEF remove_range

\* Areas are aligned to pages.
LEMMA RoundAlignPage ==
  RoundAlign(PageSize) = PageSize
<1> DEFINE Fits(p) == /\ p >= PageSize /\ p >= PageSize
                      /\ \A q \in Pow2 : q >= PageSize /\ q >= PageSize => p <= q
<1>1. PageSize \in Pow2 /\ Pow2 \subseteq Nat
  BY RangeOpsAssumption, Zenon
<1>2. PageSize \in Nat
  BY <1>1, Zenon
<1>3. Fits(PageSize)
  BY <1>1, <1>2
<1>4. ASSUME NEW p \in Pow2, Fits(p) PROVE p = PageSize
  <2>1. p \in Nat /\ p >= PageSize /\ p <= PageSize
    BY <1>1, <1>2, <1>4
  <2> QED BY <1>2, <2>1
<1>5. RoundAlign(PageSize) = CHOOSE p \in Pow2 : Fits(p)
  BY Zenon DEF RoundAlign
<1> HIDE DEF Fits
<1> QED BY <1>1, <1>3, <1>4, <1>5, Zenon

LEMMA AlignDownIs ==
  ASSUME NEW x \in Nat, NEW a \in Nat \ {0}
  PROVE  /\ AlignDown(x, a) \in Nat /\ AlignDown(x, a) <= x /\ AlignDown(x, a) % a = 0
<1> DEFINE k == x \div a
<1>1. k \in Nat /\ x % a \in 0 .. a - 1 /\ x = a * k + (x % a)
  BY Division, Zenon
<1>2. AlignDown(x, a) = a * k + 0 /\ a * k \in Nat
  BY <1>1 DEF AlignDown
<1>3. (a * k + 0) % a = 0
  <2>1. 0 \in Nat /\ 0 < a
    OBVIOUS
  <2> QED BY <1>1, <2>1, Division, Zenon
<1>4. AlignDown(x, a) \in Nat /\ AlignDown(x, a) <= x
  BY <1>1, <1>2
<1> QED BY <1>2, <1>3, <1>4, Zenon

\* What the search from the top finds is free and ends below the top.
LEMMA FoundArea ==
  ASSUME CleanRequests, NEW rs, \A r \in rs : r.start \in Cell,
         NEW size \in Cell, NEW max \in Cell, NEW min, size <= max,
         find_area(PageSize, size, rs, min, max, TRUE) # NONE
  PROVE  LET x == find_area(PageSize, size, rs, min, max, TRUE)
         IN x \in Nat /\ Aligned(x) /\ x + size <= max /\ is_free(x, size, rs)
<1> DEFINE P        == PageSize
           top      == Wrap(max - size)
           clamp(y) == AlignDown(IF y > top THEN top ELSE y, P)
           below(r) == clamp(Wrap(r.start - size))
           good     == {r \in rs : is_free(below(r), size, rs)}
           last     == {r \in good : \A q \in good \ {r} : Before(q, r)}
           x        == find_area(PageSize, size, rs, min, max, TRUE)
<1>0. P \in Nat \ {0} /\ AddrMod \in Nat \ {0}
  BY Sizes, Zenon
<1>1. top = max - size /\ top \in Nat
  BY <1>0 DEF Wrap, Cell
<1>2. x = IF is_free(clamp(top), size, rs) THEN clamp(top)
          ELSE IF last = {} THEN NONE ELSE below(CHOOSE r \in last : TRUE)
  <2>1. x = FindReverse(P, size, rs, max)
    BY RoundAlignPage DEF find_area
  <2> QED BY <2>1, Zenon DEF FindReverse
<1>3. ASSUME NEW y \in Nat
      PROVE  clamp(y) \in Nat /\ clamp(y) <= top /\ clamp(y) % P = 0
  <2>1. (IF y > top THEN top ELSE y) \in Nat /\ (IF y > top THEN top ELSE y) <= top
    BY <1>1
  <2> DEFINE z == IF y > top THEN top ELSE y
  <2> HIDE DEF z
  <2>2. AlignDown(z, P) \in Nat /\ AlignDown(z, P) <= z /\ AlignDown(z, P) % P = 0
    BY <1>0, <2>1, AlignDownIs, Zenon DEF z
  <2>3. z \in Nat /\ z <= top
    BY <2>1, Zenon DEF z
  <2>4. AlignDown(z, P) <= top
    BY <1>1, <2>2, <2>3
  <2> QED BY <2>2, <2>4, Zenon DEF z
<1>4. \A r \in rs : Wrap(r.start - size) \in Nat
  BY <1>0 DEF Wrap, Cell
<1>5. \E y \in Nat : x = clamp(y) /\ is_free(x, size, rs)
  <2> HIDE DEF x, clamp, top
  <2>1. CASE is_free(clamp(top), size, rs)
    BY <1>1, <1>2, <2>1, Zenon
  <2>2. CASE ~is_free(clamp(top), size, rs)
    <3>1. last # {} /\ x = below(CHOOSE r \in last : TRUE)
      BY <1>2, <2>2, Zenon DEF x
    <3>2. PICK r \in last : x = below(r)
      BY <3>1, Zenon
    <3>3. r \in rs /\ is_free(below(r), size, rs)
      BY <3>2, Zenon
    <3> QED BY <1>4, <3>2, <3>3, Zenon
  <2> QED BY <2>1, <2>2, Zenon
<1>6. x \in Nat /\ x <= top /\ x % P = 0 /\ is_free(x, size, rs)
  <2> HIDE DEF x, clamp, top
  <2> QED BY <1>3, <1>5, Zenon
<1> HIDE DEF x
<1>7. x + size <= max
  BY <1>1, <1>6 DEF Cell
<1> QED BY <1>6, <1>7, Zenon DEF x, Aligned

-----------------------------------------------------------------------------
\* The list of translations.
CutAt(v, ts) == \A t \in ts : ~(t.virt < v /\ v < t.virt + t.size)

LEMMA EntryFields ==
  ASSUME NEW a, NEW b, NEW c, NEW d
  PROVE  /\ Trans!T(a, b, c, d).virt = a /\ Trans!T(a, b, c, d).size = b
         /\ Trans!T(a, b, c, d).phys = c /\ Trans!T(a, b, c, d).mode = d
BY Zenon DEF Trans!T

\* split_trans cuts the entry that has v in its interior, and keeps the others.
LEMMA SplitPages ==
  ASSUME NPages \in Nat, NEW ts, Orderly(ts), NEW v \in Nat
  PROVE  LET us == Trans!split_trans(v, ts)
         IN /\ Orderly(us) /\ CutAt(v, us)
            /\ \A s \in us : \E t \in ts : Within(s, t)
            /\ \A t \in ts : ~(t.virt < v /\ v < t.virt + t.size) => t \in us
            /\ \A w \in Nat : CutAt(w, ts) => CutAt(w, us)
<1> DEFINE cut     == {t \in ts : v > t.virt /\ v < t.virt + t.size}
           low(t)  == Trans!T(t.virt, v - t.virt, t.phys, t.mode)
           high(t) == Trans!T(v, t.size - (v - t.virt), t.phys + (v - t.virt), t.mode)
           us      == Trans!split_trans(v, ts)
           Nice(s) == /\ s.virt \in Nat /\ s.size \in Nat /\ s.phys \in Nat
                      /\ s = Trans!T(s.virt, s.size, s.phys, "mode") /\ 0 < s.size
           Half(s, t) == \/ s.virt = t.virt /\ s.virt + s.size = v
                         \/ s.virt = v /\ s.virt + s.size = t.virt + t.size
<1>0. us = (ts \ cut) \cup {low(t) : t \in cut} \cup {high(t) : t \in cut}
  BY Zenon DEF Trans!split_trans
<1>1. \A t \in ts : Nice(t) /\ t.virt + t.size < NPages /\ t.mode = "mode"
  BY EntryFields DEF Orderly
<1>2. ASSUME NEW t \in cut
      PROVE  Nice(low(t)) /\ Nice(high(t)) /\ Half(low(t), t) /\ Half(high(t), t)
  <2>1. /\ low(t).virt = t.virt /\ low(t).size = v - t.virt /\ low(t).phys = t.phys
        /\ high(t).virt = v /\ high(t).size = t.size - (v - t.virt)
        /\ high(t).phys = t.phys + (v - t.virt)
    BY Zenon DEF Trans!T
  <2>2. t \in ts /\ t.virt < v /\ v < t.virt + t.size
    BY <1>2
  <2>3. Nice(t) /\ t.mode = "mode"
    BY <1>1, <2>2, Zenon
  <2>4. low(t) = Trans!T(low(t).virt, low(t).size, low(t).phys, "mode")
    BY <2>1, <2>3, Zenon
  <2>5. high(t) = Trans!T(high(t).virt, high(t).size, high(t).phys, "mode")
    BY <2>1, <2>3, Zenon
  <2> HIDE DEF low, high
  <2> QED BY <2>1, <2>2, <2>3, <2>4, <2>5
<1> HIDE DEF Nice
<1>3. ASSUME NEW s \in us
      PROVE  /\ Nice(s)
             /\ \/ s \in ts /\ s \notin cut
                \/ \E t \in cut : s \in {low(t), high(t)} /\ Half(s, t)
  <2> HIDE DEF low, high, us, Half
  <2> QED BY <1>0, <1>1, <1>2, Zenon
<1>4. \A t \in ts : t.virt \in Nat /\ t.size \in Nat /\ 0 < t.size /\ t.virt + t.size < NPages
  BY <1>1, Zenon DEF Nice
<1>5. \A s \in us : s.virt \in Nat /\ s.size \in Nat /\ 0 < s.size
  <2> HIDE DEF us, cut
  <2> QED BY <1>3, Zenon DEF Nice
<1>6. \A t \in ts : t \notin cut => t \in us
  BY <1>0, Zenon
<1> HIDE DEF us, low, high
<1>7. ASSUME NEW s \in us
      PROVE  \E t \in ts :
               /\ Within(s, t)
               /\ (s = t /\ t \notin cut) \/ (t \in cut /\ s \in {low(t), high(t)} /\ Half(s, t))
  <2>1. CASE s \in ts /\ s \notin cut
    <3>1. Within(s, s)
      BY <1>4, <2>1 DEF Within
    <3> QED BY <2>1, <3>1, Zenon
  <2>2. CASE \E t \in cut : s \in {low(t), high(t)} /\ Half(s, t)
    <3>1. PICK t \in cut : s \in {low(t), high(t)} /\ Half(s, t)
      BY <2>2, Zenon
    <3>2. Within(s, t)
      BY <1>4, <1>5, <3>1, <1>7 DEF Within
    <3> QED BY <3>1, <3>2, Zenon
  <2> QED BY <1>3, <1>7, <2>1, <2>2, Zenon
<1>8. \A s \in us : \E t \in ts : Within(s, t)
  BY <1>7, Zenon
<1>9. CutAt(v, us)
  <2> SUFFICES ASSUME NEW s \in us PROVE ~(s.virt < v /\ v < s.virt + s.size)
    BY Zenon DEF CutAt
  <2>1. CASE s \in ts /\ s \notin cut
    BY <2>1, <1>4
  <2>2. CASE \E t \in cut : Half(s, t)
    <3>1. PICK t \in cut : Half(s, t)
      BY <2>2, Zenon
    <3> QED BY <3>1, <1>4, <1>5
  <2> QED BY <1>3, <2>1, <2>2, Zenon
<1>10. ASSUME NEW q \in us, NEW r \in us, q # r PROVE Separate(q, r)
  <2>1. PICK t \in ts :
          /\ Within(q, t)
          /\ (q = t /\ t \notin cut) \/ (t \in cut /\ q \in {low(t), high(t)} /\ Half(q, t))
    BY <1>7, <1>10, Zenon
  <2>2. PICK u \in ts :
          /\ Within(r, u)
          /\ (r = u /\ u \notin cut) \/ (u \in cut /\ r \in {low(u), high(u)} /\ Half(r, u))
    BY <1>7, <1>10, Zenon
  <2>3. CASE t # u
    <3>1. Separate(t, u)
      BY <2>3, Zenon DEF Orderly
    <3> QED BY <1>4, <1>5, <1>10, <2>1, <2>2, <3>1 DEF Within, Separate
  <2>4. CASE t = u
    <3>1. t \in cut /\ ((q = low(t) /\ r = high(t)) \/ (q = high(t) /\ r = low(t)))
      <4> HIDE DEF Half, cut
      <4>1. CASE t \notin cut
        BY <2>1, <2>2, <2>4, <1>10, <4>1, Zenon
      <4>2. CASE t \in cut
        <5>1. q \in {low(t), high(t)} /\ r \in {low(t), high(t)}
          BY <2>1, <2>2, <2>4, <4>2, Zenon
        <5> QED BY <1>10, <4>2, <5>1
      <4> QED BY <4>1, <4>2, Zenon
    <3>2. low(t).virt + low(t).size = v /\ high(t).virt = v
      <4>1. t.virt \in Nat
        BY <1>4, Zenon
      <4>2. low(t).virt = t.virt /\ low(t).size = v - t.virt /\ high(t).virt = v
        BY Zenon DEF low, high, Trans!T
      <4> QED BY <4>1, <4>2
    <3> QED BY <3>1, <3>2 DEF Separate
  <2> QED BY <2>3, <2>4, Zenon
<1>11. \A s \in us : s.virt + s.size < NPages
  BY <1>4, <1>5, <1>8 DEF Within
<1>12. Orderly(us)
  <2>1. \A s \in us : Nice(s)
    BY <1>3, Zenon
  <2> QED BY <1>10, <1>11, <2>1, Zenon DEF Orderly, Nice
<1>13. ASSUME NEW w \in Nat, CutAt(w, ts) PROVE CutAt(w, us)
  BY <1>4, <1>5, <1>8, <1>13 DEF CutAt, Within
<1>14. \A t \in ts : ~(t.virt < v /\ v < t.virt + t.size) => t \in us
  BY <1>4, <1>6
<1> QED BY <1>8, <1>9, <1>12, <1>13, <1>14, Zenon DEF us

\* ofmem_map_page_range adds its entry, keeps the entries that are apart from it,
\* and leaves pieces of others.
LEMMA MapPages ==
  ASSUME NPages \in Nat, NEW ts, Orderly(ts), NEW virt \in Nat, NEW size \in Nat,
         NEW phys \in Nat, 0 < size, virt + size < NPages
  PROVE  LET new == Trans!T(virt, size, phys, "mode")
             us  == Trans!map_page_range(phys, virt, size, "mode", ts)
         IN /\ Orderly(us) /\ new \in us
            /\ \A t \in ts : Separate(t, new) => t \in us
            /\ \A s \in us : s = new \/ (Separate(s, new) /\ \E t \in ts : Within(s, t))
<1> DEFINE new == Trans!T(virt, size, phys, "mode")
           us  == Trans!map_page_range(phys, virt, size, "mode", ts)
           one == Trans!split_trans(virt, ts)
           cut == Trans!split_trans(virt + size, one)
           off == Trans!Remapped(virt, size, cut)
<1>0. virt + size \in Nat /\ Trans!PageWrap(virt + size) = virt + size
  BY DEF Trans!PageWrap
<1>1. us = (cut \ off) \cup {new}
  BY <1>0, Zenon DEF Trans!map_page_range, Trans!SplitEnds
<1>2. new.virt = virt /\ new.size = size /\ new.phys = phys
  BY Zenon DEF Trans!T
<1>3. /\ Orderly(one) /\ CutAt(virt, one)
      /\ \A s \in one : \E t \in ts : Within(s, t)
      /\ \A t \in ts : ~(t.virt < virt /\ virt < t.virt + t.size) => t \in one
  BY SplitPages, Zenon
<1> HIDE DEF one
<1>4. /\ Orderly(cut) /\ CutAt(virt + size, cut) /\ CutAt(virt, cut)
      /\ \A s \in cut : \E t \in one : Within(s, t)
      /\ \A t \in one : ~(t.virt < virt + size /\ virt + size < t.virt + t.size) => t \in cut
  BY <1>0, <1>3, SplitPages, Zenon
<1> HIDE DEF cut
<1>5. /\ \A t \in ts : t.virt \in Nat /\ t.size \in Nat /\ 0 < t.size
      /\ \A t \in one : t.virt \in Nat /\ t.size \in Nat /\ 0 < t.size
      /\ \A t \in cut : t.virt \in Nat /\ t.size \in Nat /\ 0 < t.size
  BY <1>3, <1>4, Zenon DEF Orderly
<1>6. \A s \in cut : \E t \in ts : Within(s, t)
  BY <1>3, <1>4, <1>5 DEF Within
<1>7. \A s \in cut : s \in off <=> virt <= s.virt /\ s.virt < virt + size
  BY <1>0, <1>5 DEF Trans!Remapped
<1>8. \A s \in cut : s \notin off => Separate(s, new)
  BY <1>2, <1>4, <1>5, <1>7 DEF CutAt, Separate
<1>9. ASSUME NEW t \in ts, Separate(t, new) PROVE t \in cut /\ t \notin off
  <2>1. t.virt + t.size <= virt \/ virt + size <= t.virt
    BY <1>2, <1>9, Zenon DEF Separate
  <2>2. t \in one
    BY <1>3, <1>5, <2>1
  <2>3. t \in cut
    BY <1>4, <1>5, <2>1, <2>2
  <2> QED BY <1>5, <1>7, <2>1, <2>3
<1> HIDE DEF us, off, new
<1>10. \A s \in us : s = new \/ (Separate(s, new) /\ \E t \in ts : Within(s, t))
  BY <1>1, <1>6, <1>8, Zenon
<1>11. \A t \in ts : Separate(t, new) => t \in us
  BY <1>1, <1>9, Zenon
<1>12. \A s \in cut : s \notin off => Separate(new, s)
  BY <1>8, Zenon DEF Separate
<1>13. /\ new.virt \in Nat /\ new.size \in Nat /\ new.phys \in Nat
       /\ new = Trans!T(new.virt, new.size, new.phys, "mode")
       /\ 0 < new.size /\ new.virt + new.size < NPages
  BY <1>2, Zenon DEF new
<1>14. Orderly(us)
  <2>1. \A t, u \in us : t # u => Separate(t, u)
    <3>1. \A t, u \in cut : t # u => Separate(t, u)
      BY <1>4, Zenon DEF Orderly
    <3> QED BY <1>1, <1>8, <1>12, <3>1, Zenon
  <2>2. \A t \in us : t \in cut \/ t = new
    BY <1>1, Zenon
  <2> QED BY <1>4, <1>13, <2>1, <2>2, Zenon DEF Orderly
<1> QED BY <1>1, <1>10, <1>11, <1>14, Zenon DEF us, new

\* unmap_page_range of the area of one entry removes this entry.
LEMMA UnmapPages ==
  ASSUME NPages \in Nat, NEW ts, Orderly(ts), NEW e \in ts
  PROVE  LET cut == Trans!SplitEnds(e.virt, e.size, ts)
         IN cut \ Trans!Unlinked(Trans!InRange(e.virt, e.size, cut)) = ts \ {e}
<1>1. \A t \in ts : t.virt \in Nat /\ t.size \in Nat /\ 0 < t.size /\ t.virt + t.size < NPages
  BY Zenon DEF Orderly
<1>2. \A t \in ts : t # e => Separate(t, e)
  BY Zenon DEF Orderly
<1> DEFINE v == e.virt
           w == e.virt + e.size
<1>3. Trans!PageWrap(w) = w
  BY <1>1 DEF Trans!PageWrap
<1>4. ASSUME NEW t \in ts
      PROVE  ~(v > t.virt /\ v < t.virt + t.size) /\ ~(w > t.virt /\ w < t.virt + t.size)
  BY <1>1, <1>2 DEF Separate
<1>5. Trans!split_trans(v, ts) = ts /\ Trans!split_trans(w, ts) = ts
  BY <1>4, Zenon DEF Trans!split_trans
<1>6. Trans!SplitEnds(e.virt, e.size, ts) = ts
  BY <1>3, <1>5, Zenon DEF Trans!SplitEnds
<1>7. ASSUME NEW t \in ts
      PROVE  (t.virt < w /\ t.virt >= v /\ Trans!PageWrap(t.virt + t.size) <= w) <=> t = e
  <2>1. Trans!PageWrap(t.virt + t.size) = t.virt + t.size
    BY <1>1 DEF Trans!PageWrap
  <2> QED BY <1>1, <1>2, <2>1 DEF Separate
<1>8. Trans!InRange(e.virt, e.size, ts) = {e}
  BY <1>3, <1>7, Zenon DEF Trans!InRange
<1>9. Trans!Unlinked({e}) = {e}
  <2> DEFINE Left(us) == \A t \in {e} : t \in us <=>
                           \A p \in {e} : Trans!NextBelow(p, t, {e}) => p \notin us
  <2>1. ~Trans!NextBelow(e, e, {e})
    BY <1>1 DEF Trans!NextBelow
  <2>2. \A us \in SUBSET {e} : Left(us) <=> us = {e}
    BY <2>1, Zenon
  <2> HIDE DEF Left
  <2>3. (CHOOSE us \in SUBSET {e} : Left(us)) = {e}
    BY <2>2, Zenon
  <2> QED BY <2>3, Zenon DEF Trans!Unlinked, Left
<1> QED BY <1>6, <1>8, <1>9, Zenon

\* A page has the translation of the entry that covers it.
LEMMA LookupHit ==
  ASSUME NEW ts, Orderly(ts), NEW t \in ts, NEW x \in Nat, t.virt <= x, x < t.virt + t.size
  PROVE  Trans!Lookup(ts, x) = <<t.phys + (x - t.virt), t.mode>>
<1> DEFINE hit   == {u \in ts : Trans!Covers(u, x)}
           first == {u \in hit : \A w \in hit : u.virt <= w.virt}
<1>0. \A u \in ts : u.virt \in Nat /\ u.size \in Nat
  BY Zenon DEF Orderly
<1>1. \A u \in hit : u = t
  BY <1>0 DEF Orderly, Separate, Trans!Covers
<1>2. t \in first
  BY <1>0, <1>1 DEF Trans!Covers
<1>3. (CHOOSE u \in first : TRUE) = t
  BY <1>1, <1>2, Zenon
<1> QED BY <1>2, <1>3, Zenon DEF Trans!Lookup

LEMMA LookupMiss ==
  ASSUME NEW ts, NEW x, Trans!Lookup(ts, x) # Unmapped
  PROVE  \E t \in ts : t.virt <= x /\ x < t.virt + t.size
BY Zenon DEF Trans!Lookup, Trans!Covers

-----------------------------------------------------------------------------
\* The published property.
LEMMA CellsAre ==
  ASSUME AddrMod \in Nat, NEW s \in Nat, NEW n \in Nat, s + n <= AddrMod
  PROVE  /\ \A x \in Cells(Entry(s, n)) : x \in Nat /\ s <= x /\ x < s + n
         /\ \A x \in Nat : s <= x /\ x < s + n => x \in Cells(Entry(s, n))
<1>1. Cells(Entry(s, n)) = {Wrap(s + i) : i \in 0 .. n - 1}
  BY Zenon DEF Cells, Entry
<1>2. \A i \in 0 .. n - 1 : i \in Nat /\ Wrap(s + i) = s + i
  BY DEF Wrap
<1>3. ASSUME NEW x \in Cells(Entry(s, n)) PROVE x \in Nat /\ s <= x /\ x < s + n
  <2>1. PICK i \in 0 .. n - 1 : x = Wrap(s + i)
    BY <1>1, Zenon
  <2> QED BY <1>2, <2>1
<1>4. ASSUME NEW x \in Nat, s <= x, x < s + n PROVE x \in Cells(Entry(s, n))
  <2>1. x - s \in 0 .. n - 1 /\ s + (x - s) = x
    BY <1>4
  <2>2. x = Wrap(s + (x - s))
    BY <1>2, <2>1, Zenon
  <2> QED BY <1>1, <2>1, <2>2, Zenon
<1> QED BY <1>3, <1>4, Zenon

LEMMA GoodCells ==
  ASSUME CleanRequests, NEW r, Good(r), NEW x
  PROVE  x \in Cells(r) <=> x \in Nat /\ r.start <= x /\ x < r.start + r.size
<1>1. PageSize \in Nat /\ AddrMod \in Nat
  BY Sizes, Zenon
<1>2. r.start \in Nat /\ r.size \in Nat /\ r.start + r.size <= AddrMod /\ r = Entry(r.start, r.size)
  <2>1. r.start \in Nat /\ r.size \in Nat /\ r = Entry(r.start, r.size)
    BY Zenon DEF Good
  <2>2. r.start + r.size <= AddrMod
    BY <1>1, <2>1 DEF Good, Clear
  <2> QED BY <2>1, <2>2, Zenon
<1> QED BY <1>1, <1>2, CellsAre, Zenon

\* A bounded set of numbers has a greatest element.
LEMMA GreatestElement ==
  ASSUME NEW E \in SUBSET Nat, E # {}, NEW n \in Nat, \A y \in E : y <= n
  PROVE  \E x \in E : \A y \in E : y <= x
<1> DEFINE U == {n - y : y \in E}
<1>1. U \in SUBSET Nat /\ U # {}
  <2>1. \A y \in E : n - y \in Nat
    OBVIOUS
  <2>2. PICK y \in E : TRUE
    BY Zenon
  <2> QED BY <2>1, <2>2, Zenon
<1>2. PICK u \in U : \A v \in U : ~(<<v, u>> \in OpToRel(<, Nat))
  BY <1>1, NatLessThanWellFounded, WFMin, Zenon
<1>3. PICK x \in E : u = n - x
  BY <1>2, Zenon
<1>4. ASSUME NEW y \in E PROVE y <= x
  <2>1. n - y \in U
    BY Zenon
  <2>2. ~(n - y < u)
    BY <1>1, <1>2, <2>1, Zenon DEF OpToRel
  <2> QED BY <1>3, <2>2
<1> QED BY <1>4, Zenon

\* Where the last of some claims ends.
EndOf(qs) ==
  LET last == {q \in qs : \A p \in qs \ {q} : Before(p, q)}
  IN IF last = {} THEN 0 ELSE LET q == CHOOSE q \in last : TRUE IN Wrap(q.start + q.size)

LEMMA EndIs ==
  ASSUME CleanRequests, NEW rs, PhysOK(rs), NEW qs \in SUBSET rs
  PROVE  /\ EndOf(qs) \in Nat
         /\ \A q \in qs : q.start + q.size <= EndOf(qs)
         /\ EndOf(qs) = 0 \/ \E q \in qs : EndOf(qs) = q.start + q.size
<1> DEFINE last == {q \in qs : \A p \in qs \ {q} : Before(p, q)}
<1>0. PageSize \in Nat \ {0, 1} /\ AddrMod \in Nat /\ RamSize \in Nat
  BY Sizes, OfmemAssumption DEF Cell
<1>1. \A q \in qs : /\ q.start \in Nat /\ q.size \in Nat /\ 0 < q.size
                    /\ q.start + q.size < AddrMod /\ q.start < RamSize /\ Good(q)
  BY <1>0 DEF PhysOK, Good, Clear
<1>2. \A p, q \in qs : p # q => Apart(p, q)
  BY Zenon DEF PhysOK, ListOK
<1>3. CASE qs = {}
  <2>1. EndOf(qs) = 0
    BY <1>3, Zenon DEF EndOf
  <2> QED BY <1>3, <2>1
<1>4. CASE qs # {}
  <2> DEFINE S == {q.start : q \in qs}
  <2>1. S \in SUBSET Nat /\ S # {}
    BY <1>1, <1>4, Zenon
  <2>2. \A y \in S : y <= RamSize
    BY <1>0, <1>1
  <2>3. PICK x \in S : \A y \in S : y <= x
    <3> HIDE DEF S
    <3> QED BY <1>0, <2>1, <2>2, GreatestElement, Zenon
  <2>4. PICK l \in qs : l.start = x
    BY <2>3, Zenon
  <2>5. \A q \in qs : q.start <= l.start
    BY <2>3, <2>4, Zenon
  <2>6. \A q \in qs : q # l => q.start + q.size <= l.start
    BY <1>1, <1>2, <2>5 DEF Apart
  <2>7. l \in last
    BY <1>1, <2>6 DEF Before
  <2>8. \A q \in last : q = l
    <3> SUFFICES ASSUME NEW q \in last, q # l PROVE FALSE
      BY Zenon
    <3>1. Before(l, q) /\ Before(q, l)
      BY <2>7, Zenon
    <3> QED BY <1>1, <3>1 DEF Before
  <2>9. EndOf(qs) = Wrap(l.start + l.size)
    <3>1. (CHOOSE q \in last : TRUE) = l
      BY <2>7, <2>8, Zenon
    <3> QED BY <2>7, <3>1, Zenon DEF EndOf
  <2>10. EndOf(qs) = l.start + l.size
    BY <1>0, <1>1, <2>9 DEF Wrap
  <2>11. \A q \in qs : q.start + q.size <= l.start + l.size
    BY <1>1, <2>6
  <2>12. EndOf(qs) \in Nat
    BY <1>1, <2>10
  <2> QED BY <2>10, <2>11, <2>12, Zenon
<1> QED BY <1>3, <1>4, Zenon

\* The gaps between the claims, and the memory behind the last, are not claimed.
LEMMA AvailableGaps ==
  ASSUME CleanRequests, NEW rs, PhysOK(rs)
  PROVE  CellsOf(AvailableEntries(rs, RamSize - 1)) \cap CellsOf(rs) = {}
<1> DEFINE top       == RamSize - 1
           before(r) == {q \in rs : Before(q, r)}
           gap(r)    == Entry(EndOf(before(r)), Wrap(r.start - EndOf(before(r))))
           tail      == IF Wrap(EndOf(rs) - 1) < top
                        THEN {Entry(EndOf(rs), (top - EndOf(rs)) + 1)} ELSE {}
<1>0. PageSize \in Nat \ {0, 1} /\ AddrMod \in Nat /\ RamSize \in Nat /\ 0 < RamSize
      /\ RamSize <= AddrMod - PageSize
  <2>1. RamSize \in Nat /\ 0 < RamSize
    BY OfmemAssumption DEF Cell
  <2>2. PageSize \in Nat \ {0, 1} /\ AddrMod \in Nat /\ RamSize <= AddrMod - PageSize
    BY Sizes, Zenon DEF CleanRequests
  <2> QED BY <2>1, <2>2, Zenon
<1>1. ASSUME NEW r \in rs
      PROVE  /\ r.start \in Nat /\ r.size \in Nat /\ 0 < r.size
             /\ r.start + r.size < AddrMod /\ Good(r) /\ r.start < top
  <2>1. Good(r) /\ Aligned(r.start) /\ r.start < RamSize
    BY <1>1, Zenon DEF PhysOK
  <2>2. r.start \in Nat /\ r.size \in Nat /\ 0 < r.size /\ r.start + r.size < AddrMod
    BY <1>0, <2>1 DEF Good, Clear
  <2>3. r.start # RamSize - 1
    <3> DEFINE P == PageSize
               k == r.start \div P
               m == RamSize \div P
    <3>1. k \in Nat /\ m \in Nat /\ r.start = P * k + 0 /\ RamSize = P * m + 0
      BY <1>0, <2>1, <2>2, Division, Zenon DEF Aligned, CleanRequests
    <3> HIDE DEF P, k, m
    <3>2. P \in Nat \ {0, 1} /\ k + 1 \in Int /\ m \in Int
      BY <1>0, <3>1 DEF P
    <3>3. P * (k + 1) = P * k + P
      BY <3>1, <3>2
    <3>4. P * (k + 1) < P * m + P
      BY <2>1, <3>1, <3>2, <3>3
    <3>5. k + 1 <= m
      BY <3>2, <3>4, Division, Zenon
    <3>6. P * (k + 1) <= P * m
      BY <3>2, <3>5, Division, Zenon
    <3> QED BY <3>1, <3>2, <3>3, <3>6
  <2> QED BY <1>0, <2>1, <2>2, <2>3
<1>2. AvailableEntries(rs, top) = {g \in {gap(r) : r \in rs} : g.size # 0} \cup tail
  <2>1. {r \in rs : r.start < top} = rs
    BY <1>1, Zenon
  <2> DEFINE In(listed) ==
               LET bef(r) == {q \in listed : Before(q, r)}
                   hole(r) == Entry(EndOf(bef(r)), Wrap(r.start - EndOf(bef(r))))
               IN {g \in {hole(r) : r \in listed} : g.size # 0}
                    \cup (IF Wrap(EndOf(listed) - 1) < top
                          THEN {Entry(EndOf(listed), (top - EndOf(listed)) + 1)} ELSE {})
  <2>2. AvailableEntries(rs, top) = In({r \in rs : r.start < top})
    BY Zenon DEF AvailableEntries, EndOf
  <2>3. In(rs) = {g \in {gap(r) : r \in rs} : g.size # 0} \cup tail
    BY Zenon
  <2> HIDE DEF In
  <2> QED BY <2>1, <2>2, <2>3, Zenon
<1> HIDE DEF top
<1>3. ASSUME NEW r \in rs, NEW x \in Cells(gap(r)), NEW q \in rs, x \in Cells(q) PROVE FALSE
  <2> DEFINE e == EndOf(before(r))
  <2>1. /\ e \in Nat /\ \A p \in before(r) : p.start + p.size <= e
        /\ e = 0 \/ \E p \in before(r) : e = p.start + p.size
    BY EndIs, before(r) \in SUBSET rs, Zenon
  <2> HIDE DEF e
  <2>2. \A p \in before(r) : p.start + p.size <= r.start
    <3> SUFFICES ASSUME NEW p \in before(r) PROVE p.start + p.size <= r.start
      BY Zenon
    <3>1. p \in rs /\ Before(p, r)
      BY Zenon
    <3>2. p # r => Apart(p, r)
      BY <1>3, <3>1, Zenon DEF PhysOK, ListOK
    <3> QED BY <1>1, <1>3, <3>1, <3>2 DEF Apart, Before
  <2>3. e <= r.start
    BY <1>1, <1>3, <2>1, <2>2
  <2>4. gap(r) = Entry(e, r.start - e) /\ r.start - e \in Nat /\ e + (r.start - e) <= AddrMod
    <3>1. Wrap(r.start - e) = r.start - e /\ r.start - e \in Nat /\ e + (r.start - e) <= AddrMod
      BY <1>0, <1>1, <1>3, <2>1, <2>3 DEF Wrap
    <3> QED BY <3>1, Zenon DEF e
  <2>5. x \in Nat /\ e <= x /\ x < e + (r.start - e)
    BY <1>0, <1>3, <2>1, <2>4, CellsAre, Zenon
  <2>6. q.start <= x /\ x < q.start + q.size
    BY <1>1, <1>3, GoodCells, Zenon
  <2>7. q \notin before(r)
    BY <1>1, <1>3, <2>1, <2>5, <2>6
  <2>8. r.start <= q.start
    BY <1>1, <1>3, <2>2, <2>7 DEF Before
  <2> QED BY <1>1, <1>3, <2>1, <2>5, <2>6, <2>8
<1>4. ASSUME NEW g \in tail, NEW x \in Cells(g), NEW q \in rs, x \in Cells(q) PROVE FALSE
  <2> DEFINE e == EndOf(rs)
  <2>1. /\ e \in Nat /\ q.start + q.size <= e
        /\ e = 0 \/ \E p \in rs : e = p.start + p.size
    BY <1>4, EndIs, rs \in SUBSET rs, Zenon
  <2>2. Wrap(e - 1) < top /\ g = Entry(e, (top - e) + 1)
    BY <1>4, Zenon
  <2> HIDE DEF e
  <2>3. (top - e) + 1 \in Nat /\ e + ((top - e) + 1) <= AddrMod
    <3>1. e < AddrMod
      BY <1>0, <1>1, <2>1
    <3>2. top \in Nat /\ top < AddrMod - 1
      BY <1>0 DEF top
    <3>3. e # 0 /\ Wrap(e - 1) = e - 1
      BY <1>0, <2>1, <2>2, <3>1, <3>2 DEF Wrap
    <3> QED BY <1>0, <2>1, <2>2, <3>1, <3>2, <3>3
  <2>4. x \in Nat /\ e <= x
    BY <1>0, <1>4, <2>1, <2>2, <2>3, CellsAre, Zenon
  <2>5. q.start <= x /\ x < q.start + q.size
    BY <1>1, <1>4, GoodCells, Zenon
  <2> QED BY <1>1, <1>4, <2>1, <2>4, <2>5
<1> HIDE DEF gap, tail
<1>5. ASSUME NEW x \in CellsOf(AvailableEntries(rs, top)), x \in CellsOf(rs) PROVE FALSE
  <2>1. PICK g \in AvailableEntries(rs, top) : x \in Cells(g)
    BY <1>5, Zenon DEF CellsOf
  <2>2. PICK q \in rs : x \in Cells(q)
    BY <1>5, Zenon DEF CellsOf
  <2> QED BY <1>2, <1>3, <1>4, <2>1, <2>2, Zenon
<1> QED BY <1>5, Zenon DEF top

-----------------------------------------------------------------------------
\* The entry that ofmem_init makes.
LEMMA InitTransIs ==
  ASSUME CleanRequests
  PROVE  /\ InitTrans.virt = InitVirt \div PageSize /\ InitTrans.size = Count(InitSize)
         /\ InitTrans.virt \in Nat /\ InitTrans.size \in Nat /\ 0 < InitTrans.size
         /\ InitTrans.virt + InitTrans.size < NPages /\ InitPhys \div PageSize \in Nat
         /\ Good(Entry(InitVirt, InitSize)) /\ Aligned(InitVirt)
<1>1. InitTrans.virt = InitVirt \div PageSize /\ InitTrans.size = Count(InitSize)
  BY Zenon DEF InitTrans, Trans!T
<1>2. {InitPhys, InitVirt, InitSize} \subseteq Nat /\ PageSize \in Nat \ {0}
  BY OfmemAssumption, Sizes DEF Cell
<1>3. InitVirt \in Nat /\ InitSize \in Nat /\ Aligned(InitVirt) /\ Clear(InitVirt, InitSize)
  BY <1>2, Zenon DEF CleanRequests
<1>4. /\ InitVirt \div PageSize \in Nat /\ Count(InitSize) \in Nat \ {0}
      /\ InitVirt \div PageSize + Count(InitSize) < NPages
  BY <1>3, PagesOf, Zenon
<1>5. InitPhys \div PageSize \in Nat
  BY <1>2, Division, Zenon
<1>6. Good(Entry(InitVirt, InitSize))
  BY <1>3, Zenon DEF Good, Entry
<1>7. Count(InitSize) \in Nat /\ 0 < Count(InitSize)
  BY <1>4
<1> QED BY <1>1, <1>3, <1>4, <1>5, <1>6, <1>7, Zenon

\* The entry that maps an area.
LEMMA MapsIs ==
  ASSUME CleanRequests, NEW p, NEW v, Good(p), Good(v), Aligned(p.start), Aligned(v.start)
  PROVE  LET t == Maps(p, v)
         IN /\ t.virt = First(v) /\ t.size = Count(v.size) /\ t.phys = First(p)
            /\ t.mode = "mode"
            /\ First(v) \in Nat /\ Count(v.size) \in Nat /\ First(p) \in Nat
            /\ 0 < Count(v.size) /\ First(v) + Count(v.size) < NPages
<1> DEFINE t == Maps(p, v)
<1>1. /\ t.virt = First(v) /\ t.size = Count(v.size) /\ t.phys = First(p) /\ t.mode = "mode"
  BY Zenon DEF Maps, Trans!T
<1>2. /\ First(v) \in Nat /\ Count(v.size) \in Nat \ {0} /\ First(v) + Count(v.size) < NPages
  BY PagesOf, Zenon DEF Good, First
<1>3. First(p) \in Nat
  BY PagesOf, Zenon DEF Good, First
<1>4. 0 < Count(v.size) /\ Count(v.size) \in Nat
  BY <1>2
<1> QED BY <1>1, <1>2, <1>3, <1>4, Zenon

LEMMA MapsApart ==
  ASSUME CleanRequests, NEW p, NEW v, Good(p), Good(v), Aligned(p.start), Aligned(v.start),
         NEW q, NEW w, Good(q), Good(w), Aligned(q.start), Aligned(w.start), Apart(v, w)
  PROVE  Separate(Maps(p, v), Maps(q, w))
<1>1. /\ Maps(p, v).virt = First(v) /\ Maps(p, v).size = Count(v.size)
      /\ Maps(q, w).virt = First(w) /\ Maps(q, w).size = Count(w.size)
  BY MapsIs, Zenon
<1>2. First(v) + Count(v.size) <= First(w) \/ First(w) + Count(w.size) <= First(v)
  BY PagesApart, Zenon DEF Apart
<1> QED BY <1>1, <1>2, Zenon DEF Separate

LEMMA MapsDiffer ==
  ASSUME CleanRequests, NEW p, NEW v, Good(p), Good(v), Aligned(p.start), Aligned(v.start),
         NEW q, NEW w, Good(q), Good(w), Aligned(q.start), Aligned(w.start), Apart(v, w)
  PROVE  Maps(p, v) # Maps(q, w)
<1>1. Separate(Maps(p, v), Maps(q, w))
  BY MapsApart, Zenon
<1>2. /\ Maps(p, v).virt = First(v) /\ Maps(p, v).size = Count(v.size)
      /\ First(v) \in Nat /\ Count(v.size) \in Nat /\ 0 < Count(v.size)
  BY MapsIs, Zenon
<1> QED BY <1>1, <1>2 DEF Separate

\* The area of a mapping gets its entry, and the others keep theirs.
LEMMA MapKeeps ==
  ASSUME CleanRequests, NEW ts, NEW wanted, TransFor(ts, wanted),
         NEW p, NEW v, Good(p), Good(v), Aligned(p.start), Aligned(v.start),
         \A t \in wanted : Separate(t, Maps(p, v))
  PROVE  TransFor(Map(p.start, v.start, v.size, ts), wanted \cup {Maps(p, v)})
<1> DEFINE new == Maps(p, v)
           us  == Map(p.start, v.start, v.size, ts)
<1>0. NPages \in Nat
  BY Sizes, Zenon
<1>1. us = Trans!map_page_range(First(p), First(v), Count(v.size), "mode", ts)
  BY Zenon DEF Map, First, Count
<1>2. /\ First(v) \in Nat /\ Count(v.size) \in Nat /\ First(p) \in Nat
      /\ 0 < Count(v.size) /\ First(v) + Count(v.size) < NPages
  BY MapsIs, Zenon
<1>3. Orderly(ts)
  BY Zenon DEF TransFor
<1>4. /\ Orderly(us) /\ new \in us
      /\ \A t \in ts : Separate(t, new) => t \in us
      /\ \A s \in us : s = new \/ (Separate(s, new) /\ \E t \in ts : Within(s, t))
  <2> DEFINE made == Trans!map_page_range(First(p), First(v), Count(v.size), "mode", ts)
             own  == Trans!T(First(v), Count(v.size), First(p), "mode")
  <2>1. /\ Orderly(made) /\ own \in made
        /\ \A t \in ts : Separate(t, own) => t \in made
        /\ \A s \in made : s = own \/ (Separate(s, own) /\ \E t \in ts : Within(s, t))
    BY <1>0, <1>2, <1>3, MapPages, Zenon
  <2>2. us = made /\ new = own
    BY <1>1, Zenon DEF Maps
  <2> HIDE DEF made, own, us, new
  <2> QED BY <2>1, <2>2, Zenon
<1> HIDE DEF new, us
<1>5. wanted \subseteq us
  BY <1>4, Zenon DEF TransFor, new
<1>6. ASSUME NEW s \in us, s # new, s \notin wanted PROVE Within(s, InitTrans)
  <2>1. PICK t \in ts : Within(s, t)
    BY <1>4, <1>6, Zenon
  <2>2. s.virt \in Nat /\ s.size \in Nat /\ 0 < s.size /\ t.virt \in Nat /\ t.size \in Nat
    BY <1>3, <1>4, <1>6, Zenon DEF Orderly
  <2>3. CASE t \in wanted
    <3>1. t \in us /\ s # t
      BY <1>5, <1>6, <2>3, Zenon
    <3>2. Separate(s, t)
      BY <1>4, <1>6, <3>1, Zenon DEF Orderly
    <3> QED BY <2>1, <2>2, <3>2 DEF Within, Separate
  <2>4. CASE t \notin wanted
    <3>1. Within(t, InitTrans)
      BY <2>4, Zenon DEF TransFor
    <3>2. InitTrans.virt \in Nat /\ InitTrans.size \in Nat
      BY InitTransIs, Zenon
    <3> QED BY <2>1, <2>2, <3>1, <3>2 DEF Within
  <2> QED BY <2>3, <2>4, Zenon
<1> QED BY <1>4, <1>5, <1>6, Zenon DEF TransFor, new, us

\* The release of an area takes its entry away.
LEMMA UnmapKeeps ==
  ASSUME CleanRequests, NEW ts, NEW wanted, TransFor(ts, wanted),
         NEW c, Good(c), Aligned(c.start), Maps(c, c) \in wanted
  PROVE  TransFor(Unmap(c.start, c.size, ts), wanted \ {Maps(c, c)})
<1> DEFINE e == Maps(c, c)
<1>1. e.virt = First(c) /\ e.size = Count(c.size)
  BY MapsIs, Zenon
<1>2. e \in ts /\ Orderly(ts) /\ NPages \in Nat
  BY Sizes, Zenon DEF TransFor
<1>3. Unmap(c.start, c.size, ts) = ts \ {e}
  BY <1>1, <1>2, UnmapPages, Zenon DEF Unmap, First, Count
<1> HIDE DEF e
<1>4. TransFor(ts \ {e}, wanted \ {e})
  BY Zenon DEF TransFor, Orderly
<1> QED BY <1>3, <1>4, Zenon DEF e

\* What an entry translates.
LEMMA TranslateIs ==
  ASSUME CleanRequests, NEW ts, Orderly(ts), NEW p, NEW v, Good(p), Good(v),
         Aligned(p.start), Aligned(v.start), Maps(p, v) \in ts,
         NEW x \in Nat, v.start <= x, x < v.start + v.size
  PROVE  Translate(x, ts) = p.start + (x - v.start)
<1> DEFINE t == Maps(p, v)
           j == x \div PageSize
           d == x % PageSize
<1>1. /\ t.virt = First(v) /\ t.size = Count(v.size) /\ t.phys = First(p)
      /\ First(v) \in Nat /\ First(p) \in Nat
  BY MapsIs, Zenon
<1>2. /\ j \in Nat /\ d \in Nat /\ First(v) <= j /\ j < First(v) + Count(v.size)
      /\ PageSize * (j - First(v)) + d = x - v.start
  BY PageOfCell, Zenon
<1>3. Trans!Lookup(ts, j) = <<First(p) + (j - First(v)), t.mode>>
  BY <1>1, <1>2, LookupHit, Zenon
<1>4. <<First(p) + (j - First(v)), t.mode>> # Unmapped
  BY DEF Unmapped
<1>5. Translate(x, ts) = ((First(p) + (j - First(v))) * PageSize) + d
  <2>1. <<First(p) + (j - First(v)), t.mode>>[1] = First(p) + (j - First(v))
    OBVIOUS
  <2> HIDE DEF t, j, d
  <2> QED BY <1>3, <1>4, <2>1, Zenon DEF Translate, j, d
<1>6. PageSize \in Nat /\ p.start = PageSize * First(p) /\ p.start \in Nat /\ v.start \in Nat
  BY Sizes, PagesOf, Zenon DEF Good, First
<1> HIDE DEF j, d
<1>7. (First(p) + (j - First(v))) * PageSize = PageSize * First(p) + PageSize * (j - First(v))
  BY <1>1, <1>2, <1>6
<1>8. PageSize * (j - First(v)) \in Int
  BY <1>1, <1>2, <1>6
<1> QED BY <1>2, <1>5, <1>6, <1>7, <1>8

-----------------------------------------------------------------------------
\* What the parts of the invariant say of the areas of clients.
LEMMA ClientAreas ==
  ASSUME ClientsOK
  PROVE  /\ \A c \in held : Good(c) /\ Aligned(c.start) /\ c \in phys_range /\ c \in virt_range
         /\ \A m \in mapped : /\ Good(m[1]) /\ Aligned(m[1].start) /\ m[1] \in phys_range
                              /\ Good(m[2]) /\ Aligned(m[2].start) /\ m[2] \in virt_range
                              /\ m[1] \in pheld /\ m[2] \in vheld
<1>1. \A m \in mapped : m[1] \in pheld /\ m[2] \in vheld
  BY DEF ClientsOK
<1> QED BY <1>1, Zenon DEF ClientsOK

LEMMA WantedApart ==
  ASSUME CleanRequests, ClientsOK, NEW p, NEW v, Good(p), Good(v), Aligned(p.start),
         Aligned(v.start), \A c \in held : Apart(c, v), \A m \in mapped : Apart(m[2], v)
  PROVE  \A t \in Wanted(held, mapped) : Separate(t, Maps(p, v))
<1> SUFFICES ASSUME NEW t \in Wanted(held, mapped) PROVE Separate(t, Maps(p, v))
  OBVIOUS
<1>1. (\E c \in held : t = Maps(c, c)) \/ (\E m \in mapped : t = Maps(m[1], m[2]))
  BY Zenon DEF Wanted
<1>2. ASSUME NEW c \in held PROVE Separate(Maps(c, c), Maps(p, v))
  BY MapsApart, ClientAreas, Zenon
<1>3. ASSUME NEW m \in mapped PROVE Separate(Maps(m[1], m[2]), Maps(p, v))
  BY MapsApart, ClientAreas, Zenon
<1> QED BY <1>1, <1>2, <1>3, Zenon

LEMMA StartsInCell ==
  ASSUME CleanRequests, NEW rs, ListOK(rs)
  PROVE  \A r \in rs : r.start \in Cell
<1>1. /\ AddrMod \in Nat /\ PageSize \in Nat \ {0}
  BY Sizes
<1> SUFFICES ASSUME NEW r \in rs PROVE r.start \in Cell
  OBVIOUS
<1>2. CASE Good(r)
  BY <1>1, <1>2 DEF Good, Clear, Cell
<1>3. CASE Stray(r)
  <2>1. NONE \in Cell
    BY RangeOpsAssumption DEF NONE, Cell
  <2> QED BY <1>3, <2>1, StrayStart, Zenon
<1> QED BY <1>2, <1>3, Zenon DEF ListOK

\* ofmem_update_translations, with the list of which the list of claimed
\* physical memory is afterwards a part.
LEMMA PublishKeeps ==
  ASSUME CleanRequests, AvailableNotClaimed, UNCHANGED registered, registered \in BOOLEAN,
         NEW pr, NEW ts, Publish(pr, ts), PhysOK(pr), phys_range' \subseteq pr
  PROVE  AvailableNotClaimed'
<1>1. SUFFICES ASSUME registered PROVE CellsOf(available') \cap CellsOf(phys_range') = {}
  BY Zenon DEF AvailableNotClaimed
<1>2. available' = AvailableEntries(pr, RamSize - 1)
  BY <1>1, Zenon DEF Publish
<1>3. CellsOf(phys_range') \subseteq CellsOf(pr)
  BY Zenon DEF CellsOf
<1>4. CellsOf(AvailableEntries(pr, RamSize - 1)) \cap CellsOf(pr) = {}
  BY AvailableGaps, Zenon
<1> QED BY <1>2, <1>3, <1>4, Zenon

\* The end of ofmem_claim, for a page-aligned area.
LEMMA MapClaimIs ==
  ASSUME CleanRequests, NEW addr \in Nat, NEW a \in Nat, NEW size \in Nat, NEW pr,
         Aligned(addr), Aligned(a), Clear(a, size), MapClaim(addr, a, a, size, pr)
  PROVE  /\ trans' = Map(a, a, size, trans) /\ Publish(pr, trans')
         /\ held' = held \cup {Entry(a, size)}
<1>1. /\ AddrMod \in Nat /\ PageSize \in Nat \ {0}
  BY Sizes
<1>2. a % PageSize = 0 /\ addr % PageSize = 0
  BY Zenon DEF Aligned
<1>3. a - 0 = a /\ Wrap(a) = a /\ size + 0 = size /\ Wrap(size) = size /\ a + 0 = a
  BY <1>1 DEF Wrap, Clear
<1> QED BY <1>2, <1>3, Zenon DEF MapClaim

\* A claim of free physical memory.
LEMMA AddPhys ==
  ASSUME CleanRequests, NEW pr, PhysOK(pr), NEW a \in Nat, NEW size \in Nat, Aligned(a),
         Clear(a, size), a < RamSize, is_free(a, size, pr)
  PROVE  /\ add_entry(a, size, pr) = pr \cup {Entry(a, size)} /\ PhysOK(add_entry(a, size, pr))
<1>1. ListOK(pr)
  BY Zenon DEF PhysOK
<1>2. Good(Entry(a, size)) /\ ListOK(add_entry(a, size, pr))
  BY <1>1, AddGood, Zenon
<1>3. add_entry(a, size, pr) = pr \cup {Entry(a, size)}
  BY Zenon DEF add_entry, Entry
<1>4. Entry(a, size).start = a
  BY Zenon DEF Entry
<1> QED BY <1>2, <1>3, <1>4, Zenon DEF PhysOK

\* The searches for physical memory.
LEMMA FoundPhys ==
  ASSUME CleanRequests, NEW pr, PhysOK(pr), NEW size \in AlignedSizes \cup MethodSizes,
         find_area(PageSize, size, pr, 0, RamSize, TRUE) # NONE
  PROVE  LET a == find_area(PageSize, size, pr, 0, RamSize, TRUE)
         IN /\ a \in Nat /\ size \in Nat /\ Aligned(a) /\ Clear(a, size) /\ a < RamSize
            /\ is_free(a, size, pr)
<1> DEFINE a == find_area(PageSize, size, pr, 0, RamSize, TRUE)
<1>1. size \in Cell /\ RamSize \in Cell
  BY OfmemAssumption, Zenon
<1>2. 0 < size /\ size <= RamSize /\ RamSize <= AddrMod - PageSize
  BY Zenon DEF CleanRequests
<1>3. \A r \in pr : r.start \in Cell
  BY StartsInCell, Zenon DEF PhysOK
<1>4. a \in Nat /\ Aligned(a) /\ a + size <= RamSize /\ is_free(a, size, pr)
  BY <1>1, <1>2, <1>3, FoundArea, Zenon
<1>5. AddrMod \in Nat /\ PageSize \in Nat
  BY Sizes
<1> HIDE DEF a
<1>6. Clear(a, size) /\ a < RamSize /\ size \in Nat
  BY <1>1, <1>2, <1>4, <1>5 DEF Clear, Cell
<1> QED BY <1>4, <1>6, Zenon DEF a

\* A claim of one area in both lists, with a translation.
LEMMA ClaimKeeps ==
  ASSUME CleanRequests, ClaimInv, NEW a \in Nat, NEW size \in Nat, Aligned(a),
         Clear(a, size), a < RamSize, is_free(a, size, phys_range), is_free(a, size, virt_range),
         phys_range' = add_entry(a, size, phys_range),
         virt_range' = add_entry(a, size, virt_range),
         trans' = Map(a, a, size, trans), Publish(phys_range', trans'),
         held' = held \cup {Entry(a, size)}, UNCHANGED <<registered, method_vars>>
  PROVE  ClaimInv'
<1> DEFINE e == Entry(a, size)
<1>0. /\ registered \in BOOLEAN /\ PhysOK(phys_range) /\ ListOK(virt_range) /\ ClientsOK
      /\ TransFor(trans, Wanted(held, mapped)) /\ AvailableNotClaimed /\ ListOK(phys_range)
  BY Zenon DEF ClaimInv, TransOK, PhysOK
<1>1. phys_range' = phys_range \cup {e} /\ PhysOK(phys_range')
  BY <1>0, AddPhys, Zenon
<1>2. virt_range' = virt_range \cup {e} /\ ListOK(virt_range')
  <2>1. virt_range' = virt_range \cup {e}
    BY Zenon DEF add_entry, Entry
  <2>2. ListOK(add_entry(a, size, virt_range))
    BY <1>0, AddGood, Zenon
  <2> QED BY <2>1, <2>2, Zenon
<1>3. e \notin phys_range /\ e \notin virt_range /\ Good(e) /\ e.start = a /\ e.size = size
  BY <1>0, AddGood, Zenon DEF Entry
<1>4. \A r \in virt_range : Good(r) => Apart(r, e)
  BY <1>0, IsFreeApart, Zenon
<1>5. /\ registered' = registered /\ pheld' = pheld /\ vheld' = vheld /\ mapped' = mapped
  BY DEF method_vars
<1> HIDE DEF e
<1>6. ClientsOK'
  <2>1. held' = held \cup {e}
    BY Zenon DEF e
  <2>2. /\ held' \subseteq phys_range' \cap virt_range'
        /\ pheld' \subseteq phys_range' /\ vheld' \subseteq virt_range'
        /\ held' \cap pheld' = {} /\ held' \cap vheld' = {}
    BY <1>0, <1>1, <1>2, <1>3, <1>5, <2>1, ZenonT(60) DEF ClientsOK
  <2>3. \A c \in held' \cup pheld' \cup vheld' : Good(c) /\ Aligned(c.start)
    BY <1>0, <1>3, <1>5, <2>1, Zenon DEF ClientsOK
  <2>4. /\ mapped' \subseteq pheld' \X vheld'
        /\ \A m \in mapped' : m[1].size = m[2].size
        /\ \A m, n \in mapped' : m # n => m[1] # n[1] /\ m[2] # n[2]
    BY <1>0, <1>5, Zenon DEF ClientsOK
  <2> QED BY <2>2, <2>3, <2>4, Zenon DEF ClientsOK
<1>7. TransOK'
  <2>1. \A t \in Wanted(held, mapped) : Separate(t, Maps(e, e))
    BY <1>0, <1>3, <1>4, ClientAreas, WantedApart, Zenon
  <2>2. TransFor(Map(e.start, e.start, e.size, trans), Wanted(held, mapped) \cup {Maps(e, e)})
    BY <1>0, <1>3, <2>1, MapKeeps, Zenon
  <2>3. Wanted(held', mapped') = Wanted(held, mapped) \cup {Maps(e, e)}
    BY <1>5, Zenon DEF Wanted, e
  <2>4. trans' = Map(e.start, e.start, e.size, trans)
    BY <1>3, Zenon
  <2> QED BY <2>2, <2>3, <2>4, Zenon DEF TransOK
<1>8. AvailableNotClaimed'
  BY <1>0, <1>1, <1>5, PublishKeeps, Zenon
<1> QED BY <1>0, <1>1, <1>2, <1>5, <1>6, <1>7, <1>8, Zenon DEF ClaimInv

\* More of either list claimed, and no change for the clients.
LEMMA MoreClaimed ==
  ASSUME CleanRequests, ClaimInv, PhysOK(phys_range'), ListOK(virt_range'),
         phys_range \subseteq phys_range', virt_range \subseteq virt_range',
         Publish(phys_range', trans), UNCHANGED <<trans, held, registered, method_vars>>
  PROVE  ClaimInv'
<1>0. /\ registered \in BOOLEAN /\ ClientsOK /\ TransOK /\ AvailableNotClaimed
  BY Zenon DEF ClaimInv
<1>1. /\ registered' = registered /\ pheld' = pheld /\ vheld' = vheld /\ mapped' = mapped
      /\ trans' = trans /\ held' = held
  BY DEF method_vars
<1>2. ClientsOK'
  BY <1>0, <1>1, Zenon DEF ClientsOK
<1>3. TransOK'
  BY <1>0, <1>1, Zenon DEF TransOK
<1>4. AvailableNotClaimed'
  BY <1>0, <1>1, PublishKeeps, Zenon
<1> QED BY <1>0, <1>1, <1>2, <1>3, <1>4, Zenon DEF ClaimInv

-----------------------------------------------------------------------------
\* Every operation keeps the invariant.
LEMMA ClaimFixedKeeps ==
  ASSUME CleanRequests, ClaimInv, NEW addr \in FixedAddrs, NEW size \in FixedSizes,
         ofmem_claim_fixed(addr, size)
  PROVE  ClaimInv'
<1>1. addr \in Nat /\ size \in Nat
  BY OfmemAssumption DEF Cell
<1>2. Aligned(addr) /\ Clear(addr, size)
  BY Zenon DEF CleanRequests
<1>3. /\ is_free(addr, size, virt_range) /\ is_free(addr, size, phys_range) /\ addr < RamSize
      /\ phys_range' = add_entry(addr, size, phys_range)
      /\ virt_range' = add_entry(addr, size, virt_range)
      /\ MapClaim(addr, addr, addr, size, phys_range')
      /\ UNCHANGED <<registered, method_vars>>
  BY Zenon DEF ofmem_claim_fixed
<1>4. /\ trans' = Map(addr, addr, size, trans) /\ Publish(phys_range', trans')
      /\ held' = held \cup {Entry(addr, size)}
  BY <1>1, <1>2, <1>3, MapClaimIs, Zenon
<1> QED BY <1>1, <1>2, <1>3, <1>4, ClaimKeeps, Zenon

LEMMA ClaimAlignedKeeps ==
  ASSUME CleanRequests, ClaimInv, NEW addr \in AlignedAddrs, NEW size \in AlignedSizes,
         ofmem_claim_aligned(addr, size)
  PROVE  ClaimInv'
<1> DEFINE a    == find_area(PageSize, size, phys_range, 0, RamSize, TRUE)
           virt == IF is_free(a, size, virt_range) THEN a ELSE NONE
           pr   == IF a = NONE THEN phys_range ELSE add_entry(a, size, phys_range)
<1>1. /\ phys_range' = pr /\ virt_range' = add_entry(a, size, virt_range)
      /\ IF a = NONE \/ virt = NONE
         THEN Publish(pr, trans) /\ UNCHANGED <<trans, held>>
         ELSE MapClaim(addr, a, virt, size, pr)
      /\ UNCHANGED <<registered, method_vars>>
  BY Zenon DEF ofmem_claim_aligned
<1>2. PhysOK(phys_range) /\ ListOK(virt_range)
  BY Zenon DEF ClaimInv
<1>3. a # NONE => /\ a \in Nat /\ size \in Nat /\ Aligned(a) /\ Clear(a, size) /\ a < RamSize
                  /\ is_free(a, size, phys_range)
  BY <1>2, FoundPhys, Zenon
<1>4. addr \in Nat /\ Aligned(addr) /\ size \in Cell
  BY OfmemAssumption DEF Cell, CleanRequests
<1> HIDE DEF a
<1>5. CASE a = NONE
  <2>1. phys_range' = phys_range
    BY <1>1, <1>5, Zenon
  <2>2. ListOK(virt_range') /\ virt_range \subseteq virt_range'
    BY <1>1, <1>2, <1>4, <1>5, AddStray, Zenon
  <2>3. Publish(phys_range', trans) /\ UNCHANGED <<trans, held, registered, method_vars>>
    <3>1. Publish(pr, trans) /\ UNCHANGED <<trans, held>>
      BY <1>1, <1>5, Zenon
    <3> QED BY <1>1, <3>1, Zenon
  <2>4. PhysOK(phys_range') /\ phys_range \subseteq phys_range'
    BY <1>2, <2>1, Zenon
  <2> QED BY <2>2, <2>3, <2>4, MoreClaimed, Zenon
<1>6. CASE a # NONE /\ ~is_free(a, size, virt_range)
  <2>1. phys_range' = add_entry(a, size, phys_range)
    BY <1>1, <1>6, Zenon
  <2>2. PhysOK(phys_range') /\ phys_range \subseteq phys_range'
    <3>1. PhysOK(add_entry(a, size, phys_range))
      BY <1>2, <1>3, <1>6, AddPhys, Zenon
    <3>2. phys_range \subseteq add_entry(a, size, phys_range)
      BY Zenon DEF add_entry
    <3> QED BY <2>1, <3>1, <3>2, Zenon
  <2>3. virt_range' = virt_range
    BY <1>1, <1>6, Zenon DEF add_entry
  <2>4. Publish(phys_range', trans) /\ UNCHANGED <<trans, held, registered, method_vars>>
    <3>1. Publish(pr, trans) /\ UNCHANGED <<trans, held>>
      BY <1>1, <1>6, Zenon
    <3> QED BY <1>1, <3>1, Zenon
  <2>5. ListOK(virt_range') /\ virt_range \subseteq virt_range'
    BY <1>2, <2>3, Zenon
  <2> QED BY <2>2, <2>4, <2>5, MoreClaimed, Zenon
<1>7. CASE a # NONE /\ is_free(a, size, virt_range)
  <2>1. phys_range' = add_entry(a, size, phys_range) /\ pr = phys_range'
    BY <1>1, <1>7, Zenon
  <2>2. virt = a
    BY <1>7, Zenon
  <2> HIDE DEF pr, virt
  <2>3. MapClaim(addr, a, a, size, phys_range')
    BY <1>1, <1>7, <2>1, <2>2, Zenon
  <2>4. /\ trans' = Map(a, a, size, trans) /\ Publish(phys_range', trans')
        /\ held' = held \cup {Entry(a, size)}
    BY <1>3, <1>4, <1>7, <2>3, MapClaimIs, Zenon
  <2>5. virt_range' = add_entry(a, size, virt_range) /\ UNCHANGED <<registered, method_vars>>
    BY <1>1, Zenon
  <2> QED BY <1>3, <1>7, <2>1, <2>4, <2>5, ClaimKeeps, Zenon
<1> QED BY <1>5, <1>6, <1>7, Zenon

LEMMA ReleaseKeeps ==
  ASSUME CleanRequests, ClaimInv, NEW c \in held, ofmem_release(c)
  PROVE  ClaimInv'
<1>0. /\ registered \in BOOLEAN /\ PhysOK(phys_range) /\ ListOK(virt_range) /\ ClientsOK
      /\ TransFor(trans, Wanted(held, mapped)) /\ AvailableNotClaimed /\ ListOK(phys_range)
  BY Zenon DEF ClaimInv, TransOK, PhysOK
<1>1. Good(c) /\ Aligned(c.start) /\ c \in phys_range /\ c \in virt_range
  BY <1>0, ClientAreas, Zenon
<1>2. Maps(c, c) \in Wanted(held, mapped) /\ Maps(c, c) \in trans /\ Orderly(trans)
  BY <1>0, Zenon DEF Wanted, TransFor
<1>3. Translate(c.start, trans) = c.start /\ c.start # NONE
  <2>1. /\ c.start \in Nat /\ c.size \in Nat /\ 0 < c.size /\ AddrMod \in Nat /\ PageSize \in Nat \ {0}
        /\ c.start + c.size <= AddrMod - PageSize
    BY <1>1, Sizes DEF Good, Clear
  <2>2. c.start <= c.start /\ c.start < c.start + c.size /\ c.start # NONE
        /\ c.start + (c.start - c.start) = c.start
    BY <2>1 DEF NONE
  <2>3. ASSUME NEW x \in Nat, c.start <= x, x < c.start + c.size
        PROVE  Translate(x, trans) = c.start + (x - c.start)
    BY <1>1, <1>2, <2>3, TranslateIs
  <2> QED BY <2>1, <2>2, <2>3, Zenon
<1>4. /\ held' = held \ {c} /\ trans' = Unmap(c.start, c.size, trans)
      /\ Publish(phys_range, trans')
      /\ virt_range' = remove_range(c.start, c.size, virt_range)
      /\ phys_range' = remove_range(c.start, c.size, phys_range)
      /\ UNCHANGED <<registered, method_vars>>
  BY <1>3, Zenon DEF ofmem_release
<1>5. phys_range' = phys_range \ {c} /\ virt_range' = virt_range \ {c} /\ ListOK(virt_range')
  BY <1>0, <1>1, <1>4, RemoveGood, Zenon
<1>6. PhysOK(phys_range')
  BY <1>0, <1>5, Zenon DEF PhysOK, ListOK
<1>7. /\ registered' = registered /\ pheld' = pheld /\ vheld' = vheld /\ mapped' = mapped
  BY <1>4 DEF method_vars
<1>8. ClientsOK'
  <2>1. /\ held' \subseteq phys_range' \cap virt_range'
        /\ pheld' \subseteq phys_range' /\ vheld' \subseteq virt_range'
        /\ held' \cap pheld' = {} /\ held' \cap vheld' = {}
    BY <1>0, <1>4, <1>5, <1>7, Zenon DEF ClientsOK
  <2>2. \A d \in held' \cup pheld' \cup vheld' : Good(d) /\ Aligned(d.start)
    BY <1>0, <1>4, <1>7, Zenon DEF ClientsOK
  <2>3. /\ mapped' \subseteq pheld' \X vheld'
        /\ \A m \in mapped' : m[1].size = m[2].size
        /\ \A m, n \in mapped' : m # n => m[1] # n[1] /\ m[2] # n[2]
    BY <1>0, <1>7, Zenon DEF ClientsOK
  <2> QED BY <2>1, <2>2, <2>3, Zenon DEF ClientsOK
<1>9. Wanted(held', mapped') = Wanted(held, mapped) \ {Maps(c, c)}
  <2>1. ASSUME NEW d \in held, d # c PROVE Maps(d, d) # Maps(c, c)
    <3>1. Apart(d, c) /\ Good(d) /\ Aligned(d.start)
      BY <1>0, <1>1, <2>1, ClientAreas, Zenon DEF ListOK
    <3> QED BY <1>1, <3>1, MapsDiffer, Zenon
  <2>2. ASSUME NEW m \in mapped PROVE Maps(m[1], m[2]) # Maps(c, c)
    <3>1. m[2] # c
      BY <1>0, ClientAreas, Zenon DEF ClientsOK
    <3>2. Apart(m[2], c) /\ Good(m[2]) /\ Aligned(m[2].start) /\ Good(m[1]) /\ Aligned(m[1].start)
      BY <1>0, <1>1, <3>1, ClientAreas, Zenon DEF ListOK
    <3> QED BY <1>1, <3>2, MapsDiffer, Zenon
  <2> QED BY <1>4, <1>7, <2>1, <2>2, Zenon DEF Wanted
<1>10. TransOK'
  <2>1. TransFor(trans', Wanted(held, mapped) \ {Maps(c, c)})
    BY <1>0, <1>1, <1>2, <1>4, UnmapKeeps, Zenon
  <2> QED BY <1>9, <2>1, Zenon DEF TransOK
<1>11. AvailableNotClaimed'
  <2>1. phys_range' \subseteq phys_range
    BY <1>5, Zenon
  <2> QED BY <1>0, <1>4, <1>7, <2>1, PublishKeeps, Zenon
<1> QED BY <1>0, <1>5, <1>6, <1>7, <1>8, <1>10, <1>11, Zenon DEF ClaimInv

LEMMA MemClaimKeeps ==
  ASSUME CleanRequests, ClaimInv, NEW size \in MethodSizes, mem_claim(size)
  PROVE  ClaimInv'
<1> DEFINE a == find_area(PageSize, size, phys_range, 0, RamSize, TRUE)
           e == Entry(a, size)
<1>0. /\ registered \in BOOLEAN /\ PhysOK(phys_range) /\ ListOK(virt_range) /\ ClientsOK
      /\ TransOK /\ AvailableNotClaimed /\ ListOK(phys_range)
  BY Zenon DEF ClaimInv, PhysOK
<1>1. /\ a # NONE /\ phys_range' = add_entry(a, size, phys_range)
      /\ pheld' = pheld \cup {e} /\ Publish(phys_range', trans)
      /\ UNCHANGED <<virt_range, trans, registered, held, vheld, mapped>>
  BY Zenon DEF mem_claim
<1>2. /\ a \in Nat /\ size \in Nat /\ Aligned(a) /\ Clear(a, size) /\ a < RamSize
      /\ is_free(a, size, phys_range)
  BY <1>0, <1>1, FoundPhys, Zenon
<1> HIDE DEF a
<1>3. e \notin phys_range /\ Good(e) /\ e.start = a
  BY <1>0, <1>2, AddGood, Zenon DEF Entry
<1>4. PhysOK(phys_range')
  BY <1>0, <1>1, <1>2, AddPhys, Zenon
<1>5. phys_range' = phys_range \cup {e}
  BY <1>1, <1>2, Zenon DEF add_entry, Entry
<1>6. /\ virt_range' = virt_range /\ trans' = trans /\ registered' = registered
      /\ held' = held /\ vheld' = vheld /\ mapped' = mapped
  BY <1>1
<1> HIDE DEF e
<1>7. ClientsOK'
  <2>1. /\ held' \subseteq phys_range' \cap virt_range'
        /\ pheld' \subseteq phys_range' /\ vheld' \subseteq virt_range'
        /\ held' \cap pheld' = {} /\ held' \cap vheld' = {}
    BY <1>0, <1>1, <1>3, <1>5, <1>6, Zenon DEF ClientsOK
  <2>2. \A c \in held' \cup pheld' \cup vheld' : Good(c) /\ Aligned(c.start)
    BY <1>0, <1>1, <1>2, <1>3, <1>6, Zenon DEF ClientsOK
  <2>3. mapped' \subseteq pheld' \X vheld'
    BY <1>0, <1>1, <1>6 DEF ClientsOK
  <2>4. /\ \A m \in mapped' : m[1].size = m[2].size
        /\ \A m, n \in mapped' : m # n => m[1] # n[1] /\ m[2] # n[2]
    BY <1>0, <1>6, Zenon DEF ClientsOK
  <2> QED BY <2>1, <2>2, <2>3, <2>4, Zenon DEF ClientsOK
<1>8. TransOK'
  BY <1>0, <1>6, Zenon DEF TransOK
<1>9. AvailableNotClaimed'
  BY <1>0, <1>1, <1>4, <1>6, PublishKeeps, Zenon
<1> QED BY <1>0, <1>4, <1>6, <1>7, <1>8, <1>9, Zenon DEF ClaimInv

LEMMA MmuClaimKeeps ==
  ASSUME CleanRequests, ClaimInv, NEW size \in MethodSizes, mmu_claim(size)
  PROVE  ClaimInv'
<1> DEFINE a == find_area(PageSize, size, virt_range, RamSize, VirtTop, TRUE)
           e == Entry(a, size)
<1>0. /\ registered \in BOOLEAN /\ PhysOK(phys_range) /\ ListOK(virt_range) /\ ClientsOK
      /\ TransOK /\ AvailableNotClaimed
  BY Zenon DEF ClaimInv
<1>1. /\ a # NONE /\ virt_range' = add_entry(a, size, virt_range)
      /\ vheld' = vheld \cup {e} /\ Publish(phys_range, trans)
      /\ UNCHANGED <<phys_range, trans, registered, held, pheld, mapped>>
  BY Zenon DEF mmu_claim
<1>2. a \in Nat /\ size \in Nat /\ Aligned(a) /\ Clear(a, size) /\ is_free(a, size, virt_range)
  <2>1. size \in Cell /\ VirtTop \in Cell
    BY OfmemAssumption, Zenon
  <2>2. 0 < size /\ size <= VirtTop /\ VirtTop <= AddrMod - PageSize
    BY Zenon DEF CleanRequests
  <2>3. \A r \in virt_range : r.start \in Cell
    BY <1>0, StartsInCell, Zenon
  <2>4. a \in Nat /\ Aligned(a) /\ a + size <= VirtTop /\ is_free(a, size, virt_range)
    BY <1>1, <2>1, <2>2, <2>3, FoundArea, Zenon
  <2>5. AddrMod \in Nat /\ PageSize \in Nat
    BY Sizes
  <2> HIDE DEF a
  <2>6. Clear(a, size) /\ size \in Nat
    BY <2>1, <2>2, <2>4, <2>5 DEF Clear, Cell
  <2> QED BY <2>4, <2>6, Zenon
<1> HIDE DEF a
<1>3. e \notin virt_range /\ Good(e) /\ e.start = a
  BY <1>0, <1>2, AddGood, Zenon DEF Entry
<1>4. ListOK(virt_range')
  BY <1>0, <1>1, <1>2, AddGood, Zenon
<1>5. virt_range' = virt_range \cup {e}
  BY <1>1, <1>2, Zenon DEF add_entry, Entry
<1>6. /\ phys_range' = phys_range /\ trans' = trans /\ registered' = registered
      /\ held' = held /\ pheld' = pheld /\ mapped' = mapped
  BY <1>1
<1> HIDE DEF e
<1>7. ClientsOK'
  <2>1. /\ held' \subseteq phys_range' \cap virt_range'
        /\ pheld' \subseteq phys_range' /\ vheld' \subseteq virt_range'
        /\ held' \cap pheld' = {} /\ held' \cap vheld' = {}
    BY <1>0, <1>1, <1>3, <1>5, <1>6, Zenon DEF ClientsOK
  <2>2. \A c \in held' \cup pheld' \cup vheld' : Good(c) /\ Aligned(c.start)
    BY <1>0, <1>1, <1>2, <1>3, <1>6, Zenon DEF ClientsOK
  <2>3. mapped' \subseteq pheld' \X vheld'
    BY <1>0, <1>1, <1>6 DEF ClientsOK
  <2>4. /\ \A m \in mapped' : m[1].size = m[2].size
        /\ \A m, n \in mapped' : m # n => m[1] # n[1] /\ m[2] # n[2]
    BY <1>0, <1>6, Zenon DEF ClientsOK
  <2> QED BY <2>1, <2>2, <2>3, <2>4, Zenon DEF ClientsOK
<1>8. TransOK'
  BY <1>0, <1>6, Zenon DEF TransOK
<1>9. AvailableNotClaimed'
  BY <1>0, <1>1, <1>6, PublishKeeps, Zenon
<1> QED BY <1>0, <1>4, <1>6, <1>7, <1>8, <1>9, Zenon DEF ClaimInv

LEMMA MmuMapKeeps ==
  ASSUME CleanRequests, ClaimInv, NEW p \in pheld, NEW v \in vheld, mmu_map(p, v)
  PROVE  ClaimInv'
<1>0. /\ registered \in BOOLEAN /\ PhysOK(phys_range) /\ ListOK(virt_range) /\ ClientsOK
      /\ TransFor(trans, Wanted(held, mapped)) /\ AvailableNotClaimed
  BY Zenon DEF ClaimInv, TransOK
<1>1. /\ p.size = v.size /\ \A m \in mapped : m[1] # p /\ m[2] # v
      /\ trans' = Map(p.start, v.start, v.size, trans)
      /\ mapped' = mapped \cup {<<p, v>>} /\ Publish(phys_range, trans')
  BY Zenon DEF mmu_map
<1>2. /\ phys_range' = phys_range /\ virt_range' = virt_range /\ registered' = registered
      /\ held' = held /\ pheld' = pheld /\ vheld' = vheld
  BY DEF mmu_map, ranges_vars
<1>3. /\ Good(p) /\ Aligned(p.start) /\ Good(v) /\ Aligned(v.start) /\ v \in virt_range
  BY <1>0, Zenon DEF ClientsOK
<1>4. <<p, v>>[1] = p /\ <<p, v>>[2] = v
  OBVIOUS
<1>5. ClientsOK'
  <2>1. mapped' \subseteq pheld' \X vheld'
    BY <1>0, <1>1, <1>2 DEF ClientsOK
  <2>2. ASSUME NEW m \in mapped' PROVE m[1].size = m[2].size
    BY <1>0, <1>1, <1>4, Zenon DEF ClientsOK
  <2>3. ASSUME NEW m \in mapped', NEW n \in mapped', m # n PROVE m[1] # n[1] /\ m[2] # n[2]
    BY <1>0, <1>1, <1>4, <2>3, Zenon DEF ClientsOK
  <2> QED BY <1>0, <1>2, <2>1, <2>2, <2>3, Zenon DEF ClientsOK
<1>6. TransOK'
  <2>1. \A c \in held : Apart(c, v)
    BY <1>0, <1>3, ClientAreas, Zenon DEF ClientsOK, ListOK
  <2>2. \A m \in mapped : Apart(m[2], v)
    BY <1>0, <1>1, <1>3, ClientAreas, Zenon DEF ListOK
  <2>3. \A t \in Wanted(held, mapped) : Separate(t, Maps(p, v))
    BY <1>0, <1>3, <2>1, <2>2, WantedApart, Zenon
  <2>4. TransFor(trans', Wanted(held, mapped) \cup {Maps(p, v)})
    BY <1>0, <1>1, <1>3, <2>3, MapKeeps, Zenon
  <2>5. Wanted(held', mapped') = Wanted(held, mapped) \cup {Maps(p, v)}
    BY <1>1, <1>2, <1>4, Zenon DEF Wanted
  <2> QED BY <2>4, <2>5, Zenon DEF TransOK
<1>7. AvailableNotClaimed'
  BY <1>0, <1>1, <1>2, PublishKeeps, Zenon
<1> QED BY <1>0, <1>2, <1>5, <1>6, <1>7, Zenon DEF ClaimInv

-----------------------------------------------------------------------------
\* The invariant holds when ofmem_init has run, and always.
LEMMA ClaimInvInit ==
  ASSUME CleanRequests, Init
  PROVE  ClaimInv
<1> DEFINE e  == Entry(0, FreeBase)
           iv == InitVirt \div PageSize
           ip == InitPhys \div PageSize
<1>1. /\ phys_range = {e} /\ virt_range = {e} /\ trans = Map(InitPhys, InitVirt, InitSize, {})
      /\ registered = FALSE /\ held = {} /\ pheld = {} /\ vheld = {} /\ mapped = {}
  BY Zenon DEF Init, InitArea
<1>2. Good(e) /\ e.start = 0 /\ Aligned(0) /\ 0 < RamSize
  <2>1. e.start = 0 /\ e.size = FreeBase
    BY Zenon DEF Entry
  <2>2. AddrMod \in Nat /\ PageSize \in Nat \ {0}
    BY Sizes
  <2>3. FreeBase \in 1 .. RamSize /\ RamSize \in Nat /\ RamSize <= AddrMod - PageSize
    BY OfmemAssumption DEF CleanRequests, Cell
  <2>4. FreeBase \in Nat /\ 0 < FreeBase /\ 0 + FreeBase <= AddrMod - PageSize /\ 0 < RamSize
    BY <2>2, <2>3
  <2>5. Aligned(0)
    BY <2>2 DEF Aligned
  <2>6. 0 \in Nat
    OBVIOUS
  <2> QED BY <2>1, <2>4, <2>5, <2>6, Zenon DEF Good, Clear
<1> HIDE DEF e
<1>3. PhysOK(phys_range) /\ ListOK(virt_range)
  BY <1>1, <1>2, Zenon DEF PhysOK, ListOK
<1>4. ClientsOK
  BY <1>1, Zenon DEF ClientsOK
<1>5. Orderly({})
  BY Zenon DEF Orderly
<1>6. trans = Trans!map_page_range(ip, iv, Count(InitSize), "mode", {})
  BY <1>1, Zenon DEF Map, Count
<1>7. /\ iv \in Nat /\ Count(InitSize) \in Nat /\ ip \in Nat /\ 0 < Count(InitSize)
      /\ iv + Count(InitSize) < NPages /\ NPages \in Nat
  BY InitTransIs, Sizes, Zenon
<1>8. /\ Orderly(trans) /\ \A s \in trans : s = InitTrans
  <2> DEFINE none == {}
             made == Trans!map_page_range(ip, iv, Count(InitSize), "mode", none)
             own  == Trans!T(iv, Count(InitSize), ip, "mode")
  <2>0. Orderly(none) /\ ~\E t \in none : TRUE
    BY <1>5, Zenon
  <2> HIDE DEF iv, ip, none
  <2>1. /\ Orderly(made)
        /\ \A s \in made : s = own \/ (Separate(s, own) /\ \E t \in none : Within(s, t))
    BY <1>7, <2>0, MapPages, Zenon
  <2>2. own = InitTrans
    BY Zenon DEF InitTrans, iv, ip
  <2> HIDE DEF made, own
  <2>3. trans = made
    BY <1>6, Zenon DEF made, none
  <2> QED BY <2>0, <2>1, <2>2, <2>3, Zenon
<1>9. TransOK
  <2>1. Wanted(held, mapped) = {}
    BY <1>1, Zenon DEF Wanted
  <2>2. Within(InitTrans, InitTrans)
    <3>1. InitTrans.virt \in Nat /\ InitTrans.size \in Nat
      BY InitTransIs, Zenon
    <3> QED BY <3>1 DEF Within
  <2> QED BY <1>8, <2>1, <2>2, Zenon DEF TransOK, TransFor
<1>10. AvailableNotClaimed
  BY <1>1, Zenon DEF AvailableNotClaimed
<1> QED BY <1>1, <1>3, <1>4, <1>9, <1>10, Zenon DEF ClaimInv

LEMMA RegisterKeeps ==
  ASSUME CleanRequests, ClaimInv, ofmem_register
  PROVE  ClaimInv'
<1>0. /\ PhysOK(phys_range) /\ ListOK(virt_range) /\ ClientsOK /\ TransOK
  BY Zenon DEF ClaimInv
<1>1. /\ registered' = TRUE /\ available' = AvailableEntries(phys_range, RamSize - 1)
  BY Zenon DEF ofmem_register
<1>2. /\ phys_range' = phys_range /\ virt_range' = virt_range /\ trans' = trans
      /\ held' = held /\ pheld' = pheld /\ vheld' = vheld /\ mapped' = mapped
  BY DEF ofmem_register, ranges_vars, method_vars
<1>3. ClientsOK' /\ TransOK'
  BY <1>0, <1>2, Zenon DEF ClientsOK, TransOK
<1>4. CellsOf(AvailableEntries(phys_range, RamSize - 1)) \cap CellsOf(phys_range) = {}
  BY <1>0, AvailableGaps, Zenon
<1>5. AvailableNotClaimed'
  BY <1>1, <1>2, <1>4, Zenon DEF AvailableNotClaimed
<1> QED BY <1>0, <1>1, <1>2, <1>3, <1>5, Zenon DEF ClaimInv

\* As long as clients ask for whole pages clear of the end of memory, the
\* inductive invariant holds.
THEOREM ClaimInvAlways ==
  ASSUME CleanRequests
  PROVE  Spec => []ClaimInv
<1>1. Init => ClaimInv
  BY ClaimInvInit, Zenon
<1>2. ClaimInv /\ [Next]_ovars => ClaimInv'
  <2> SUFFICES ASSUME ClaimInv, [Next]_ovars PROVE ClaimInv'
    OBVIOUS
  <2>1. CASE ofmem_register
    BY <2>1, RegisterKeeps, Zenon
  <2>2. CASE \E addr \in FixedAddrs, size \in FixedSizes : ofmem_claim_fixed(addr, size)
    BY <2>2, ClaimFixedKeeps, Zenon
  <2>3. CASE \E addr \in AlignedAddrs, size \in AlignedSizes : ofmem_claim_aligned(addr, size)
    BY <2>3, ClaimAlignedKeeps, Zenon
  <2>4. CASE \E c \in held : ofmem_release(c)
    BY <2>4, ReleaseKeeps, Zenon
  <2>5. CASE \E size \in MethodSizes : mem_claim(size) \/ mmu_claim(size)
    BY <2>5, MemClaimKeeps, MmuClaimKeeps, Zenon
  <2>6. CASE \E p \in pheld, v \in vheld : mmu_map(p, v)
    BY <2>6, MmuMapKeeps, Zenon
  <2>7. CASE UNCHANGED ovars
    <3>1. /\ phys_range' = phys_range /\ virt_range' = virt_range /\ trans' = trans
          /\ registered' = registered /\ available' = available
          /\ held' = held /\ pheld' = pheld /\ vheld' = vheld /\ mapped' = mapped
      BY <2>7, Zenon DEF ovars
    <3> QED BY <3>1, Zenon DEF ClaimInv, ClientsOK, TransOK, AvailableNotClaimed
  <2> QED BY <2>1, <2>2, <2>3, <2>4, <2>5, <2>6, <2>7, Zenon DEF Next
<1> QED BY <1>1, <1>2, PTL DEF Spec

-----------------------------------------------------------------------------
\* The uses of memory: pairs of a physical and a virtual area.
Uses == {<<c, c>> : c \in held} \cup mapped

LEMMA UsesAre ==
  ASSUME CleanRequests, ClaimInv
  PROVE  /\ \A u \in Uses : /\ Good(u[1]) /\ Aligned(u[1].start) /\ u[1] \in phys_range
                            /\ Good(u[2]) /\ Aligned(u[2].start) /\ u[1].size = u[2].size
                            /\ Maps(u[1], u[2]) \in trans
         /\ \A u, w \in Uses : u # w => u[1] # w[1]
         /\ \A t \in Wanted(held, mapped) : \E u \in Uses : t = Maps(u[1], u[2])
         /\ \A x : x \in InUse <=> \E u \in Uses : x \in Cells(u[2])
<1>0. ClientsOK /\ TransFor(trans, Wanted(held, mapped))
  BY Zenon DEF ClaimInv, TransOK
<1>1. \A c : <<c, c>>[1] = c /\ <<c, c>>[2] = c
  OBVIOUS
<1>2. ASSUME NEW u \in Uses
      PROVE  /\ Good(u[1]) /\ Aligned(u[1].start) /\ u[1] \in phys_range
             /\ Good(u[2]) /\ Aligned(u[2].start) /\ u[1].size = u[2].size
             /\ Maps(u[1], u[2]) \in trans
  <2>1. CASE u \in mapped
    BY <1>0, <2>1, ClientAreas, Zenon DEF ClientsOK, TransFor, Wanted
  <2>2. CASE \E c \in held : u = <<c, c>>
    <3>1. PICK c \in held : u = <<c, c>>
      BY <2>2
    <3>2. u[1] = c /\ u[2] = c
      BY <1>1, <3>1, Zenon
    <3>3. Good(c) /\ Aligned(c.start) /\ c \in phys_range /\ Maps(c, c) \in trans
      BY <1>0, ClientAreas, Zenon DEF TransFor, Wanted
    <3> QED BY <3>2, <3>3, Zenon
  <2> QED BY <2>1, <2>2, Zenon DEF Uses
<1>3. ASSUME NEW u \in Uses, NEW w \in Uses, u # w PROVE u[1] # w[1]
  <2>1. CASE u \in mapped /\ w \in mapped
    BY <1>0, <1>3, <2>1, Zenon DEF ClientsOK
  <2>2. ASSUME NEW m \in mapped, NEW c \in held PROVE m[1] # c
    BY <1>0, ClientAreas, Zenon DEF ClientsOK
  <2>3. (u \in mapped \/ \E c \in held : u = <<c, c>>)
        /\ (w \in mapped \/ \E c \in held : w = <<c, c>>)
    BY Zenon DEF Uses
  <2>4. CASE \E c \in held : u = <<c, c>>
    <3>1. PICK c \in held : u = <<c, c>>
      BY <2>4
    <3>2. u[1] = c
      BY <1>1, <3>1, Zenon
    <3>3. CASE w \in mapped
      BY <2>2, <3>2, <3>3, Zenon
    <3>4. CASE \E d \in held : w = <<d, d>>
      BY <1>1, <1>3, <3>1, <3>2, <3>4, Zenon
    <3> QED BY <2>3, <3>3, <3>4, Zenon
  <2>5. CASE u \in mapped /\ \E c \in held : w = <<c, c>>
    <3>1. PICK c \in held : w = <<c, c>>
      BY <2>5
    <3>2. w[1] = c
      BY <1>1, <3>1, Zenon
    <3> QED BY <2>2, <2>5, <3>2, Zenon
  <2> QED BY <2>1, <2>3, <2>4, <2>5, Zenon
<1>4. ASSUME NEW t \in Wanted(held, mapped) PROVE \E u \in Uses : t = Maps(u[1], u[2])
  <2>1. CASE \E m \in mapped : t = Maps(m[1], m[2])
    BY <2>1, Zenon DEF Uses
  <2>2. CASE \E c \in held : t = Maps(c, c)
    <3>1. PICK c \in held : t = Maps(c, c)
      BY <2>2
    <3>2. <<c, c>> \in Uses
      BY Zenon DEF Uses
    <3> QED BY <1>1, <3>1, <3>2, Zenon
  <2> QED BY <2>1, <2>2, Zenon DEF Wanted
<1>5. ASSUME NEW x PROVE x \in InUse <=> \E u \in Uses : x \in Cells(u[2])
  <2>1. x \in InUse <=> \/ \E c \in held : x \in Cells(c)
                        \/ \E m \in mapped : x \in Cells(m[2])
    BY Zenon DEF InUse, CellsOf
  <2>2. ASSUME NEW c \in held PROVE <<c, c>> \in Uses
    BY Zenon DEF Uses
  <2>3. \A u \in Uses : u \in mapped \/ \E c \in held : u = <<c, c>>
    BY Zenon DEF Uses
  <2>4. mapped \subseteq Uses
    BY Zenon DEF Uses
  <2> QED BY <1>1, <2>1, <2>2, <2>3, <2>4, ZenonT(60)
<1> QED BY <1>2, <1>3, <1>4, <1>5, Zenon

\* The frame that backs a cell of a use.
LEMMA FrameOf ==
  ASSUME CleanRequests, ClaimInv, NEW u \in Uses, NEW x, x \in Cells(u[2])
  PROVE  /\ x \in Nat /\ u[2].start <= x /\ x < u[2].start + u[2].size
         /\ Translate(x, trans) = u[1].start + (x - u[2].start)
<1>1. /\ Good(u[1]) /\ Aligned(u[1].start) /\ Good(u[2]) /\ Aligned(u[2].start)
      /\ Maps(u[1], u[2]) \in trans
  BY UsesAre, Zenon
<1>2. x \in Nat /\ u[2].start <= x /\ x < u[2].start + u[2].size
  BY <1>1, GoodCells, Zenon
<1>3. Orderly(trans)
  BY Zenon DEF ClaimInv, TransOK, TransFor
<1> DEFINE p == u[1]
           v == u[2]
<1> HIDE DEF p, v
<1>4. Translate(x, trans) = p.start + (x - v.start)
  BY <1>1, <1>2, <1>3, TranslateIs DEF p, v
<1> QED BY <1>2, <1>4, Zenon DEF p, v

LEMMA HeldMapped ==
  ASSUME CleanRequests, ClaimInv
  PROVE  HeldStaysMapped
<1> SUFFICES ASSUME NEW c \in held, NEW x \in Cells(c) PROVE Translate(x, trans) = x
  BY Zenon DEF HeldStaysMapped
<1> DEFINE u == <<c, c>>
<1>1. u \in Uses
  BY Zenon DEF Uses
<1>2. u[1] = c /\ u[2] = c
  OBVIOUS
<1> HIDE DEF u
<1>3. x \in Nat /\ Translate(x, trans) = c.start + (x - c.start)
  BY <1>1, <1>2, FrameOf, Zenon
<1>4. c.start \in Nat
  BY <1>1, <1>2, UsesAre, Zenon DEF Good
<1> QED BY <1>3, <1>4

LEMMA FramesApart ==
  ASSUME CleanRequests, ClaimInv
  PROVE  FramesNotShared
<1> SUFFICES ASSUME NEW x \in InUse, NEW y \in InUse, x # y
             PROVE  Translate(x, trans) # Translate(y, trans)
  BY Zenon DEF FramesNotShared
<1>1. PICK u \in Uses : x \in Cells(u[2])
  BY UsesAre, Zenon
<1>2. PICK w \in Uses : y \in Cells(w[2])
  BY UsesAre, Zenon
<1>3. /\ x \in Nat /\ u[2].start <= x /\ x < u[2].start + u[2].size
      /\ Translate(x, trans) = u[1].start + (x - u[2].start)
  BY <1>1, FrameOf, Zenon
<1>4. /\ y \in Nat /\ w[2].start <= y /\ y < w[2].start + w[2].size
      /\ Translate(y, trans) = w[1].start + (y - w[2].start)
  BY <1>2, FrameOf, Zenon
<1>5. /\ Good(u[1]) /\ Good(w[1]) /\ Good(u[2]) /\ Good(w[2])
      /\ u[1].size = u[2].size /\ w[1].size = w[2].size
      /\ u[1] \in phys_range /\ w[1] \in phys_range
  BY UsesAre, Zenon
<1>6. /\ u[1].start \in Nat /\ w[1].start \in Nat /\ u[2].start \in Nat /\ w[2].start \in Nat
      /\ u[2].size \in Nat /\ w[2].size \in Nat
  BY <1>5, Zenon DEF Good
<1>7. CASE u = w
  BY <1>3, <1>4, <1>6, <1>7
<1>8. CASE u # w
  <2>1. u[1] # w[1]
    BY <1>8, UsesAre, Zenon
  <2>2. Apart(u[1], w[1])
    BY <1>5, <2>1, Zenon DEF ClaimInv, PhysOK, ListOK
  <2> QED BY <1>3, <1>4, <1>5, <1>6, <2>2 DEF Apart
<1> QED BY <1>7, <1>8, Zenon

LEMMA NothingLeftMapped ==
  ASSUME CleanRequests, ClaimInv
  PROVE  NothingElseMapped
<1> DEFINE area    == Entry(InitVirt, InitSize)
           initial == Cells(area)
<1> SUFFICES ASSUME NEW x \in Cell, Translate(x, trans) # NONE
             PROVE  \E y \in InUse \cup initial : y \div PageSize = x \div PageSize
  BY Zenon DEF NothingElseMapped
<1> DEFINE j == x \div PageSize
<1>1. j \in Nat
  <2>1. x \in Nat /\ PageSize \in Nat \ {0}
    BY Sizes DEF Cell
  <2> QED BY <2>1, Division, Zenon
<1>2. Trans!Lookup(trans, j) # Unmapped
  BY Zenon DEF Translate
<1> HIDE DEF j
<1>3. PICK t \in trans : t.virt <= j /\ j < t.virt + t.size
  BY <1>2, LookupMiss, Zenon
<1>4. ASSUME NEW r, Good(r), Aligned(r.start), First(r) <= j, j < First(r) + Count(r.size)
      PROVE  \E y \in Cells(r) : y \div PageSize = j
  <2>1. /\ PageSize * j \in Nat /\ (PageSize * j) \div PageSize = j
        /\ r.start <= PageSize * j /\ PageSize * j < r.start + r.size
    BY <1>1, <1>4, CellOfPage, Zenon
  <2>2. PageSize * j \in Cells(r)
    BY <1>4, <2>1, GoodCells, Zenon
  <2> QED BY <2>1, <2>2, Zenon
<1>5. CASE t \in Wanted(held, mapped)
  <2>1. PICK u \in Uses : t = Maps(u[1], u[2])
    BY <1>5, UsesAre, Zenon
  <2>2. Good(u[1]) /\ Aligned(u[1].start) /\ Good(u[2]) /\ Aligned(u[2].start)
    BY UsesAre, Zenon
  <2>3. t.virt = First(u[2]) /\ t.size = Count(u[2].size)
    <3>1. Maps(u[1], u[2]).virt = First(u[2]) /\ Maps(u[1], u[2]).size = Count(u[2].size)
      BY Zenon DEF Maps, Trans!T
    <3> QED BY <2>1, <3>1, Zenon
  <2>4. \E y \in Cells(u[2]) : y \div PageSize = j
    BY <1>3, <1>4, <2>2, <2>3, Zenon
  <2>5. Cells(u[2]) \subseteq InUse
    BY UsesAre, Zenon
  <2> QED BY <2>4, <2>5, Zenon DEF j
<1>6. CASE t \notin Wanted(held, mapped)
  <2>1. Within(t, InitTrans) /\ t.virt \in Nat /\ t.size \in Nat
    BY <1>6, Zenon DEF ClaimInv, TransOK, TransFor, Orderly
  <2>2. /\ InitTrans.virt = InitVirt \div PageSize /\ InitTrans.size = Count(InitSize)
        /\ InitTrans.virt \in Nat /\ InitTrans.size \in Nat /\ Good(area) /\ Aligned(InitVirt)
    BY InitTransIs, Zenon
  <2>3. InitTrans.virt <= j /\ j < InitTrans.virt + InitTrans.size
    BY <1>1, <1>3, <2>1, <2>2 DEF Within
  <2>4. area.start = InitVirt /\ area.size = InitSize
    BY Zenon DEF Entry
  <2> HIDE DEF area
  <2>5. First(area) <= j /\ j < First(area) + Count(area.size) /\ Aligned(area.start)
    BY <2>2, <2>3, <2>4, Zenon DEF First
  <2>6. \E y \in Cells(area) : y \div PageSize = j
    BY <1>4, <2>2, <2>5, Zenon
  <2> QED BY <2>6, Zenon DEF j
<1> QED BY <1>5, <1>6, Zenon

-----------------------------------------------------------------------------
\* A page is mapped from the call of ofmem_claim that returned it until it is
\* released, and no longer, whatever other clients claim, map and release, for
\* every width of address, page size and size of memory: as long as clients ask
\* for whole pages clear of the end of memory.
THEOREM AlwaysMappedWhileHeld ==
  ASSUME CleanRequests
  PROVE  Spec => []MappedWhileHeld
<1>1. ClaimInv => MappedWhileHeld
  BY HeldMapped, NothingLeftMapped, Zenon DEF MappedWhileHeld
<1>2. Spec => []ClaimInv
  BY ClaimInvAlways, Zenon
<1> QED BY <1>1, <1>2, PTL

\* No frame backs two virtual addresses that clients use, whether it came from
\* ofmem_claim or from the claim method of the memory node.
THEOREM FramesNeverShared ==
  ASSUME CleanRequests
  PROVE  Spec => []FramesNotShared
<1>1. ClaimInv => FramesNotShared
  BY FramesApart, Zenon
<1>2. Spec => []ClaimInv
  BY ClaimInvAlways, Zenon
<1> QED BY <1>1, <1>2, PTL

\* ofmem_update_memory_available never offers memory that is claimed, also when
\* it runs before the ranges of a release are removed.
THEOREM AvailableNeverClaimed ==
  ASSUME CleanRequests
  PROVE  Spec => []AvailableNotClaimed
<1>1. ClaimInv => AvailableNotClaimed
  BY Zenon DEF ClaimInv
<1>2. Spec => []ClaimInv
  BY ClaimInvAlways, Zenon
<1> QED BY <1>1, <1>2, PTL
=============================================================================
