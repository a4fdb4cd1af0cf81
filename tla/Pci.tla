---------------------------------- MODULE Pci ----------------------------------
(***************************************************************************)
(* Configuring the PCI buses (drivers/pci.c): ob_pci_init walks the tree   *)
(* of functions below the host bridge once, depth first, and hands out     *)
(* addresses and bus numbers from three counters; and the unit addresses   *)
(* of PCI nodes, which encode-unit writes and decode-unit reads.           *)
(*                                                                         *)
(* A memory unit stands for 32K and an I/O unit for 64 ports, so that the  *)
(* least alignment of a base address register (BAR) is two units.          *)
(***************************************************************************)
EXTENDS Integers, Sequences, SequencesExt, FiniteSets, FiniteSetsExt, Tasks

CONSTANTS
  PciAfter64,     \* BARs behind a 64-bit one, which are not prefetchable?
  PciBridgeRom,   \* bridges with an expansion ROM?
  PciNestedSabre, \* bridges below the bridges of a sabre?
  PciUnitLo       \* low words of unit addresses

MB == 8           \* the alignment of a memory window
K4 == 8           \* the alignment of an I/O window
MinAlign == 2
IoStart == 2      \* io_base = 0x400
MemStart == 1024  \* pci_mem_base, beyond all I/O addresses

AlignUp(x, n) == ((x + n - 1) \div n) * n

-----------------------------------------------------------------------------
(* One function.  s holds the counters, what is assigned so far (fns), and *)
(* for the function at hand its BARs and the bits of the last one (omask). *)


Omask(bar, io) ==
  IF io \/ bar.type = "rom" THEN 1
  ELSE CASE bar.type = "mem" -> 0 [] bar.type = "mem64" -> 4 [] bar.type = "pref64" -> 12

ob_pci_configure_bar_NoRound(s, reg, bar) ==
  IF s.omask = 4 \/ bar.type = "none"
  THEN s
  ELSE LET io   == bar.type = "io" \/ (bar.type = "rom" /\ reg # 6)
           base == IF io THEN s.io ELSE s.mem
           end  == base + Max({bar.size, MinAlign})
       IN  [s EXCEPT !.omask = Omask(bar, io),
                     !.bars = Append(@, [reg |-> reg, io |-> io, at |-> base, size |-> bar.size]),
                     !.io = IF base = s.io THEN end ELSE @,
                     !.mem = IF base = s.io THEN @ ELSE end]

\* The counter that has the value the address was made from is moved.
ob_pci_configure_bar(s, reg, bar) ==
  IF s.omask = 4 \/ bar.type = "none"
  THEN s
  ELSE LET io   == bar.type = "io" \/ (bar.type = "rom" /\ reg # 6)
           base == IF io THEN s.io ELSE s.mem
           size == Max({bar.size, MinAlign})
           at   == AlignUp(base, size)
       IN  [s EXCEPT !.omask = Omask(bar, io),
                     !.bars = Append(@, [reg |-> reg, io |-> io, at |-> at, size |-> bar.size]),
                     !.io = IF base = s.io THEN at + size ELSE @,
                     !.mem = IF base = s.io THEN @ ELSE at + size]

\* A 64-bit BAR takes two registers.
Wide(bar) == bar.type \in {"mem64", "pref64"}

RegOf(bars, i) == (i - 1) + Cardinality({k \in 1 .. i - 1 : Wide(bars[k])})

\* The BARs, then the ROM with the number of the register after the last.
ob_pci_configure(s, f) ==
  LET start == [s EXCEPT !.omask = 0, !.bars = <<>>]
      all   == FoldLeft(LAMBDA t, i : ob_pci_configure_bar(t, RegOf(f.bars, i), f.bars[i]),
                        start, [i \in DOMAIN f.bars |-> i])
      regs  == IF f.kind = "dev" \/ f.kind = "host" THEN 6 ELSE 2
  IN  ob_pci_configure_bar(all, regs, [type |-> IF f.rom THEN "rom" ELSE "none", size |-> 2])

-----------------------------------------------------------------------------
(* The tree.                                                               *)

RECURSIVE ob_configure_pci_device(_, _, _, _), ob_scan_pci_bus(_, _, _, _, _)

\* Both windows are aligned; the bits below are clear already.
Aligned(s) == [s EXCEPT !.mem = AlignUp(@, MB), !.io = AlignUp(@, K4)]

\* "Disable unused address spaces": two writes of the value read before both.
Enabled(memUsed, ioUsed) ==
  IF ~ioUsed THEN {"mem"} ELSE IF ~memUsed THEN {"io"} ELSE {"mem", "io"}


Subordinate(before, after) == after

ob_configure_pci_bridge(s, path, f, primary) ==
  LET legacy == IF primary > 0 /\ s.io < K4 THEN [s EXCEPT !.io = 0] ELSE s
      open   == Aligned(legacy)
      inside == ob_scan_pci_bus(open, path, f, open.bus, 1)
      closed == Aligned(inside)
  IN  [closed EXCEPT !.bridges = Append(@,
         [path |-> path, primary |-> primary, secondary |-> open.bus,
          subordinate |-> Subordinate(open.bus, inside.bus),
          mem |-> [lo |-> open.mem, hi |-> closed.mem], io |-> [lo |-> open.io, hi |-> closed.io],
          cmd |-> Enabled(closed.mem # open.mem, closed.io # open.io)])]

\* The host bridge keeps bus 0; a PCI bridge reserves the next number.
NextBus(s, f) == IF f.kind = "bridge" THEN [s EXCEPT !.bus = @ + 1] ELSE s

ob_configure_pci_device(s, path, f, bus) ==
  LET own == ob_pci_configure(s, f)
      put == [own EXCEPT !.fns = Append(@, [path |-> path, bus |-> bus, bars |-> own.bars])]
  IN  IF f.kind = "dev" THEN put ELSE ob_configure_pci_bridge(NextBus(put, f), path, f, bus)

\* The bridges of a sabre come first, each from fixed addresses.
ob_scan_sabre_pci_bus(s, f, i) ==
  CASE f.kind = "host" /\ f.sabre /\ i = 1 -> [s EXCEPT !.io = 0, !.mem = 1024]
    [] f.kind = "host" /\ f.sabre /\ i = 2 -> [s EXCEPT !.io = 256, !.mem = 4096]
    [] OTHER -> s

ob_scan_pci_bus(s, path, f, bus, i) ==
  IF i > Len(f.kids) THEN s
  ELSE ob_scan_pci_bus(ob_configure_pci_device(ob_scan_sabre_pci_bus(s, f, i),
                                               Append(path, i), f.kids[i], bus),
                       path, f, bus, i + 1)

ob_pci_init(f) ==
  ob_configure_pci_device([bus |-> 0, mem |-> MemStart, io |-> IoStart, omask |-> 0, bars |-> <<>>,
                           fns |-> <<>>, bridges |-> <<>>], <<>>, f, 0)

-----------------------------------------------------------------------------
(* Unit addresses.  A word has four values; a text is the record of its    *)
(* parts, digits included as the number they write.                        *)
Word == 4
SignedWord(x) == IF x >= Word \div 2 THEN x - Word ELSE x

\* ((long long)mid << 32) | (long long)lo with signed cells: the sign of lo
\* reaches over mid.
JoinedWords(mid, lo) == IF SignedWord(lo) < 0 THEN (Word - 1) * Word + lo ELSE mid * Word + lo

ob_pci_encode_unit(a) ==
  CASE a.space = "config" ->
         [n |-> FALSE, p |-> FALSE, t |-> FALSE, space |-> "config", dev |-> a.dev, fn |-> a.fn,
          reg |-> 0, number |-> 0]
    [] a.space = "io" ->
         [n |-> a.n, p |-> FALSE, t |-> a.t, space |-> "io", dev |-> a.dev, fn |-> a.fn,
          reg |-> a.reg, number |-> IF a.t THEN a.lo % 2 ELSE a.lo]
    [] a.space = "mem32" ->
         [n |-> a.n, p |-> a.p, t |-> a.t, space |-> "mem32", dev |-> a.dev, fn |-> a.fn,
          reg |-> a.reg, number |-> a.lo]
    [] a.space = "mem64" ->
         [n |-> a.n, p |-> a.p, t |-> FALSE, space |-> "mem64", dev |-> a.dev, fn |-> a.fn,
          reg |-> a.reg, number |-> JoinedWords(a.mid, a.lo)]

ob_pci_decode_unit(text) ==
  [n |-> text.n, p |-> text.p, t |-> text.t, space |-> text.space, dev |-> text.dev, fn |-> text.fn,
   reg |-> text.reg, lo |-> text.number % Word, mid |-> text.number \div Word]

-----------------------------------------------------------------------------
(* Inputs: trees of up to three levels, and addresses that encode-unit     *)
(* is given (fields a form does not write are zero).                       *)
Bar(type, size) == [type |-> type, size |-> size]

BarLists ==
  {<<Bar("io", 1)>>, <<Bar("mem", 16)>>, <<Bar("io", 8), Bar("mem", 2)>>, <<Bar("pref64", 4), Bar("io", 4)>>}
  \cup (IF PciAfter64 THEN {<<Bar("mem64", 4), Bar("mem", 2)>>} ELSE {})

Leaves ==
  {[kind |-> "dev", bars |-> b, rom |-> FALSE] : b \in BarLists}
  \cup {[kind |-> "dev", bars |-> <<Bar("mem64", 4)>>, rom |-> PciAfter64],
        [kind |-> "dev", bars |-> <<>>, rom |-> TRUE]}

BridgesOver(fs, n) ==
  [kind : {"bridge"}, bars : {<<>>, <<Bar("io", 4)>>}, rom : {PciBridgeRom}, kids : BoundedSeq(fs, n)]

FewLeaves == {l \in Leaves : l.bars \in {<<Bar("io", 1)>>, <<Bar("io", 8), Bar("mem", 2)>>}}

Bridges1 == BridgesOver(Leaves, 1) \cup BridgesOver(FewLeaves, 2)

Bridges2 == BridgesOver(FewLeaves \cup {b \in BridgesOver(FewLeaves, 1) : b.bars = <<>>}, 2)

Plain == [kind : {"host"}, bars : {<<>>, <<Bar("mem", 8)>>}, rom : {FALSE}, sabre : {FALSE},
          kids : BoundedSeq(Leaves \cup Bridges1, 2) \cup {<<l, b>> : l \in Leaves, b \in Bridges2}
                   \cup {<<b, l>> : l \in Leaves, b \in Bridges2}]

Sabres == [kind : {"host"}, bars : {<<>>}, rom : {FALSE}, sabre : {TRUE},
           kids : LET sub == IF PciNestedSabre THEN Bridges2 ELSE Bridges1
                  IN  {<<a, b>> : a \in sub, b \in BridgesOver(FewLeaves, 1)}]

Units ==
  {a \in [n : BOOLEAN, p : BOOLEAN, t : BOOLEAN, space : {"config", "io", "mem32", "mem64"},
          dev : 0 .. 1, fn : 0 .. 1, reg : 0 .. 1, lo : PciUnitLo, mid : 0 .. Word - 1] :
     /\ a.space = "config" => ~a.n /\ ~a.p /\ ~a.t /\ a.reg = 0 /\ a.lo = 0
     /\ a.space # "mem64" => a.mid = 0
     /\ a.space = "io" => ~a.p /\ (a.t => a.lo < 2)
     /\ a.space = "mem64" => ~a.t}

PciTasks == [op : {"pci"}, tree : Plain \cup Sabres] \cup [op : {"unit"}, unit : Units]

PciTask ==
  \/ Compute("pci", ob_pci_init(task.tree))
  \/ Compute("unit", ob_pci_decode_unit(ob_pci_encode_unit(task.unit)))

-----------------------------------------------------------------------------
Placed ==
  {[path |-> f.path, io |-> b.io, lo |-> b.at, hi |-> b.at + b.size, reg |-> b.reg] :
     <<f, b>> \in UNION {{<<f, b>> : b \in ToSet(f.bars)} : f \in ToSet(result.fns)}}

BelowBridge(path, bridge) == Len(path) > Len(bridge) /\ SubSeq(path, 1, Len(bridge)) = bridge

Window(bridge, io) == IF io THEN bridge.io ELSE bridge.mem

\* Every BAR is aligned to its size and overlaps no other; it lies inside the
\* windows of the bridges above it and outside the window of every other
\* bridge (the host bridge has none), so that each access reaches one function; and the
\* counters published as "available" are above all of them.  With a sabre the
\* forced restarts of the counters keep the two sides apart.
AddressesRoute ==
  Computed("pci") =>
    LET placed == Placed
    IN /\ \A x \in placed :
            /\ x.lo % (x.hi - x.lo) = 0
            /\ \A b \in {c \in ToSet(result.bridges) : c.path # <<>>} :
                 IF BelowBridge(x.path, b.path)
                 THEN Window(b, x.io).lo <= x.lo /\ x.hi <= Window(b, x.io).hi
                 ELSE x.hi <= Window(b, x.io).lo \/ Window(b, x.io).hi <= x.lo
            /\ ~task.tree.sabre => x.hi <= (IF x.io THEN result.io ELSE result.mem)
       /\ \A x, y \in placed :
            (x.io = y.io /\ <<x.path, x.reg>> # <<y.path, y.reg>>) => x.hi <= y.lo \/ y.hi <= x.lo

\* The bus range of a bridge holds the buses below it and no others: the
\* ranges of two bridges are nested as the bridges are, or disjoint, and a
\* function is on the secondary bus of the bridge it is plugged into.
BusesRoute ==
  Computed("pci") =>
    \A b \in ToSet(result.bridges) :
      /\ \A f \in ToSet(result.fns) :
           Len(f.path) = Len(b.path) + 1 /\ BelowBridge(f.path, b.path) => f.bus = b.secondary
      /\ \A c \in ToSet(result.bridges) :
           (c.secondary \in b.secondary .. b.subordinate) <=> (c.path = b.path \/ BelowBridge(c.path, b.path))

RECURSIVE Implemented(_)
Implemented(f) ==
  Len(f.bars) + (IF f.rom THEN 1 ELSE 0)
  + (IF f.kind = "dev" THEN 0 ELSE FoldLeft(LAMBDA n, k : n + Implemented(k), 0, f.kids))

\* "Ignore 64-bit BAR MSBs (always map in 32-bit space)": every other
\* register of a function that has a size gets an address.
EveryBarPlaced == Computed("pci") => Cardinality(Placed) = Implemented(task.tree)

\* An expansion ROM is decoded in memory space.
RomInMemory == Computed("pci") => \A x \in Placed : x.reg = 2 /\ x.path # <<>> => ~x.io

\* "Disable unused address spaces": a bridge with nothing in a space does not
\* decode it.
UnusedDisabled ==
  Computed("pci") =>
    \A b \in ToSet(result.bridges) :
      /\ b.mem.lo = b.mem.hi => "mem" \notin b.cmd
      /\ b.io.lo = b.io.hi => "io" \notin b.cmd

\* "Always expose the legacy ioports on the first PCI bridge".
LegacyExposed ==
  Computed("pci") =>
    \A b \in ToSet(result.bridges) : b.secondary = 1 /\ b.io.lo # b.io.hi => b.io.lo = 0

\* The unit address that encode-unit writes is read back by decode-unit.
UnitsReadBack == Computed("unit") => result = task.unit

\* After the scan every access and every bus number reaches one function: the
\* BARs, the windows and the bus ranges that ob_scan_pci_bus and
\* ob_pci_configure_bar assign fit together, no BAR is left out, and unit
\* addresses name the functions.
PciRoutes == AddressesRoute /\ BusesRoute /\ EveryBarPlaced /\ UnitsReadBack
=============================================================================
