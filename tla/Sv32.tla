-------------------------------- MODULE Sv32 --------------------------------
(***************************************************************************)
(* Address translation: the two-level page walk and the TLB in front of    *)
(* it, as functions on the contents of memory and the entries of the TLB.  *)
(*                                                                         *)
(* A word is one cell: addresses count words, so the 4 and the 8 of the    *)
(* code are 1 and 2 here.  The sizes are parameters: 1024 words to a page, *)
(* 1024 entries to a table and 8 entries in the TLB in the code.  The bit  *)
(* fields of a page table entry are decoded by the constant PteOf.         *)
(***************************************************************************)
EXTENDS Words, Csr, FiniteSetsExt

CONSTANTS
  MemorySize,    \* MEMORY_SIZE
  PageSize,      \* the words of a page
  TableSize,     \* the entries of a table, a power of two
  TlbSize,       \* TLB_SIZE
  PteOf          \* the page table entry a word encodes

\* Addresses are 32 bits: two table indices and an offset.
AddrSpace == TableSize * TableSize * PageSize
Addr      == 0 .. AddrSpace - 1
Cells     == 0 .. MemorySize - 1

Flags == {"R", "W", "X"}
Pte   == [valid : BOOLEAN, flags : SUBSET Flags, user : BOOLEAN, ppn : Nat]

ASSUME SizesAssumption ==
  /\ PageSize \in Nat \ {0} /\ TableSize \in Nat \ {0} /\ TlbSize \in Nat \ {0}
  /\ AddrSpace \in Nat \ {0}
  /\ MemorySize \in Nat /\ MemorySize < AddrSpace
ASSUME PteAssumption == PteOf \in [Word -> Pte]

VpnOf(va) == va \div PageSize
Vpns      == {VpnOf(va) : va \in Addr}

\* (ppn << 12) | offset, in 32 bits.
InPage(ppn, offset) == (ppn * PageSize + offset) % AddrSpace

\* No table lies in the last page of the address space, where the test of its
\* bounds would wrap around.
TableAt(ppn) == InPage(ppn, 0) + PageSize < AddrSpace
ASSUME TablesAssumption ==
  \A w \in Word : PteOf[w].flags \cap {"R", "X"} = {} => TableAt(PteOf[w].ppn)

-----------------------------------------------------------------------------
(* The page walk                                                           *)

Kinds == {"fetch", "load", "store"}
FlagOf == [k \in Kinds |-> CASE k = "fetch" -> "X" [] k = "store" -> "W" [] k = "load" -> "R"]

NoPte == [valid |-> FALSE, flags |-> {}, user |-> FALSE, ppn |-> 0]

\* An entry that lies beyond memory faults as an invalid one does.
Entry(memory, table, index) ==
  LET a == InPage(table, index)
  IN  IF a < MemorySize THEN PteOf[memory[a]] ELSE NoPte

\* The C++ a | b, of numbers below TableSize.
Bit(n, i) == (n \div 2 ^ i) % 2 = 1
BitOr(a, b) == MapThenSumSet(LAMBDA i : 2 ^ i,
                             {i \in 0 .. TableSize : Bit(a, i) \/ Bit(b, i)})

\* A level-1 entry with R or X maps a megapage: its low bits are ORed with the
\* second index of the address.
MegaFrame(ppn, vpn) ==
  (ppn \div TableSize) * TableSize + BitOr(ppn % TableSize, vpn % TableSize)

IsMega(pte) == pte.flags \cap {"R", "X"} # {}

\* What the tables say of a page: its rights, the page number of the entry
\* (ppn) and that of the page's own frame.
Leaves == [mapped : BOOLEAN, flags : SUBSET Flags, user : BOOLEAN, ppn : Nat, frame : Nat]
Unmapped == [mapped |-> FALSE, flags |-> {}, user |-> FALSE, ppn |-> 0, frame |-> 0]

LeafOf(pte, frame) == [mapped |-> TRUE, flags |-> pte.flags, user |-> pte.user,
                       ppn |-> pte.ppn, frame |-> frame]

Leaf(memory, root, vpn) ==
  LET pte1 == Entry(memory, root, vpn \div TableSize)
      pte0 == Entry(memory, pte1.ppn, vpn % TableSize)
  IN  CASE ~pte1.valid -> Unmapped
        [] pte1.valid /\ IsMega(pte1) -> LeafOf(pte1, MegaFrame(pte1.ppn, vpn))
        [] pte1.valid /\ ~IsMega(pte1) ->
             IF pte0.valid THEN LeafOf(pte0, pte0.ppn) ELSE Unmapped

Permits(leaf, kind, prv) ==
  /\ leaf.mapped
  /\ FlagOf[kind] \in leaf.flags
  /\ prv = PRV_U => leaf.user

WalkAddress(leaf, va) == InPage(leaf.frame, va % PageSize)

-----------------------------------------------------------------------------
(* The TLB                                                                 *)

TlbEntry == [valid : BOOLEAN, vpn : Vpns \cup {0}, ppn : Nat, flags : SUBSET Flags]
Tlbs == [entry : [0 .. TlbSize - 1 -> TlbEntry], next : 0 .. TlbSize - 1]

EmptyTlb == [entry |-> [i \in 0 .. TlbSize - 1 |->
                          [valid |-> FALSE, vpn |-> 0, ppn |-> 0, flags |-> {}]],
             next |-> 0]

\* Defect for the mutant runs: the index runs past the end.
NextIndexUnreduced(i) == i + 1

NextIndex(i) == (i + 1) % TlbSize

TlbInsert(tlb, vpn, leaf) ==
  [entry |-> [tlb.entry EXCEPT ![tlb.next] =
                [valid |-> TRUE, vpn |-> vpn, ppn |-> leaf.ppn, flags |-> leaf.flags]],
   next |-> NextIndex(tlb.next)]

\* Defect for the mutant runs: only the entry at the index is dropped.
FlushNext(tlb) == [tlb EXCEPT !.entry[tlb.next].valid = FALSE, !.next = 0]

TlbFlush(tlb) ==
  [entry |-> [i \in 0 .. TlbSize - 1 |-> [tlb.entry[i] EXCEPT !.valid = FALSE]],
   next |-> 0]

\* Defect for the mutant runs: the search begins at the second entry.
MatchesFromSecond(tlb, vpn) ==
  {i \in 1 .. TlbSize - 1 : tlb.entry[i].valid /\ tlb.entry[i].vpn = vpn}

\* The first entry for the page decides, and may deny.
Matches(tlb, vpn) ==
  {i \in 0 .. TlbSize - 1 : tlb.entry[i].valid /\ tlb.entry[i].vpn = vpn}
FirstMatch(tlb, vpn) ==
  CHOOSE i \in Matches(tlb, vpn) : \A j \in Matches(tlb, vpn) : i <= j
TlbHit(tlb, vpn, kind) ==
  /\ Matches(tlb, vpn) # {}
  /\ FlagOf[kind] \in tlb.entry[FirstMatch(tlb, vpn)].flags

\* The low bits come from the page number, not from the address.
HitAddress(ppn, va) == InPage(ppn, VpnOf(va) % PageSize)

-----------------------------------------------------------------------------

Satps == [on : BOOLEAN, root : Nat]
Bare  == [on |-> FALSE, root |-> 0]

Translates(satp, prv) == prv # PRV_M /\ satp.on

Identity(tlb, va) == [fault |-> FALSE, paddr |-> va, tlb |-> tlb]
PageFault(tlb)    == [fault |-> TRUE, paddr |-> 0, tlb |-> tlb]

Hit(tlb, va) ==
  [fault |-> FALSE,
   paddr |-> HitAddress(tlb.entry[FirstMatch(tlb, VpnOf(va))].ppn, va),
   tlb   |-> tlb]

Walk(tlb, leaf, va, kind, prv) ==
  IF Permits(leaf, kind, prv)
    THEN [fault |-> FALSE, paddr |-> WalkAddress(leaf, va),
          tlb |-> TlbInsert(tlb, VpnOf(va), leaf)]
    ELSE PageFault(tlb)

\* A page that the TLB denies is looked up in the tables all the same.
Translate(tlb, memory, va, kind, satp, prv) ==
  CASE ~Translates(satp, prv) -> Identity(tlb, va)
    [] Translates(satp, prv) /\ TlbHit(tlb, VpnOf(va), kind) -> Hit(tlb, va)
    [] Translates(satp, prv) /\ ~TlbHit(tlb, VpnOf(va), kind) ->
         Walk(tlb, Leaf(memory, satp.root, VpnOf(va)), va, kind, prv)
=============================================================================
