------------------------- MODULE MemorySystemProofs -------------------------
(***************************************************************************)
(* Theorems about the memory system, for every size of memory, page, table *)
(* and TLB, every decoding of page table entries, every address map and    *)
(* every repertoire of requests.                                           *)
(***************************************************************************)
EXTENDS MemorySystem, DevicesProofs, FiniteSetTheorems, TLAPS

-----------------------------------------------------------------------------
(* Page tables and TLB                                                     *)

LEMMA VpnType ==
  ASSUME NEW va \in Addr
  PROVE  VpnOf(va) \in Vpns /\ VpnOf(va) \in Nat
<1>1. va \in Nat /\ PageSize \in Nat \ {0}
  BY SizesAssumption DEF Addr
<1>2. va \div PageSize \in Nat
  BY <1>1
<1> QED BY <1>2 DEF VpnOf, Vpns

LEMMA InPageType ==
  ASSUME NEW p \in Nat, NEW i \in Nat
  PROVE  InPage(p, i) \in Addr
<1>1. PageSize \in Nat /\ AddrSpace \in Nat \ {0}
  BY SizesAssumption
<1>2. p * PageSize \in Int
  BY <1>1
<1>3. p * PageSize + i \in Int
  BY <1>2
<1> QED BY <1>1, <1>3, Remainder DEF InPage, Addr

\* Whatever memory holds, an entry decodes to a page table entry.
LEMMA EntryType ==
  ASSUME NEW m \in [Cells -> Word], NEW t \in Nat, NEW i \in Nat
  PROVE  Entry(m, t, i) \in Pte
<1>1. NoPte \in Pte
  BY DEF NoPte, Pte
<1>2. CASE InPage(t, i) < MemorySize
  <2>1. InPage(t, i) \in Cells
    <3> DEFINE a == InPage(t, i)
    <3>1. a \in Addr /\ a < MemorySize
      BY <1>2, InPageType
    <3>2. MemorySize \in Nat /\ AddrSpace \in Nat
      BY SizesAssumption
    <3> HIDE DEF a
    <3>3. a \in Cells
      BY <3>1, <3>2 DEF Addr, Cells
    <3> QED BY <3>3 DEF a
  <2>2. PteOf[m[InPage(t, i)]] \in Pte
    BY <2>1, PteAssumption
  <2> QED BY <1>2, <2>2 DEF Entry
<1> QED BY <1>1, <1>2 DEF Entry

LEMMA LeafType ==
  ASSUME NEW m \in [Cells -> Word], NEW root \in Nat, NEW v \in Nat,
         Leaf(m, root, v).mapped
  PROVE  Leaf(m, root, v).ppn \in Nat /\ Leaf(m, root, v).flags \in SUBSET Flags
<1> DEFINE pte1 == Entry(m, root, v \div TableSize)
           pte0 == Entry(m, pte1.ppn, v % TableSize)
<1>1. v \div TableSize \in Nat /\ v % TableSize \in Nat
  BY SizesAssumption
<1>2. pte1 \in Pte
  BY <1>1, EntryType
<1>3. pte1.ppn \in Nat
  BY <1>2 DEF Pte
<1>4. pte0 \in Pte
  BY <1>1, <1>3, EntryType
<1>5. /\ pte1.ppn \in Nat /\ pte1.flags \in SUBSET Flags
      /\ pte0.ppn \in Nat /\ pte0.flags \in SUBSET Flags
      /\ pte1.valid \in BOOLEAN /\ pte0.valid \in BOOLEAN
  BY <1>2, <1>4 DEF Pte
<1> HIDE DEF pte1, pte0
<1>6. CASE ~pte1.valid
  <2>1. Leaf(m, root, v) = Unmapped
    BY <1>6 DEF Leaf, pte1
  <2> QED BY <2>1 DEF Unmapped
<1>7. CASE pte1.valid /\ IsMega(pte1)
  <2>1. Leaf(m, root, v) = LeafOf(pte1, MegaFrame(pte1.ppn, v))
    BY <1>7 DEF Leaf, pte1
  <2> QED BY <1>5, <2>1 DEF LeafOf
<1>8. CASE pte1.valid /\ ~IsMega(pte1)
  <2>1. Leaf(m, root, v) = IF pte0.valid THEN LeafOf(pte0, pte0.ppn) ELSE Unmapped
    BY <1>8 DEF Leaf, pte1, pte0
  <2>2. pte0.valid
    BY <2>1 DEF Unmapped
  <2> QED BY <1>5, <2>1, <2>2 DEF LeafOf
<1> QED BY <1>5, <1>6, <1>7, <1>8

\* An insertion keeps the index inside the TLB.
LEMMA InsertType ==
  ASSUME NEW t \in Tlbs, NEW v \in Vpns, NEW leaf,
         leaf.ppn \in Nat, leaf.flags \in SUBSET Flags
  PROVE  TlbInsert(t, v, leaf) \in Tlbs
<1>1. t.next \in 0 .. TlbSize - 1 /\ t.entry \in [0 .. TlbSize - 1 -> TlbEntry]
  BY DEF Tlbs
<1>2. NextIndex(t.next) \in 0 .. TlbSize - 1
  <2>1. t.next + 1 \in Int /\ TlbSize \in Nat \ {0}
    BY <1>1, SizesAssumption
  <2> QED BY <2>1, Remainder DEF NextIndex
<1>3. [valid |-> TRUE, vpn |-> v, ppn |-> leaf.ppn, flags |-> leaf.flags] \in TlbEntry
  BY DEF TlbEntry
<1> DEFINE e == [valid |-> TRUE, vpn |-> v, ppn |-> leaf.ppn, flags |-> leaf.flags]
<1>4. [t.entry EXCEPT ![t.next] = e] \in [0 .. TlbSize - 1 -> TlbEntry]
  BY <1>1, <1>3
<1> QED BY <1>2, <1>4 DEF TlbInsert, Tlbs

LEMMA FlushType ==
  ASSUME NEW t \in Tlbs
  PROVE  /\ TlbFlush(t) \in Tlbs
         /\ \A i \in 0 .. TlbSize - 1 : ~TlbFlush(t).entry[i].valid
<1>1. \A i \in 0 .. TlbSize - 1 :
        /\ [t.entry[i] EXCEPT !.valid = FALSE] \in TlbEntry
        /\ ~[t.entry[i] EXCEPT !.valid = FALSE].valid
  BY DEF Tlbs, TlbEntry
<1>2. 0 \in 0 .. TlbSize - 1
  BY SizesAssumption
<1> QED BY <1>1, <1>2 DEF TlbFlush, Tlbs

\* An insertion writes one entry.
LEMMA InsertEntry ==
  ASSUME NEW t \in Tlbs, NEW v, NEW leaf
  PROVE  TlbInsert(t, v, leaf).entry[t.next] =
           [valid |-> TRUE, vpn |-> v, ppn |-> leaf.ppn, flags |-> leaf.flags]
BY DEF Tlbs, TlbInsert

LEMMA InsertOthers ==
  ASSUME NEW t \in Tlbs, NEW v, NEW leaf, NEW i \in 0 .. TlbSize - 1, i # t.next
  PROVE  TlbInsert(t, v, leaf).entry[i] = t.entry[i]
BY DEF Tlbs, TlbInsert

\* Every valid entry holds what the tables said of its page, at some moment in s.
Said(e, s) ==
  \E said \in s : /\ said[1] = e.vpn
                 /\ said[2].mapped /\ said[2].ppn = e.ppn /\ said[2].flags = e.flags
Backed(t, s) == \A i \in 0 .. TlbSize - 1 : t.entry[i].valid => Said(t.entry[i], s)

LEMMA BackedByMore ==
  ASSUME NEW t, NEW s, NEW u, s \subseteq u, Backed(t, s)
  PROVE  Backed(t, u)
BY DEF Backed, Said

LEMMA InsertBacked ==
  ASSUME NEW t \in Tlbs, NEW s, Backed(t, s), NEW v, NEW leaf,
         leaf.mapped, <<v, leaf>> \in s
  PROVE  Backed(TlbInsert(t, v, leaf), s)
<1> DEFINE e == [valid |-> TRUE, vpn |-> v, ppn |-> leaf.ppn, flags |-> leaf.flags]
<1>1. Said(e, s)
  BY DEF Said
<1>2. ASSUME NEW i \in 0 .. TlbSize - 1, TlbInsert(t, v, leaf).entry[i].valid
      PROVE  Said(TlbInsert(t, v, leaf).entry[i], s)
  <2>1. CASE i = t.next
    BY <1>1, <2>1, InsertEntry
  <2>2. CASE i # t.next
    <3>1. TlbInsert(t, v, leaf).entry[i] = t.entry[i]
      BY <2>2, InsertOthers
    <3> QED BY <1>2, <3>1 DEF Backed
  <2> QED BY <2>1, <2>2
<1> QED BY <1>2 DEF Backed

\* The search through the TLB finds an entry for the page when there is one.
LEMMA FirstIsMatch ==
  ASSUME NEW t, NEW v, Matches(t, v) # {}
  PROVE  FirstMatch(t, v) \in Matches(t, v)
<1> DEFINE upTo(i) == 0 .. i
           T == {upTo(i) : i \in Matches(t, v)}
<1>1. Matches(t, v) \subseteq Nat
  BY SizesAssumption DEF Matches
<1>2. T \subseteq FiniteSubsetsOf(Nat)
  <2>1. \A i \in Nat : upTo(i) \in SUBSET Nat /\ IsFiniteSet(upTo(i))
    BY FS_Interval
  <2> QED BY <1>1, <2>1 DEF FiniteSubsetsOf
<1>3. T # {}
  OBVIOUS
<1>4. PICK x \in T : \A y \in T : ~(<<y, x>> \in StrictSubsetOrdering(Nat))
  <2> HIDE DEF T
  <2> QED BY <1>2, <1>3, FS_StrictSubsetOrderingWellFounded, WFMin
<1>5. PICK i \in Matches(t, v) : x = upTo(i)
  BY <1>4
<1>6. ASSUME NEW j \in Matches(t, v) PROVE i <= j
  <2>1. upTo(j) \in T /\ upTo(i) \in SUBSET Nat /\ upTo(j) \in SUBSET Nat
    BY <1>1
  <2>2. ~(upTo(j) \subseteq upTo(i) /\ upTo(j) # upTo(i))
    BY <1>4, <1>5, <2>1 DEF StrictSubsetOrdering
  <2>3. SUFFICES ASSUME ~(i <= j) PROVE FALSE
    OBVIOUS
  <2>4. i \in Nat /\ j \in Nat /\ j < i
    BY <1>1, <2>3
  <2>5. i \in upTo(i) /\ i \notin upTo(j) /\ upTo(j) \subseteq upTo(i)
    BY <2>4
  <2> QED BY <2>2, <2>5
<1> QED BY <1>5, <1>6 DEF FirstMatch

\* Two entries for one page: its rights have changed, at some moment in s.
Single(t, s) ==
  \A i, j \in 0 .. TlbSize - 1 :
    i # j /\ t.entry[i].valid /\ t.entry[j].valid /\ t.entry[i].vpn = t.entry[j].vpn
      => RightsChanged(t.entry[i].vpn, s)

LEMMA SingleByMore ==
  ASSUME NEW t, NEW s, NEW u, s \subseteq u, Single(t, s)
  PROVE  Single(t, u)
BY DEF Single, RightsChanged

\* What the tables permit and the TLB does not has changed since the TLB was
\* told of the page, if it was.
LEMMA MissMeansChange ==
  ASSUME NEW t, NEW s, Backed(t, s), NEW v, NEW leaf, <<v, leaf>> \in s,
         NEW kind, NEW p, Permits(leaf, kind, p), ~TlbHit(t, v, kind),
         Matches(t, v) # {}
  PROVE  RightsChanged(v, s)
<1> DEFINE i == FirstMatch(t, v)
<1>1. i \in Matches(t, v)
  BY FirstIsMatch
<1>2. i \in 0 .. TlbSize - 1 /\ t.entry[i].valid /\ t.entry[i].vpn = v
  BY <1>1 DEF Matches
<1>3. FlagOf[kind] \notin t.entry[i].flags
  BY DEF TlbHit
<1> HIDE DEF i
<1>4. PICK said \in s : said[1] = v /\ said[2].mapped /\ said[2].flags = t.entry[i].flags
  BY <1>2 DEF Backed, Said
<1>5. leaf.mapped /\ FlagOf[kind] \in leaf.flags
  BY DEF Permits
<1>6. said[2].flags # leaf.flags
  BY <1>3, <1>4, <1>5
<1>7. <<v, leaf>>[1] = v /\ <<v, leaf>>[2] = leaf
  OBVIOUS
<1> QED BY <1>4, <1>5, <1>6, <1>7 DEF RightsChanged

LEMMA InsertSingle ==
  ASSUME NEW t \in Tlbs, NEW s, Single(t, s), NEW v, NEW leaf,
         Matches(t, v) # {} => RightsChanged(v, s)
  PROVE  Single(TlbInsert(t, v, leaf), s)
<1> DEFINE u == TlbInsert(t, v, leaf)
<1> DEFINE e == [valid |-> TRUE, vpn |-> v, ppn |-> leaf.ppn, flags |-> leaf.flags]
<1>1. u.entry[t.next].vpn = v
  <2>1. u.entry[t.next] = e
    BY InsertEntry
  <2> QED BY <2>1
<1>2. ASSUME NEW i \in 0 .. TlbSize - 1, i # t.next,
             u.entry[i].valid, u.entry[i].vpn = v
      PROVE  RightsChanged(v, s)
  <2>1. u.entry[i] = t.entry[i]
    BY <1>2, InsertOthers
  <2>2. i \in Matches(t, v)
    BY <1>2, <2>1 DEF Matches
  <2> QED BY <2>2
<1>3. ASSUME NEW i \in 0 .. TlbSize - 1, NEW j \in 0 .. TlbSize - 1, i # j,
             u.entry[i].valid, u.entry[j].valid, u.entry[i].vpn = u.entry[j].vpn
      PROVE  RightsChanged(u.entry[i].vpn, s)
  <2>1. CASE i = t.next
    BY <1>1, <1>2, <1>3, <2>1
  <2>2. CASE j = t.next
    BY <1>1, <1>2, <1>3, <2>2
  <2>3. CASE i # t.next /\ j # t.next
    <3>1. u.entry[i] = t.entry[i] /\ u.entry[j] = t.entry[j]
      BY <2>3, InsertOthers
    <3> QED BY <1>3, <3>1 DEF Single
  <2> QED BY <2>1, <2>2, <2>3
<1> QED BY <1>3 DEF Single

\* An access that is granted leaves a TLB that is backed by what was said
\* before, the present tables included, and with no page twice but for a change.
LEMMA TranslateBacked ==
  ASSUME NEW m \in [Cells -> Word], NEW r \in Satps, NEW t \in Tlbs, NEW said,
         Backed(t, said), Single(t, said), InForce(m, r) \subseteq said,
         NEW va \in Addr, NEW kind, NEW p,
         ~Translate(t, m, va, kind, r, p).fault
  PROVE  LET u == Translate(t, m, va, kind, r, p).tlb
         IN  u \in Tlbs /\ Backed(u, said) /\ Single(u, said)
<1> DEFINE v == VpnOf(va)
           leaf == Leaf(m, r.root, v)
<1>1. CASE ~Translates(r, p)
  BY <1>1 DEF Translate, Identity
<1>2. CASE Translates(r, p) /\ TlbHit(t, v, kind)
  BY <1>2 DEF Translate, Hit
<1>3. CASE Translates(r, p) /\ ~TlbHit(t, v, kind)
  <2>1. Translate(t, m, va, kind, r, p) = Walk(t, leaf, va, kind, p)
    BY <1>3 DEF Translate
  <2>2. Permits(leaf, kind, p) /\ Walk(t, leaf, va, kind, p).tlb = TlbInsert(t, v, leaf)
    BY <2>1 DEF Walk, PageFault
  <2>3. leaf.mapped
    BY <2>2 DEF Permits
  <2>4. v \in Vpns /\ v \in Nat
    BY VpnType
  <2>5. r.on /\ r.root \in Nat
    BY <1>3 DEF Translates, Satps
  <2>6. leaf.ppn \in Nat /\ leaf.flags \in SUBSET Flags
    BY <2>3, <2>4, <2>5, LeafType
  <2>7. TlbInsert(t, v, leaf) \in Tlbs
    BY <2>4, <2>6, InsertType
  <2>8. <<v, leaf>> \in said
    BY <2>4, <2>5 DEF InForce
  <2>9. Backed(TlbInsert(t, v, leaf), said)
    BY <2>3, <2>8, InsertBacked
  <2>10. Single(TlbInsert(t, v, leaf), said)
    <3>1. Matches(t, v) # {} => RightsChanged(v, said)
      BY <1>3, <2>2, <2>8, MissMeansChange
    <3> QED BY <3>1, InsertSingle
  <2> QED BY <2>1, <2>2, <2>7, <2>9, <2>10
<1> QED BY <1>1, <1>2, <1>3

-----------------------------------------------------------------------------
(* The inductive invariant                                                 *)

\* What the invariants do not say of themselves: the TLB holds nothing that the
\* tables have not said since the last fence, and what they say now is among it.
\* (Single(tlb, since) is OneEntryPerPage.)
IInv ==
  /\ software \in Workloads
  /\ TypeOK
  /\ NoKeyLost
  /\ Backed(tlb, since) /\ Single(tlb, since)
  /\ InForce(memory, satp) \subseteq since

LEMMA SoftwareType ==
  ASSUME software \in Workloads
  PROVE  /\ software.image \in [Cells -> Word]
         /\ software.stores \subseteq Addr \X Word
         /\ software.satps \subseteq Satps
         /\ software.prvs \subseteq Privileges
<1>1. software \in Workload
  BY WorkloadsAssumption
<1> QED BY <1>1 DEF Workload

LEMMA SurvivesType ==
  ASSUME NEW a, NEW n, NEW b \in Survives(a, n)
  PROVE  b \in BOOLEAN
<1>1. CASE Inside(a, n)
  BY <1>1 DEF Survives
<1>2. CASE ~Inside(a, n) /\ Refused(a, n)
  BY <1>2 DEF Survives
<1>3. CASE ~Inside(a, n) /\ ~Refused(a, n)
  BY <1>3 DEF Survives
<1> QED BY <1>1, <1>2, <1>3

\* The timer, the keyboard and the tables start from nothing.
LEMMA InitIInv ==
  Init => IInv
<1> SUFFICES ASSUME Init PROVE IInv
  OBVIOUS
<1>1. software \in Workloads /\ software.image \in [Cells -> Word]
  BY SoftwareType DEF Init
<1>2. Zero \in Counter
  BY WordSizeAssumption DEF Zero, Counter, Word
<1>3. NoInput \in Uarts(Key) /\ Waiting(NoInput) = <<>>
  BY DEF NoInput, Uarts, Waiting
<1>4. EmptyTlb \in Tlbs /\ Backed(EmptyTlb, since) /\ Single(EmptyTlb, since)
  <2>1. 0 \in 0 .. TlbSize - 1
    BY SizesAssumption
  <2>2. \A i \in 0 .. TlbSize - 1 :
          EmptyTlb.entry[i] = [valid |-> FALSE, vpn |-> 0, ppn |-> 0, flags |-> {}]
    BY DEF EmptyTlb
  <2>3. EmptyTlb \in Tlbs
    BY <2>1 DEF EmptyTlb, Tlbs, TlbEntry
  <2> QED BY <2>2, <2>3 DEF Backed, Single
<1>5. Bare \in Satps /\ PRV_M \in Privileges
  BY DEF Bare, Satps, Privileges
<1>6. TypeOK
  BY <1>1, <1>2, <1>3, <1>4, <1>5 DEF Init, TypeOK
<1>7. NoKeyLost
  <2>1. Waiting(uart) = <<>> /\ typed = <<>> /\ delivered = <<>>
    BY <1>3 DEF Init
  <2> QED BY <2>1 DEF NoKeyLost
<1> QED BY <1>1, <1>4, <1>6, <1>7 DEF Init, IInv

\* A read hands over at most the oldest character, and takes it from the front.
LEMMA ReadStep ==
  ASSUME TypeOK, NoKeyLost, NEW a, Read(a)
  PROVE  /\ uart' \in Uarts(Key) /\ delivered' \in Seq(Key) /\ alive' \in BOOLEAN
         /\ NoKeyLost'
<1> DEFINE polled == Polled(uart)
           data == a = UART_TX_ADDR
<1>1. /\ polled \in Uarts(Key) /\ Waiting(polled) = Waiting(uart)
      /\ delivered \in Seq(Key) /\ typed = delivered \o Waiting(polled)
  BY PolledUart DEF TypeOK, NoKeyLost
<1>2. /\ uart' = IF data THEN DataTaken(polled) ELSE polled
      /\ delivered' = IF data /\ polled.full
                        THEN Append(delivered, ReadData(polled)) ELSE delivered
      /\ typed' = typed
  BY DEF Read
<1>3. alive' \in BOOLEAN
  <2>1. alive' \in IF a \in CLINT \cup {UART_TX_ADDR, UART_LSR_ADDR}
                     THEN {TRUE} ELSE Survives(a, 1)
    BY DEF Read
  <2> QED BY <2>1, SurvivesType
<1> HIDE DEF polled, data
<1>4. CASE data /\ polled.full
  <2>1. DataTaken(polled) \in Uarts(Key) /\ Waiting(DataTaken(polled)) \in Seq(Key)
    BY <1>1, TakenUart, PolledUart
  <2>2. polled.held \in Key /\ Waiting(polled) = <<polled.held>> \o Waiting(DataTaken(polled))
    BY <1>1, <1>4, TakenUart
  <2>3. uart' = DataTaken(polled) /\ delivered' = Append(delivered, polled.held)
    BY <1>2, <1>4 DEF ReadData
  <2>4. typed = Append(delivered, polled.held) \o Waiting(DataTaken(polled))
    BY <1>1, <1>4, TakenDelivered, Zenon
  <2>5. Append(delivered, polled.held) \in Seq(Key)
    BY <1>1, <2>2
  <2>6. typed' = delivered' \o Waiting(uart')
    BY <1>2, <2>3, <2>4, Zenon
  <2> QED BY <1>3, <2>1, <2>3, <2>5, <2>6, Zenon DEF NoKeyLost
<1>5. CASE ~(data /\ polled.full)
  <2>1. uart' = polled /\ delivered' = delivered
    <3>1. ~polled.full => DataTaken(polled) = polled
      BY <1>1, TakenUart
    <3> QED BY <1>2, <1>5, <3>1
  <2> QED BY <1>1, <1>2, <1>3, <2>1 DEF NoKeyLost
<1> QED BY <1>4, <1>5

LEMMA WriteStep ==
  ASSUME TypeOK, NEW a, NEW data \in Word, Write(a, data)
  PROVE  /\ memory' \in [Cells -> Word] /\ mtimecmp' \in Counter /\ alive' \in BOOLEAN
         /\ since \subseteq since' /\ InForce(memory', satp') \subseteq since'
<1>1. memory' \in [Cells -> Word]
  <2>1. memory \in [Cells -> Word]
    BY DEF TypeOK
  <2>2. memory' = [memory EXCEPT ![a] = data] \/ memory' = memory
    BY DEF Write
  <2> QED BY <2>1, <2>2
<1>2. mtimecmp' \in Counter
  <2>1. mtimecmp \in Counter
    BY DEF TypeOK
  <2>2. WithLow(mtimecmp, data) \in Counter /\ WithHigh(mtimecmp, data) \in Counter
    BY <2>1 DEF Counter, WithLow, WithHigh
  <2>3. mtimecmp' \in {mtimecmp, WithLow(mtimecmp, data), WithHigh(mtimecmp, data)}
    <3>1. CASE a = CLINT_MTIMECMP
      BY <3>1 DEF Write
    <3>2. CASE a # CLINT_MTIMECMP
      <4>1. mtimecmp' = CASE a = CLINT_MTIMECMP     -> WithLow(mtimecmp, data)
                          [] a = CLINT_MTIMECMP + 1 -> WithHigh(mtimecmp, data)
                          [] OTHER                  -> mtimecmp
        BY DEF Write
      <4>2. a = CLINT_MTIMECMP + 1 => mtimecmp' = WithHigh(mtimecmp, data)
        BY <3>2, <4>1
      <4>3. a # CLINT_MTIMECMP + 1 => mtimecmp' = mtimecmp
        BY <3>2, <4>1
      <4> QED BY <4>2, <4>3
    <3> QED BY <3>1, <3>2
  <2> QED BY <2>1, <2>2, <2>3
<1>3. alive' \in BOOLEAN
  <2>1. alive' \in IF a \in CLINT \cup {UART_TX_ADDR} THEN {TRUE} ELSE Survives(a, 1)
    BY DEF Write
  <2> QED BY <2>1, SurvivesType
<1> QED BY <1>1, <1>2, <1>3 DEF Write

\* What a granted access does to the TLB.
LEMMA AccessStep ==
  ASSUME IInv, NEW va \in Addr, NEW kind, ~Translated(va, kind).fault,
         tlb' = Translated(va, kind).tlb
  PROVE  tlb' \in Tlbs /\ Backed(tlb', since) /\ Single(tlb', since)
BY TranslateBacked DEF IInv, TypeOK, Translated

\* Steps that leave the tables and the TLB as they are.
LEMMA TablesKept ==
  ASSUME IInv, tlb' = tlb, memory' = memory, satp' = satp, since' = since
  PROVE  /\ Backed(tlb', since') /\ Single(tlb', since')
         /\ InForce(memory', satp') \subseteq since'
BY DEF IInv

LEMMA StepIInv ==
  IInv /\ [Next]_vars => IInv'
<1> SUFFICES ASSUME IInv, [Next]_vars PROVE IInv'
  OBVIOUS
<1>t. TypeOK /\ NoKeyLost /\ software \in Workloads
  BY DEF IInv
<1>1. CASE Tick
  <2>1. Incremented(mtime) \in Counter
    BY <1>t, IncrementedType DEF TypeOK
  <2>2. TypeOK'
    BY <1>1, <1>t, <2>1 DEF Tick, TypeOK, devices, history
  <2>3. NoKeyLost'
    BY <1>1, <1>t DEF Tick, NoKeyLost, history
  <2> QED BY <1>1, <1>t, <2>2, <2>3, TablesKept DEF Tick, IInv, history
<1>2. ASSUME NEW key \in Key, Type(key) PROVE IInv'
  <2>1. uart \in Uarts(Key) /\ typed \in Seq(Key) /\ delivered \in Seq(Key)
    BY <1>t DEF TypeOK
  <2>2. Typed(uart, key) \in Uarts(Key) /\ Append(typed, key) \in Seq(Key)
    BY <2>1, TypedUart
  <2>3. TypeOK'
    BY <1>2, <1>t, <2>2 DEF Type, TypeOK
  <2>4. Append(typed, key) = delivered \o Waiting(Typed(uart, key))
    BY <1>t, <2>1, TypedDelivered, Zenon DEF NoKeyLost
  <2>5. NoKeyLost'
    BY <1>2, <2>4 DEF Type, NoKeyLost
  <2> QED BY <1>2, <1>t, <2>3, <2>5, TablesKept DEF Type, IInv
<1>3. ASSUME NEW p \in software.prvs, SwitchPrivilege(p) PROVE IInv'
  <2>1. p \in Privileges
    BY <1>3, <1>t, SoftwareType
  <2>2. TypeOK'
    BY <1>3, <1>t, <2>1 DEF SwitchPrivilege, TypeOK, devices, history
  <2>3. NoKeyLost'
    BY <1>3, <1>t DEF SwitchPrivilege, NoKeyLost, devices, history
  <2> QED BY <1>3, <1>t, <2>2, <2>3, TablesKept DEF SwitchPrivilege, IInv, history
<1>4. ASSUME NEW s \in software.satps, WriteSatp(s) PROVE IInv'
  <2>1. s \in Satps
    BY <1>4, <1>t, SoftwareType
  <2>2. TypeOK'
    BY <1>4, <1>t, <2>1 DEF WriteSatp, TypeOK, devices
  <2>3. NoKeyLost'
    BY <1>4, <1>t DEF WriteSatp, NoKeyLost, devices
  <2>4. since \subseteq since' /\ InForce(memory', satp') \subseteq since'
    BY <1>4 DEF WriteSatp
  <2>5. Backed(tlb', since') /\ Single(tlb', since')
    BY <1>4, <2>4, BackedByMore, SingleByMore DEF WriteSatp, IInv
  <2> QED BY <1>4, <1>t, <2>2, <2>3, <2>4, <2>5 DEF WriteSatp, IInv
<1>5. CASE Fence
  <2>1. /\ TlbFlush(tlb) \in Tlbs
        /\ Backed(TlbFlush(tlb), since') /\ Single(TlbFlush(tlb), since')
    BY <1>t, FlushType DEF TypeOK, Backed, Single
  <2>2. TypeOK'
    BY <1>5, <1>t, <2>1 DEF Fence, TypeOK, devices
  <2>3. NoKeyLost'
    BY <1>5, <1>t DEF Fence, NoKeyLost, devices
  <2> QED BY <1>5, <1>t, <2>1, <2>2, <2>3 DEF Fence, IInv
<1>r. ASSUME NEW a, Read(a), tlb' \in Tlbs, Backed(tlb', since), Single(tlb', since)
      PROVE  IInv'
  <2>1. /\ uart' \in Uarts(Key) /\ delivered' \in Seq(Key) /\ alive' \in BOOLEAN
        /\ NoKeyLost'
    BY <1>r, <1>t, ReadStep
  <2>2. TypeOK'
    BY <1>r, <1>t, <2>1 DEF Read, TypeOK
  <2>3. /\ Backed(tlb', since') /\ Single(tlb', since')
         /\ InForce(memory', satp') \subseteq since'
    BY <1>r DEF Read, IInv
  <2> QED BY <1>r, <1>t, <2>1, <2>2, <2>3 DEF Read, IInv
<1>6. ASSUME NEW va \in Addr, Load(va) PROVE IInv'
  <2>1. tlb' \in Tlbs /\ Backed(tlb', since) /\ Single(tlb', since)
    BY <1>6, AccessStep DEF Load
  <2> QED BY <1>6, <1>r, <2>1 DEF Load
<1>7. ASSUME NEW va \in Addr, FetchSingle(va) PROVE IInv'
  <2>1. tlb' \in Tlbs /\ Backed(tlb', since) /\ Single(tlb', since)
    BY <1>7, AccessStep DEF FetchSingle, Fetch
  <2> QED BY <1>7, <1>r, <2>1 DEF FetchSingle
<1>8. ASSUME NEW va \in Addr, FetchPair(va) PROVE IInv'
  <2> DEFINE a == Translated(va, "fetch").paddr
  <2>1. tlb' \in Tlbs /\ Backed(tlb', since) /\ Single(tlb', since)
    BY <1>8, AccessStep DEF FetchPair, Fetch
  <2>2. ReadDouble(a)
    BY <1>8 DEF FetchPair
  <2>3. alive' \in BOOLEAN
    BY <2>2, SurvivesType DEF ReadDouble
  <2> HIDE DEF a
  <2>4. TypeOK'
    BY <1>t, <2>1, <2>2, <2>3 DEF ReadDouble, TypeOK, devices, history
  <2>5. NoKeyLost'
    BY <1>t, <2>2 DEF ReadDouble, NoKeyLost, devices, history
  <2>6. /\ Backed(tlb', since') /\ Single(tlb', since')
         /\ InForce(memory', satp') \subseteq since'
    BY <2>1, <2>2 DEF ReadDouble, IInv, history
  <2> QED BY <1>t, <2>2, <2>4, <2>5, <2>6 DEF ReadDouble, IInv
<1>9. ASSUME NEW va \in Addr, FetchBeyond(va) PROVE IInv'
  <2>1. tlb' \in Tlbs /\ Backed(tlb', since) /\ Single(tlb', since)
    BY <1>9, AccessStep DEF FetchBeyond, Fetch
  <2>2. TypeOK'
    BY <1>9, <1>t, <2>1 DEF FetchBeyond, TypeOK, devices, history
  <2>3. NoKeyLost'
    BY <1>9, <1>t DEF FetchBeyond, NoKeyLost, devices, history
  <2>4. /\ Backed(tlb', since') /\ Single(tlb', since')
         /\ InForce(memory', satp') \subseteq since'
    BY <1>9, <2>1 DEF FetchBeyond, IInv, history
  <2> QED BY <1>9, <1>t, <2>2, <2>3, <2>4 DEF FetchBeyond, IInv
<1>10. ASSUME NEW s \in software.stores, Store(s[1], s[2]) PROVE IInv'
  <2>1. s[1] \in Addr /\ s[2] \in Word
    BY <1>10, <1>t, SoftwareType
  <2> DEFINE a == Translated(s[1], "store").paddr
  <2>2. tlb' \in Tlbs /\ Backed(tlb', since) /\ Single(tlb', since)
    BY <1>10, <2>1, AccessStep DEF Store
  <2>3. Write(a, s[2])
    BY <1>10 DEF Store
  <2> HIDE DEF a
  <2>4. /\ memory' \in [Cells -> Word] /\ mtimecmp' \in Counter /\ alive' \in BOOLEAN
        /\ since \subseteq since' /\ InForce(memory', satp') \subseteq since'
    BY <1>t, <2>1, <2>3, WriteStep
  <2>5. Backed(tlb', since') /\ Single(tlb', since')
    BY <2>2, <2>4, BackedByMore, SingleByMore
  <2>6. TypeOK'
    BY <1>t, <2>2, <2>3, <2>4 DEF Write, TypeOK
  <2>7. NoKeyLost'
    BY <1>t, <2>3 DEF Write, NoKeyLost
  <2> QED BY <1>t, <2>3, <2>4, <2>5, <2>6, <2>7 DEF Write, IInv
<1>11. CASE UNCHANGED vars
  <2>1. TypeOK'
    BY <1>11, <1>t DEF TypeOK, vars, devices, history
  <2>2. NoKeyLost'
    BY <1>11, <1>t DEF NoKeyLost, vars, devices, history
  <2> QED BY <1>11, <1>t, <2>1, <2>2, TablesKept DEF IInv, vars, history
<1> QED BY <1>1, <1>2, <1>3, <1>4, <1>5, <1>6, <1>7, <1>8, <1>9, <1>10, <1>11
        DEF Next, Ended

-----------------------------------------------------------------------------
(* Theorems                                                                *)

\* The strengthened invariant holds of every behaviour.
THEOREM IInvInvariant == Spec => []IInv
BY InitIInv, StepIInv, PTL DEF Spec

\* Registers, TLB and queues are well formed, whatever is accessed in whatever
\* order; the replacement index never leaves the TLB.
THEOREM TypeCorrect == Spec => []TypeOK
<1>1. IInv => TypeOK
  BY DEF IInv
<1> QED BY <1>1, IInvInvariant, PTL

\* No character typed is lost, doubled or overtaken on its way to the program.
THEOREM EveryKeyDelivered == Spec => []NoKeyLost
<1>1. IInv => NoKeyLost
  BY DEF IInv
<1> QED BY <1>1, IInvInvariant, PTL

\* No page is in the TLB twice unless its rights have changed since the last
\* fence, for every size of the TLB and every order of fills and flushes.
THEOREM NoDoubleEntries == Spec => []OneEntryPerPage
<1>1. IInv => OneEntryPerPage
  BY DEF IInv, Single, OneEntryPerPage
<1> QED BY <1>1, IInvInvariant, PTL

\* What an access is granted, the tables have said of its page since the last
\* fence, though they may say something else by now.
THEOREM GrantsSinceFence == Spec => []GrantedSinceFence
<1>1. IInv => GrantedSinceFence
  <2> SUFFICES ASSUME IInv, satp.on,
                      NEW va \in Addr, NEW kind \in Kinds, NEW p \in Translating,
                      ~Answer(va, kind, p).fault
               PROVE  \E said \in since :
                        /\ said[1] = VpnOf(va)
                        /\ said[2].mapped /\ FlagOf[kind] \in said[2].flags
                        /\ Answer(va, kind, p).paddr \in
                             {WalkAddress(said[2], va), HitAddress(said[2].ppn, va)}
    BY DEF GrantedSinceFence
  <2> DEFINE v == VpnOf(va)
             leaf == Leaf(memory, satp.root, v)
             i == FirstMatch(tlb, v)
  <2>1. Translates(satp, p)
    BY DEF Translating, Translates, PRV_M, PRV_S, PRV_U
  <2>2. CASE TlbHit(tlb, v, kind)
    <3>1. Answer(va, kind, p) = Hit(tlb, va)
      BY <2>1, <2>2 DEF Answer, Translate
    <3>2. i \in Matches(tlb, v) /\ FlagOf[kind] \in tlb.entry[i].flags
      BY <2>2, FirstIsMatch DEF TlbHit
    <3>3. i \in 0 .. TlbSize - 1 /\ tlb.entry[i].valid /\ tlb.entry[i].vpn = v
      BY <3>2 DEF Matches
    <3>4. Answer(va, kind, p).paddr = HitAddress(tlb.entry[i].ppn, va)
      BY <3>1 DEF Hit
    <3> HIDE DEF v, i
    <3>5. Said(tlb.entry[i], since)
      BY <3>3 DEF IInv, Backed
    <3>6. PICK said \in since :
            /\ said[1] = tlb.entry[i].vpn
            /\ said[2].mapped /\ said[2].ppn = tlb.entry[i].ppn
            /\ said[2].flags = tlb.entry[i].flags
      BY <3>5 DEF Said
    <3>7. Answer(va, kind, p).paddr = HitAddress(said[2].ppn, va)
      BY <3>4, <3>6
    <3>8. said[1] = v /\ FlagOf[kind] \in said[2].flags
      BY <3>2, <3>3, <3>6
    <3> QED BY <3>6, <3>7, <3>8 DEF v
  <2>3. CASE ~TlbHit(tlb, v, kind)
    <3>1. Answer(va, kind, p) = Walk(tlb, leaf, va, kind, p)
      BY <2>1, <2>3 DEF Answer, Translate
    <3>2. Permits(leaf, kind, p) /\ Answer(va, kind, p).paddr = WalkAddress(leaf, va)
      BY <3>1 DEF Walk, PageFault
    <3>3. <<v, leaf>> \in since
      <4>1. v \in Vpns
        BY VpnType
      <4>2. <<v, leaf>> \in InForce(memory, satp)
        BY <4>1 DEF InForce
      <4> QED BY <4>2 DEF IInv
    <3> HIDE DEF v, leaf
    <3>4. leaf.mapped /\ FlagOf[kind] \in leaf.flags
      BY <3>2 DEF Permits
    <3> QED BY <3>2, <3>3, <3>4 DEF v
  <2> QED BY <2>2, <2>3
<1> QED BY <1>1, IInvInvariant, PTL

\* Once pending, the timer stays so until mtimecmp is written or the clock wraps.
THEOREM TimerLevel == Spec => TimerStays
<1>1. IInv /\ [Next]_vars =>
        [ TimerPending(mtime, mtimecmp) /\ mtimecmp' = mtimecmp
            => TimerPending(mtime', mtimecmp') \/ mtime' = Zero ]_vars
  <2> SUFFICES ASSUME IInv, [Next]_vars, TimerPending(mtime, mtimecmp), mtimecmp' = mtimecmp
               PROVE  TimerPending(mtime', mtimecmp') \/ mtime' = Zero
    OBVIOUS
  <2>1. mtime' = mtime \/ mtime' = Incremented(mtime)
    BY DEF Next, Ended, vars, devices, history, Tick, Type, SwitchPrivilege, WriteSatp, Fence,
           Load, Store, FetchPair, FetchSingle, FetchBeyond, Read, ReadDouble, Write
  <2>2. mtime \in Counter /\ mtimecmp \in Counter
    BY DEF IInv, TypeOK
  <2> QED BY <2>1, <2>2, ClockMovesOn DEF TimerPending
<1> QED BY <1>1, IInvInvariant, PTL DEF Spec, TimerStays
=============================================================================
