---------------------------- MODULE MemorySystem ----------------------------
(***************************************************************************)
(* The memory system: physical memory, the CLINT and UART registers mapped *)
(* into its addresses, and translation in front of them, driven by every   *)
(* order of clock ticks, typed characters, instruction fetches, loads,     *)
(* stores, fences and changes of satp and privilege.                       *)
(*                                                                         *)
(* A behaviour belongs to one repertoire of requests, chosen at the start, *)
(* so that one instance asks several questions.                            *)
(***************************************************************************)
EXTENDS Devices, Sv32

CONSTANTS
  CLINT, CLINT_MTIME, CLINT_MTIMECMP,   \* the window, and the low words in it
  UART_TX_ADDR, UART_LSR_ADDR,
  Key,                                  \* what can be typed
  Workloads                             \* the repertoires

Privileges == {PRV_U, PRV_S, PRV_M}

\* image is the program loaded, keys a bound on the characters typed.
Workload == [image : [Cells -> Word],
             loads : SUBSET Addr, fetches : SUBSET Addr, stores : SUBSET (Addr \X Word),
             satps : SUBSET Satps, prvs : SUBSET Privileges,
             fences : BOOLEAN, ticks : BOOLEAN, keys : Nat]

ASSUME MapAssumption ==
  /\ CLINT \subseteq Addr
  /\ {CLINT_MTIME, CLINT_MTIME + 1, CLINT_MTIMECMP, CLINT_MTIMECMP + 1} \subseteq CLINT
  /\ {UART_TX_ADDR, UART_LSR_ADDR} \subseteq Addr \ CLINT
  /\ NoKey \notin Key
ASSUME WorkloadsAssumption ==
  /\ Workloads \subseteq Workload
  /\ \A w \in Workloads : \A s \in w.satps : TableAt(s.root)

VARIABLES
  software,                \* the repertoire of this behaviour
  memory,
  mtime, mtimecmp, uart,   \* the devices
  tlb,
  satp, prv,               \* read by translate on every access
  alive,                   \* no exception has ended the process
  typed, delivered,        \* history: characters typed, and read by the program
  since                    \* history: what the tables said since the last fence

devices == <<mtime, mtimecmp, uart>>
history == <<typed, delivered, since>>
vars == <<software, memory, devices, tlb, satp, prv, alive, history>>

\* What the tables say now.
InForce(m, s) ==
  IF s.on THEN {<<v, Leaf(m, s.root, v)>> : v \in Vpns} ELSE {}

Init ==
  /\ software \in Workloads
  /\ memory = software.image
  /\ mtime = Zero /\ mtimecmp = Zero /\ uart = NoInput
  /\ tlb = EmptyTlb
  /\ satp = Bare /\ prv = PRV_M
  /\ alive = TRUE
  /\ typed = <<>> /\ delivered = <<>>
  /\ since = InForce(memory, satp)

-----------------------------------------------------------------------------
(* Outside the memory system                                               *)

Tick ==
  /\ alive /\ software.ticks
  /\ mtime' = Incremented(mtime)
  /\ UNCHANGED <<software, memory, mtimecmp, uart, tlb, satp, prv, alive, history>>

Type(key) ==
  /\ alive /\ Len(typed) < software.keys
  /\ typed' = Append(typed, key)
  /\ uart' = Typed(uart, key)
  /\ UNCHANGED <<software, memory, mtime, mtimecmp, tlb, satp, prv, alive, delivered, since>>

\* Traps and returns, and writes to satp: the TLB is left alone by both.
SwitchPrivilege(p) ==
  /\ alive
  /\ prv' = p
  /\ UNCHANGED <<software, memory, devices, tlb, satp, alive, history>>

WriteSatp(s) ==
  /\ alive
  /\ satp' = s
  /\ since' = since \cup InForce(memory, satp')
  /\ UNCHANGED <<software, memory, devices, tlb, prv, alive, typed, delivered>>

\* SFENCE.VMA.
Fence ==
  /\ alive /\ software.fences
  /\ tlb' = TlbFlush(tlb)
  /\ since' = InForce(memory, satp)
  /\ UNCHANGED <<software, memory, devices, satp, prv, alive, typed, delivered>>

-----------------------------------------------------------------------------
(* Physical accesses                                                       *)

\* addr + n > MEMORY_SIZE in 32 bits: the sum may wrap around.
Refused(a, n) == (a + n) % AddrSpace > MemorySize
Inside(a, n)  == a + n <= MemorySize

\* An access beyond memory that is not refused is undefined: the process ends
\* or goes on.
Survives(a, n) == CASE Inside(a, n)  -> {TRUE}
                    [] Refused(a, n) -> {FALSE}
                    [] OTHER         -> BOOLEAN

\* read(): every read polls the keyboard, wherever it goes.
Read(a) ==
  LET polled == Polled(uart)
      data   == a = UART_TX_ADDR
  IN  /\ uart' = IF data THEN DataTaken(polled) ELSE polled
      /\ delivered' = IF data /\ polled.full
                        THEN Append(delivered, ReadData(polled)) ELSE delivered
      /\ alive' \in IF a \in CLINT \cup {UART_TX_ADDR, UART_LSR_ADDR}
                      THEN {TRUE} ELSE Survives(a, 1)
      /\ UNCHANGED <<software, memory, mtime, mtimecmp, satp, prv, typed, since>>

\* read_double_instr(): neither the keyboard nor the devices.
ReadDouble(a) ==
  /\ alive' \in Survives(a, 2)
  /\ UNCHANGED <<software, memory, devices, satp, prv, history>>

\* write().  The window hides the memory behind it; mtime is read-only.
Write(a, data) ==
  /\ mtimecmp' = CASE a = CLINT_MTIMECMP     -> WithLow(mtimecmp, data)
                   [] a = CLINT_MTIMECMP + 1 -> WithHigh(mtimecmp, data)
                   [] OTHER                  -> mtimecmp
  /\ memory' = IF a \in Cells \ (CLINT \cup {UART_TX_ADDR})
                 THEN [memory EXCEPT ![a] = data] ELSE memory
  /\ since' = since \cup InForce(memory', satp)
  /\ alive' \in IF a \in CLINT \cup {UART_TX_ADDR} THEN {TRUE} ELSE Survives(a, 1)
  /\ UNCHANGED <<software, mtime, uart, satp, prv, typed, delivered>>

-----------------------------------------------------------------------------
(* The accesses of the core.  One that faults changes nothing here: the    *)
(* core traps, which is a switch of context.                               *)

Translated(va, kind) == Translate(tlb, memory, va, kind, satp, prv)

Load(va) ==
  LET t == Translated(va, "load")
  IN  /\ alive /\ va \in software.loads
      /\ ~t.fault
      /\ tlb' = t.tlb
      /\ Read(t.paddr)

Store(va, data) ==
  LET t == Translated(va, "store")
  IN  /\ alive /\ <<va, data>> \in software.stores
      /\ ~t.fault
      /\ tlb' = t.tlb
      /\ Write(t.paddr, data)

Fetch(va) == alive /\ va \in software.fetches /\ ~Translated(va, "fetch").fault

PageOf(a) == a \div PageSize
CrossesPage(a) == PageOf(a) # PageOf((a + 1) % AddrSpace)

\* The bound on the pc is tested on the virtual address, and wraps around too.
PairFits(va) == ~Refused(va, 2)

FetchPair(va) ==
  LET t == Translated(va, "fetch")
  IN  /\ Fetch(va) /\ PairFits(va)
      /\ ~CrossesPage(t.paddr) /\ ~Refused(t.paddr, 2)
      /\ tlb' = t.tlb
      /\ ReadDouble(t.paddr)

FetchSingle(va) ==
  LET t == Translated(va, "fetch")
  IN  /\ Fetch(va)
      /\ IF PairFits(va) THEN CrossesPage(t.paddr) ELSE ~Refused(va, 1)
      /\ tlb' = t.tlb
      /\ Read(t.paddr)

\* The frame is beyond memory: nothing is fetched, the TLB is filled.
FetchBeyond(va) ==
  LET t == Translated(va, "fetch")
  IN  /\ Fetch(va) /\ PairFits(va)
      /\ ~CrossesPage(t.paddr) /\ Refused(t.paddr, 2)
      /\ tlb' = t.tlb
      /\ UNCHANGED <<software, memory, devices, satp, prv, alive, history>>

-----------------------------------------------------------------------------

Ended == ~alive /\ UNCHANGED vars

Next ==
  \/ Tick \/ Fence \/ Ended
  \/ \E key \in Key : Type(key)
  \/ \E p \in software.prvs : SwitchPrivilege(p)
  \/ \E s \in software.satps : WriteSatp(s)
  \/ \E va \in Addr : Load(va) \/ FetchPair(va) \/ FetchSingle(va) \/ FetchBeyond(va)
  \/ \E s \in software.stores : Store(s[1], s[2])

Spec == Init /\ [][Next]_vars

-----------------------------------------------------------------------------
(* Properties                                                              *)

\* Registers, entries and queues are well formed: the replacement index stays
\* inside the TLB and every word written fits.
TypeOK ==
  /\ memory \in [Cells -> Word]
  /\ mtime \in Counter /\ mtimecmp \in Counter /\ uart \in Uarts(Key)
  /\ tlb \in Tlbs
  /\ satp \in Satps /\ prv \in Privileges
  /\ alive \in BOOLEAN
  /\ typed \in Seq(Key) /\ delivered \in Seq(Key)

\* The privilege levels whose accesses are translated.
Translating == {PRV_U, PRV_S}
Answer(va, kind, p) == Translate(tlb, memory, va, kind, satp, p)

\* The rights of a page have changed since the last SFENCE.VMA.
RightsChanged(vpn, said) ==
  \E a, b \in said : /\ a[1] = vpn /\ a[2].mapped
                     /\ b[1] = vpn /\ b[2].mapped
                     /\ a[2].flags # b[2].flags

\* A page is in the TLB twice only if a change of its rights has not been
\* fenced: an insertion happens behind an entry that denies, never beside one
\* that would have granted, however the replacement index has run around.  (A
\* second entry cannot be reached, and is in the place of another page's.)
OneEntryPerPage ==
  \A i, j \in 0 .. TlbSize - 1 :
    /\ i # j /\ tlb.entry[i].valid /\ tlb.entry[j].valid
    /\ tlb.entry[i].vpn = tlb.entry[j].vpn
    => RightsChanged(tlb.entry[i].vpn, since)

\* A grant may be stale, but never older than the last SFENCE.VMA: what an
\* access is given (the right, and the page number the address is built from)
\* is what the tables said of that very page at some moment since.  (Of the
\* user bit nothing is claimed: entries do not hold it.)
GrantedSinceFence ==
  satp.on =>
    \A va \in Addr, kind \in Kinds, p \in Translating :
      LET t == Answer(va, kind, p)
      IN  ~t.fault =>
            \E said \in since :
              /\ said[1] = VpnOf(va)
              /\ said[2].mapped /\ FlagOf[kind] \in said[2].flags
              /\ t.paddr \in {WalkAddress(said[2], va), HitAddress(said[2].ppn, va)}

\* No character is lost, doubled or overtaken between the host and the program,
\* whichever reads happen to poll the keyboard.
NoKeyLost == typed = delivered \o Waiting(uart)

\* The timer is level-triggered: once pending it stays so, however the core is
\* delayed in looking, until mtimecmp is written or 64 bits have run out.
TimerStays ==
  [][ TimerPending(mtime, mtimecmp) /\ mtimecmp' = mtimecmp
        => TimerPending(mtime', mtimecmp') \/ mtime' = Zero ]_vars

\* What a TLB is for: while the tables are what they were at the last fence,
\* translation answers as the page walk would, in the verdict and the address.
TlbTransparent ==
  satp.on /\ since = InForce(memory, satp) =>
    \A va \in Addr, kind \in Kinds, p \in Translating :
      LET t    == Answer(va, kind, p)
          leaf == Leaf(memory, satp.root, VpnOf(va))
      IN  /\ t.fault <=> ~Permits(leaf, kind, p)
          /\ ~t.fault => t.paddr = WalkAddress(leaf, va)
=============================================================================
