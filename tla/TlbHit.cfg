\* A TLB hit against the page walk.
SPECIFICATION Spec
CONSTANTS
  WordSize = 6
  PageSize = 4
  TableSize = 2
  MemorySize = 12
  TlbSize = 2
  PteOf <- MCPteOf
  CLINT <- MCClint
  CLINT_MTIMECMP = 8
  CLINT_MTIME = 10
  UART_TX_ADDR = 12
  UART_LSR_ADDR = 13
  Key = {"a", "b"}
  Workloads <- HitWorkloads
INVARIANTS
  TlbTransparent
