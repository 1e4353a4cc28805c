--------------------------- MODULE MCMemorySystem ---------------------------
(***************************************************************************)
(* An instance of the memory system: sixteen addresses in four pages.      *)
(*   page 0   the root table (cells 0 and 1) and data                      *)
(*   page 1   the second table (cells 4 and 5) and data                    *)
(*   page 2   memory that the CLINT window hides                           *)
(*   page 3   beyond memory: the UART, and the top of the address space    *)
(***************************************************************************)
EXTENDS MemorySystem

Frame(flags, user, ppn) == [valid |-> TRUE, flags |-> flags, user |-> user, ppn |-> ppn]

MCPteOf ==
  [w \in Word |-> CASE w = 1 -> Frame({}, FALSE, 1)          \* the second table
                    [] w = 2 -> Frame({"R", "W"}, TRUE, 0)
                    [] w = 3 -> Frame({"R", "X"}, FALSE, 1)
                    [] w = 4 -> Frame({"R", "X"}, TRUE, 3)
                    [] w = 5 -> Frame({"X"}, TRUE, 2)
                    [] OTHER -> NoPte]

MCClint == 8 .. 11

\* Page 0 is mapped executable at page 0, page 1 writable onto page 0 (the
\* root table included), pages 2 and 3 are a megapage onto the devices.
Image == [a \in Cells |-> CASE a = 0 -> 1 [] a = 1 -> 4 [] a = 4 -> 3 [] a = 5 -> 2
                            [] OTHER -> 0]

Idle == [image |-> Image, loads |-> {}, fetches |-> {}, stores |-> {},
         satps |-> {Bare}, prvs |-> {PRV_M}, fences |-> FALSE, ticks |-> FALSE, keys |-> 0]

Root(ppn) == [on |-> TRUE, root |-> ppn]

\* Tables that are rewritten, in memory and through themselves, under a TLB.
Paging ==
  [Idle EXCEPT !.loads = {2, 6, 10}, !.fetches = {0},
               !.stores = {<<0, 2>>, <<4, 0>>, <<4, 2>>},
               !.satps = {Bare, Root(0)}, !.prvs = {PRV_M, PRV_S, PRV_U},
               !.fences = TRUE]

\* Two address spaces over the same tables.
Spaces ==
  [Idle EXCEPT !.loads = {0, 7}, !.fetches = {4, 8}, !.stores = {<<4, 3>>},
               !.satps = {Root(0), Root(1)}, !.prvs = {PRV_S, PRV_U}, !.fences = TRUE]

\* Typing while the program polls, by asking and by the way.
Typing == [Idle EXCEPT !.loads = {6, UART_TX_ADDR, UART_LSR_ADDR}, !.fetches = {0, 3, 11},
                       !.keys = 4]

\* The timer, and mtimecmp written in halves in every order.
Timing == [Idle EXCEPT !.loads = {8, 9, 10, 11}, !.ticks = TRUE,
                       !.stores = {8, 9, 10} \X Word]

\* Every address, the wrapping ones included, untranslated.
Edges == [Idle EXCEPT !.loads = Addr, !.fetches = Addr,
                      !.stores = {7, 8, 9, 10, 11, 12, 13, 14, 15} \X {Ones}, !.keys = 1]

MCWorkloads == {Paging, Spaces, Typing, Timing, Edges}
HitWorkloads == {Paging}
=============================================================================
