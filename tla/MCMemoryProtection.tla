--------------------------- MODULE MCMemoryProtection ---------------------------
(* A small instance of MemoryProtection for TLC: flash at the null address,  *)
(* two pages of RAM and one of peripherals.                                  *)
EXTENDS MemoryProtection

FlashPage == [start |-> 0, size |-> 1]
RamPages == [start |-> 1, size |-> 2]
PeripheralPage == [start |-> 3, size |-> 1]
===============================================================================
