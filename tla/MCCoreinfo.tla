------------------------------ MODULE MCCoreinfo -----------------------------
(* An enumeration and a number in the configurator, three priorities in     *)
(* bootorder, so that paging forwards and backwards differ; two values for  *)
(* one option of each kind; one typed text that is refused.                 *)
EXTENDS Coreinfo, TLC

CONSTANTS boot_option, debug_level, HD, USB, PXE, no, v0, v1, junk

MCOptions == {boot_option, debug_level, HD, USB, PXE}

MCFieldsOf ==
  [w \in Windows |-> IF w = "configurator" THEN <<boot_option, debug_level>>
                                           ELSE <<HD, USB, PXE>>]

MCKind == [o \in MCOptions |-> IF o = boot_option THEN "e" ELSE "h"]

MCValues(o) == IF o \in {boot_option, debug_level, USB} THEN {v0, v1} ELSE {v0}

MCDefault == [o \in MCOptions |-> v0]

MCJunk == {junk}

MCCount == [c \in 1..4 |-> IF c = 1 THEN 2 ELSE 1]

=============================================================================
