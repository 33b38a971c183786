------------------------------ MODULE MCSpiPort ------------------------------
(* Bytes of two bits and lengths of two binary digits: transfers of up to   *)
(* four bytes and a bit fit, longer ones do not.  The rates are one whose   *)
(* divider is cut to a multiple of five, the one at the limit up to which   *)
(* it is exact, and two that are refused.                                   *)
EXTENDS SpiPort

MCRates == {0, 2, 7, 51}

=============================================================================
