--------------------------- MODULE MCGuestSnapshot ---------------------------
(***************************************************************************)
(* GuestSnapshot on the words of MCGuestDebug.                             *)
(***************************************************************************)
EXTENDS GuestSnapshot, MCGuestDebug

SnapImages == {Image(<<"ebreak", "sd", "zero">>)}
(* Nothing more is promised once a gap was taken: such states are reached, *)
(* and not left.                                                           *)
Unbroken == breach = {}

SnapContexts == {[pc |-> 1, x |-> 2, mcause |-> "fault"]}
=============================================================================
