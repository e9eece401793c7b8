----------------------------- MODULE MCAccounts -----------------------------
(* Accounts on three connections with two public keys, and allow lists that *)
(* let everybody in or one key only.                                        *)
EXTENDS Accounts

CONSTANTS k1, k2

MCAllowLists == {{}, {k1}}
=============================================================================
