--------------------------- MODULE MCLedgerFile ---------------------------
(* One ledger file on a small instance.                                    *)
EXTENDS LedgerFile, TLC

CONSTANTS p1, p2

PayloadSymmetry == Permutations({p1, p2})
=============================================================================
