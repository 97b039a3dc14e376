------------------------------ MODULE MCBathing ------------------------------
(* Small instances of BathingImport for TLC. *)
EXTENDS BathingImport

CONSTANTS b1, b2, b3, x

SitePair == {b1, b2}
SitesAndOneMore == {b1, b2, x}
SiteTriple == {b1, b2, b3}

=============================================================================
