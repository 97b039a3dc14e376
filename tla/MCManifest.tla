----------------------------- MODULE MCManifest -----------------------------
(* Small instances of ChangeManifest for TLC. *)
EXTENDS ChangeManifest

NowOrLater == {0, 2}

=============================================================================
