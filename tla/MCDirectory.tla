----------------------------- MODULE MCDirectory -----------------------------
(* DirectorySource with writes of the tree that is live already.                *)
EXTENDS DirectorySource
=============================================================================
