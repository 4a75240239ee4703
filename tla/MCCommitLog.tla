---------------------------- MODULE MCCommitLog -----------------------------
(***************************************************************************)
(* CommitLog with a base view, an input view and a signer view, and two    *)
(* revisions of one name: different keys for the views that index by       *)
(* revision, the same key for the input view.                              *)
(***************************************************************************)
EXTENDS CommitLog

CONSTANTS base, input, sign, rev1, rev2

MCViews == {base, input, sign}
MCRecords == {rev1, rev2}
MCKeyOf ==
  [v \in MCViews |-> [r \in MCRecords |-> IF v = input THEN rev1 ELSE r]]
=============================================================================
