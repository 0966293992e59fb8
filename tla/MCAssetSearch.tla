---------------------------- MODULE MCAssetSearch ----------------------------
(* A small instance of AssetSearch. *)
EXTENDS AssetSearch

CONSTANTS o1, o2, t1, t2

\* Two assets of the searcher and one of another organisation.
OneForeign == [a \in Assets |-> IF a = 2 THEN o2 ELSE o1]
LastOther == [a \in Assets |-> IF a = 1 THEN t1 ELSE t2]
SharedCollection == [o \in Orgs |-> "c"]
UpToTwoTypes == {{}, {t2}, {t1, t2}}
=============================================================================
