-------------------------- MODULE MCAssetPipeline --------------------------
(* Small instances of AssetPipeline. *)
EXTENDS AssetPipeline

CONSTANTS p1, p2, a1, c1, c2, d1, d2

OneProc      == {p1}
TwoProcs     == {p1, p2}
OneAsset     == {a1}
OneComplete  == {c1}
TwoCompletes == {c1, c2}
TwoDeletes   == {d1, d2}

\* No property of the fair run fails by the object store.
StorageFaults == {"storage"}
=============================================================================
