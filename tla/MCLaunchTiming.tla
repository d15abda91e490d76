--------------------------- MODULE MCLaunchTiming ---------------------------
(* LaunchTiming for the adapters of ProviderCatalog. *)
EXTENDS LaunchTiming, ProviderCatalog

(* Each is the subject of a finding: its key, or its stream. *)
Outliers == {RopeAiterTriton, MoeGemmFlyDSL, MoeBlockFlyDSL}

SoundAdapters == (WithCache \cup WithoutCache) \ Outliers
MoeAdapters   == {MoeGemmFlyDSL}
RopeAdapters  == {RopeAiterTriton}
=============================================================================
