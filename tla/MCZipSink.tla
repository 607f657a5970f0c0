----------------------------- MODULE MCZipSink ------------------------------
(* A small run for TLC: one device with two files, one with a single file.  *)
EXTENDS ZipSink, TLC

CONSTANTS a, b, c, dev, solo

MCGroupOf == a :> dev @@ b :> dev @@ c :> solo
MCWeight == a :> 1 @@ b :> 2 @@ c :> 2

\* The manifest grows with its flags, and not evenly: compression decides.
MCManifestSize == [s \in SUBSET Files |-> IF s = {} THEN 2 ELSE 1 + Cardinality(s)]
MCManifestBound == 5
=============================================================================
