-------------------------- MODULE MCMetricVersions --------------------------
(***************************************************************************)
(* A finite instance of MetricVersions: the edit files are interchangeable.*)
(***************************************************************************)
EXTENDS MetricVersions, TLC

EditNames == Permutations(EditIds)
=============================================================================
