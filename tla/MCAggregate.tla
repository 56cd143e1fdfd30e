---------------------------- MODULE MCAggregate ----------------------------
(***************************************************************************)
(* Small instances of Aggregate for TLC.                                   *)
(***************************************************************************)
EXTENDS AggregateProperties, TLC

CONSTANTS r1, r2, r3, d1, d2

\* A record of each table: a seeded bridge asset, a seeded defect finding, and
\* an inspection round that requests may create.
MCTableOf == [c \in Codes |->
    CASE c = "ba" -> "BridgeAsset"
      [] c = "df" -> "DefectFinding"
      [] c = "ir" -> "InspectionRound"]

\* BA-002 and DF-001 of the seed, those that are among the codes.
MCSeedStatus == [c \in Codes \ {"ir"} |->
    IF c = "ba" THEN "restricted" ELSE "new"]

Symmetry == Permutations({r1, r2, r3})

=============================================================================
