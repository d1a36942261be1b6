---------------------------- MODULE MCPrechecks ----------------------------
(* Scanners, what they may print and what the tables hold, for the scans     *)
(* that end by themselves and for those that are timed out and cancelled.    *)
EXTENDS Prechecks

Hit(r, f) == [rule |-> r, file |-> f]

MCFinding == [rule : {"r1", "r2"}, file : {"a", "b", None}]
MCPrintable ==
  {{Hit("r1", "a"), Hit("r2", "a"), Hit("r2", "b"), Hit("r1", None)}}
MCScopes == {{}, {"a"}}
MCStatuses ==
  { t \in Rows : t["r1"] \in {None, "candidate"} /\ t["r2"] = "verified" }

=============================================================================
