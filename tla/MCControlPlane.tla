--------------------------- MODULE MCControlPlane ---------------------------
(* A source, a destination in the same or in another store, one pipeline of  *)
(* the two that can exist, active or paused before its destination was       *)
(* enabled, and a failed job of a queue pipeline.                            *)
EXTENDS ControlPlane, TLC

CONSTANTS s1, s2, d1, d2, p1, p2, j1, j2, o1, r1, pl1, pl2, c1, c2

Configured(there, status) ==
    LET mode == IF there = pl1 THEN "inline" ELSE "queue" IN
    (s1 :> SourceDoc(pl1)) @@ (d1 :> DestinationDoc(there, status = "active"))
    @@ (p1 :> [PipelineDoc({s1}, d1, mode) EXCEPT !.status = status])
    @@ (j1 :> IF mode = "queue" THEN [JobDoc(p1, r1) EXCEPT !.status = "failed"] ELSE None)
    @@ [id \in Ids |-> None]

MCInitialStores == {Configured(there, st) : there \in Places, st \in {"active", "paused"}}

MCBundle == ExportBundle(Configured(pl2, "active"), {p1})
MCNewIds == (s1 :> s2) @@ (d1 :> d2) @@ (p1 :> p2)
=============================================================================
