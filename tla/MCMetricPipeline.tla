------------------------ MODULE MCMetricPipeline ------------------------
(***************************************************************************)
(* Small instances of the metric pipeline.                                 *)
(***************************************************************************)
EXTENDS MetricPipeline

(***************************************************************************)
(* Every other second closes a bucket.  With the last day of it, this      *)
(* timeframe has two scopes.                                               *)
(***************************************************************************)
LongTimeframe == {2}
=============================================================================
