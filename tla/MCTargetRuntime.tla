--------------------------- MODULE MCTargetRuntime ---------------------------
(* Two articles for one target, whose sweep has one flush running beside    *)
(* the router.                                                              *)
EXTENDS TargetRuntime

CONSTANTS Kinds, SummaryThresholds

MCModes == [kind : Kinds, threshold : {2}]
             \cup [kind : Kinds \cap {"summary"}, threshold : SummaryThresholds]
MCRowKey == ({"route", "item"} \X Article) \cup ({"card"} \X WindowId)
=============================================================================
