----------------------------- MODULE MCS3Checks ------------------------------
(***************************************************************************)
(* Two buckets, one at home in us-east-1 and one in another region, under  *)
(* each of the six checks, and two changes of the account at any moments   *)
(* of the run.                                                             *)
(***************************************************************************)
EXTENDS S3Checks

CONSTANTS logs, media, east, central

MCBucket == {logs, media}
MCRegion == {east, central}
MCHome == [b \in MCBucket |-> IF b = logs THEN east ELSE central]
MCTlsRule == {"tls-not-enforced"}
=============================================================================
