-------------------------------- MODULE MCCli --------------------------------
(***************************************************************************)
(* A package with a regional check of one service and a global check of    *)
(* another (and packages with the latter alone, with a class declared      *)
(* twice, or with one without a rule_id), every service filter, a rule     *)
(* filter (which also names a rule that no check has) or none, no region,  *)
(* two or one of them twice, every threshold, and accounts with any of two *)
(* flaws, a grave one of the account and a slight one in the region west.  *)
(* One of them may come or go during the scan, and a check may break, lose *)
(* or mistake something at any moment.                                     *)
(***************************************************************************)
EXTENDS Cli

CONSTANTS rootMfa, trailOff, nameless, typo, iam, logs, east, west, x

MCCheck == {rootMfa, trailOff, nameless}
MCGlobalCheck == {rootMfa, nameless}
MCMalformed == {nameless}
MCService == {iam, logs}
MCServiceOf == [c \in MCCheck |-> IF c = trailOff THEN logs ELSE iam]
MCRegion == {east, west}
MCResource == {x}
MCBuildError == <<"build">>

MCDeclaredLists ==
  {<<rootMfa>>, <<trailOff, rootMfa>>, <<trailOff, rootMfa, trailOff>>,
   <<nameless, rootMfa>>}
MCCheckLists ==
  {<<>>, <<rootMfa>>, <<trailOff>>, <<trailOff, rootMfa>>, <<trailOff, trailOff>>,
   <<trailOff, rootMfa, trailOff>>, <<nameless, rootMfa>>}
MCRegionLists == {<<>>, <<east, west>>, <<west, west>>}
MCSessionRegions == {NoRegion}
MCRuleFilters == {{}, {trailOff, typo}}

Flaw(c, g) == [rule |-> c, resource |-> x, region |-> g]
MCFlaws == {Flaw(rootMfa, NoRegion), Flaw(trailOff, west)}
MCMisreading == {trailOff}

MCSeverity ==
  [f \in Finding |-> IF f.rule = rootMfa THEN 4 ELSE 2]
=============================================================================
