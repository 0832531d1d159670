---------------------------- MODULE MCDeployment ----------------------------
(***************************************************************************)
(* Instances of Deployment for TLC.                                        *)
(***************************************************************************)
EXTENDS Deployment

CONSTANTS b1, b2, b3

Adapters == <<"PoRepMarket", "DataCapEvidenceAdapter", "SectorEvidenceAdapter">>
AdaptersAndRegistry ==
  <<"PoRepMarket", "DataCapEvidenceAdapter", "SPRegistry", "SectorEvidenceAdapter">>
Helpers == <<"PoRepMarketViewHelper">>

\* The Validator of b1 has a layout of its own, that of b2 extends that of b3.
Layouts ==
  [name \in UpgradeTargets |->
     IF name = "Validator" THEN {<<b1, b1>>, <<b2, b2>>, <<b3, b3>>, <<b3, b2>>}
     ELSE Builds \X Builds]

AllLayouts == [name \in UpgradeTargets |-> Builds \X Builds]

MarketOnly == {<<<<"PoRepMarket">>, "standard">>}
ValidatorAndCalibnet ==
  {<<<<"Validator">>, "standard">>, <<<<"DataCapEvidenceAdapter">>, "calibnet">>}
=============================================================================
