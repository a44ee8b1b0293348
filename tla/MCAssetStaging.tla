---------------------------- MODULE MCAssetStaging ----------------------------
(* Two models of three and two blocks; releases that split them otherwise,   *)
(* and one whose parts do not make up the model.                             *)
EXTENDS AssetStaging

MCWhole == << <<1, 2, 3>>, <<4, 5>> >>

Halves  == << << <<1, 2>>, <<3>> >>,      << <<4>>, <<5>> >> >>
Resplit == << << <<1>>, <<2>>, <<3>> >>,  << <<4, 5>> >> >>
Broken  == << << <<1, 2>>, <<2>>, <<3>> >>, <<>> >>

MCReleases == {Halves, Resplit, Broken}
=============================================================================
