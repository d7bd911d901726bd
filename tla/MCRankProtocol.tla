--------------------------- MODULE MCRankProtocol ---------------------------
(***************************************************************************)
(* Window plans for the runs of RankProtocol.                              *)
(***************************************************************************)
EXTENDS RankProtocol

FewPlans == {<<"run", "skip">>, <<"skip", "run">>, <<"run", "run">>}
=============================================================================
