----------------------------- MODULE MCTestSender -----------------------------
(***************************************************************************)
(* TestSender with images whose cells read as a size over the limit, as an *)
(* empty image and as an image that is there.                              *)
(***************************************************************************)
EXTENDS TestSender

OneAndTwoCells == {<<3>>, <<0, 1>>}
=============================================================================
