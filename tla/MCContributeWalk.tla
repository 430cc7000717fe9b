-------------------------- MODULE MCContributeWalk --------------------------
(* Small instances of a contributor's walk.                                *)
EXTENDS ContributeWalk

CONSTANTS me, other

OneUser == {me}
TwoUsers == {me, other}
Nobody == {}
AnAdmin == {Admin}
Company == {Admin, other}
TwoImages == {1, 2}
ThreeImages == {1, 2, 3}
OneBoxEach == Images \X {1}
UnevenBoxes == {<<1, 1>>, <<1, 2>>, <<2, 1>>}
=============================================================================
