----------------------------- MODULE MCAsyncTcp -----------------------------
(* AsyncTcp with an address that has a different byte in every place.      *)
EXTENDS AsyncTcp

MCAddrs == {<<11, 211, 192, 168, 0, 7>>}
=============================================================================
