----------------------------- MODULE MCCacheSim -----------------------------
(* Values for the constants of CacheSim that a cfg cannot write.            *)
EXTENDS CacheSim

(* direct-mapped, set-associative and fully associative *)
MCGeometries == {<<2, 1, 8>>, <<2, 2, 4>>, <<1, 4, 4>>}
=============================================================================
