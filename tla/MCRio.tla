------------------------------- MODULE MCRio -------------------------------
(* Up to three messages, shorter than, as long as and longer than a line    *)
(* may be.                                                                  *)
EXTENDS Rio

Messages ==
  {<<1>>, <<8>>, <<1, 4>>, <<3, 7>>, <<4, 5>>, <<5, 8>>, <<2, 3, 6>>, <<3, 6, 8>>}
=============================================================================
