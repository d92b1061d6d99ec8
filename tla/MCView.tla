---------------------------------- MODULE MCView ----------------------------------
(* The views alone, for the run that sets a range without an upper bound.    *)
EXTENDS GraphicsView
====================================================================================
