--------------------------------- MODULE Nil ---------------------------------
(* A value that is none of the others: no pointer, no message, no thread.    *)
CONSTANT NULL
=============================================================================
