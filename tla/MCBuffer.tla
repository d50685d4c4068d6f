------------------------------ MODULE MCBuffer ------------------------------
(* Buffer with a two-valued byte and a few bytes of room.                    *)
EXTENDS Buffer
=============================================================================
