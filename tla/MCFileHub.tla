----------------------------- MODULE MCFileHub -----------------------------
(* FileHub on a small instance.  The pages are interchangeable, but the    *)
(* run checks liveness and so declares no symmetry.                        *)
EXTENDS FileHub
=============================================================================
