------------------------------ MODULE MC_Links ------------------------------
(* Two indices: a client of the lamp and another link, or two others.      *)
EXTENDS Links
=============================================================================
