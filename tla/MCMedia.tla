------------------------------ MODULE MCMedia ------------------------------
(* Media on small instances. *)
EXTENDS Media

Interchangeable ==
    Permutations(Hosts \ Guests) \cup Permutations(Guests \ Hosts)
        \cup Permutations(Hosts \cap Guests) \cup Permutations(Tracks)
=============================================================================
