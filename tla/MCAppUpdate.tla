---------------------------- MODULE MCAppUpdate ----------------------------
(* Instance of AppUpdate for TLC: 0.5, 0.6-beta.1, 0.6-beta.2, 0.6.0. *)
EXTENDS AppUpdate

Word(n)   == [number |-> FALSE, at |-> n]
Number(n) == [number |-> TRUE, at |-> n]

MCReleases == <<[core |-> <<0, 5>>, pre |-> <<>>],
                [core |-> <<0, 6>>, pre |-> <<Word(1), Number(1)>>],
                [core |-> <<0, 6>>, pre |-> <<Word(1), Number(2)>>],
                [core |-> <<0, 6, 0>>, pre |-> <<>>]>>
=============================================================================
