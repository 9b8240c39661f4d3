------------------------------- MODULE MCApStart -------------------------------
EXTENDS ApStart

E(id, on) == [id |-> id, enabled |-> on]

\* three cores besides the booting one, a place without a processor, no core
\* at all; the table is there twice, the first time with a core left out
MCMadt == <<<<E(0, TRUE), E(1, TRUE)>>,
            <<E(0, TRUE), E(4, FALSE), E(2, TRUE), E(1, TRUE), E(3, TRUE), E(255, TRUE)>>>>
MCAbsent == {4}
MCNobody == {4, 255, 2}
MCOneCore == <<<<E(0, TRUE)>>>>
MCTsc == {1, 3, 4}
================================================================================
