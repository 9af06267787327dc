--------------------------- MODULE MCDistribution ---------------------------
(***************************************************************************)
(* The lists of the repository, all lists of up to three entries over two  *)
(* accounts with two spellings each and earnings that are negative, zero   *)
(* or not, and one list for each number of claims up to nine, where the    *)
(* trees have every shape.  The hash tells any two sets of nodes apart.    *)
(***************************************************************************)
EXTENDS Distribution

MCLeaf(i)  == <<"leaf", i>>
MCHash(ns) == <<"node", ns>>

Spellings    == 3001..3004
SmallEntries == [address : Spellings, earnings : {-1, 0, 1, 3}]
SmallLists   == UNION {[1..n -> SmallEntries] : n \in 0..3}
PlainLists   == {[k \in 1..n |-> [address |-> k, earnings |-> 1]] : n \in 1..9}

MCLists == SmallLists \cup PlainLists \cup RepositoryLists
MCSizes == 1..9

MCAccountOf(s) == CASE s \in Spellings -> (s + 1) \div 2
                    [] s \in DOMAIN Spelling -> Spelling[s]
                    [] OTHER -> s
=============================================================================
