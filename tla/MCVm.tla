-------------------------------- MODULE MCVm --------------------------------
(***************************************************************************)
(* Two processes, pages of two bytes, address spaces of three pages under  *)
(* two level-0 tables.                                                     *)
(*                                                                         *)
(* Pages are interchangeable.  As long as every page has one use a state   *)
(* is determined, up to a renaming of pages, by the places that hold a     *)
(* page; MCView tells apart just these states, and a first state in which  *)
(* OwnedOnce fails from all others.                                        *)
(***************************************************************************)
EXTENDS Vm

MCImages == {<<0>>, <<2, 1>>}

Shape(t) == [t EXCEPT !.root = @ # NoPage, !.top1 = @ # NoPage, !.top0 = @ # NoPage,
                      !.low1 = @ # NoPage, !.low0 = [r \in Region |-> @[r] # NoPage],
                      !.leaf = [v \in Vpn |-> @[v] # NoPage]]

MCView == <<Cardinality(free), others, OwnedOnce, state, sz,
            [p \in Proc |-> <<frame[p] # NoPage, Shape(table[p]), Shape(new[p]),
                              [w[p] EXCEPT !.mem = @ # NoPage]>>]>>
=============================================================================
