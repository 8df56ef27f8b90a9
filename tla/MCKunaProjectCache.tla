-------------------------- MODULE MCKunaProjectCache --------------------------
(* Two sessions at a time that come and go: in one server that is asked for  *)
(* two keys, or in one or both of two servers that share the directory.      *)
EXTENDS KunaProjectCache, TLC

TwoAsks == {f \in [Processes -> SUBSET Keys] :
              MapThenSumSet(LAMBDA p : Cardinality(f[p]), Processes) = 2}
(* One server whose sessions share one key.                                 *)
OneAsk == {f \in [Processes -> SUBSET Keys] :
             \E p \in Processes, k \in Keys :
               f = [q \in Processes |-> IF q = p THEN {k} ELSE {}]}

Symmetry == Permutations(Keys) \cup Permutations(Builds) \cup Permutations(Callers)
            \cup Permutations(Processes)
=============================================================================
