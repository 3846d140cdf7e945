------------------------------ MODULE MCExposure ------------------------------
(* Three permissions and two reads; any two events, or three of one amount; a  *)
(* chain that grows past the reference block, or replaces it and restores it.  *)
EXTENDS Exposure

CONSTANTS k1, k2, k3, a, b, c, d, MaxAmount

MCRole == (k1 :> 1) @@ (k2 :> 0) @@ (k3 :> 2)
MCChains == {<<a>>, <<a, b>>, <<a, b, d>>, <<a, c>>}
MCLedgers == {[h \in Hashes |-> [k \in Keys |->
                 IF h = c THEN MaxAmount - now[k] ELSE now[k]]] :
              now \in {f \in [Keys -> 0..MaxAmount] : f[k1] = 1}}
MCInputs ==
  (UNION {[1..n -> [key : Keys, amount : 0..MaxAmount]] : n \in 0..1})
    \cup [1..2 -> [key : Keys, amount : 1..MaxAmount]]
    \cup [1..3 -> [key : Keys, amount : {1}]]
================================================================================
