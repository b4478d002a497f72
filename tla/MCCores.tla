------------------------------ MODULE MCCores ------------------------------
(* Instances of Cores for TLC.                                             *)
EXTENDS Cores, TLC

CONSTANTS n1, u1

Config(t, name) == [type |-> t, name |-> name]

(* Two cores that both speak hysteria2, and an xray core of which an       *)
(* earlier one of the same name is replaced.                               *)
ThreeCores == <<Config("xray", "edge"), Config("xray", "edge"),
                Config("sing", ""), Config("hysteria2", "")>>

Node(t, name, core_) == [type |-> t, name |-> name, core |-> core_]

(* The first node says by type or by name where it belongs, the other      *)
(* takes any core; or both have only one to choose.                        *)
Setups3 ==
    LET TwoNodes(a, b) == [n \in Nodes |-> IF n = n1 THEN a ELSE b] IN
    {TwoNodes(Node("hysteria2", "", "hysteria2"), Node("hysteria2", "", "")),
     TwoNodes(Node("vless", "edge", ""), Node("vless", "", "")),
     TwoNodes(Node("tuic", "", ""), Node("tuic", "", ""))}

(* One user stays, the others come and go.                                 *)
ListsOf1 == {{u1}, Users}

Symmetry == Permutations(Conns)
============================================================================
