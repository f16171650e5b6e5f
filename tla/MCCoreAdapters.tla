--------------------------- MODULE MCCoreAdapters ---------------------------
(* Model-checking instance of CoreAdapters: one protocol per node, as the
   installer sets it up, and the two nodes whose adapters come in company. *)
EXTENDS CoreAdapters, TLC

AllInstalls ==
    {{"hysteria"}, {"hysteria", "xray", "shadowsocks"}, {"hysteria", "mtproto"},
     {"hysteria", "mieru"}, {"hysteria", "amneziawg"}, {"hysteria", "naive"}}
AwgInstall == {{"hysteria", "amneziawg"}}
Symmetry == Permutations(Slot)
SecondVersion == {2}
=============================================================================
