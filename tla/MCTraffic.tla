----------------------------- MODULE MCTraffic -----------------------------
EXTENDS Traffic, TLC

CONSTANTS n1, n2

\* A busy agent with a drained core and a node-wide one; a costly hysteria node.
MCCores == n1 :> {"xray", "mtproto"} @@ n2 :> {"hysteria"}
MCMultiplier == n1 :> 1 @@ n2 :> 2

\* An agent with amneziawg.
KernelCores == n1 :> {"amneziawg"}
KernelMultiplier == n1 :> 1

=============================================================================
