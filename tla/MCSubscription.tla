---------------------------- MODULE MCSubscription ----------------------------
EXTENDS Subscription, TLC
CONSTANTS n1, p1, p2
AllProtocols == {"hysteria", "xray", "amneziawg", "naive", "shadowsocks",
                 "mtproto", "mieru"}
\* Every transport; Vision, the default flow, on one that takes it, on one that
\* does not, and where it does not matter.
EveryTransport == {<<"raw", "vless", "vision">>, <<"ws", "vless", "none">>,
                   <<"xhttp", "vless", "vision">>, <<"kcp", "trojan", "vision">>}
\* The host of every binding, and a proxy's that overrides what only some formats
\* write and is not for sing-box.
TwoHosts == {DefaultHost, [front |-> TRUE, over |-> {"path", "layer"}, muted |-> {"singbox"}]}
\* Which of the keys, PSKs and ranges come first does not matter; xhttp and kcp
\* come by an edit.
FirstDrafts == {c \in Config : /\ 2 \notin {c.key, c.psk, c.subnet} /\ c.sane
                               /\ c.net \notin {"xhttp", "kcp"}}
Symmetry == Permutations(Profile)
=============================================================================
