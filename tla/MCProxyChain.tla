---------------------------- MODULE MCProxyChain ----------------------------
(* Instances of ProxyChain for TLC.                                        *)
EXTENDS ProxyChain

NoHops == {}
SecondHop == {2}
=============================================================================
