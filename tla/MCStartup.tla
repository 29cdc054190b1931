----------------------------- MODULE MCStartup -----------------------------
(* Instance of Startup for TLC.                                            *)
EXTENDS Startup

MCCodes == {0, 1, 3}
MCSignals == {9, 15}

Resolvs == {{}, {<<"nameserver", "host dns">>, <<"search", "corp">>, <<"options", "rotate">>}}
Hosts == {<<>>, <<<<"git", "lan">>, <<"wirez", "lan">>, <<"git", "pub">>>>}
MCHostFiles == [resolv : Resolvs, hosts : Hosts]
=============================================================================
