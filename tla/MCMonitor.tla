----------------------------- MODULE MCMonitor -----------------------------
(* Monitor for TLC: a few collector lists that between them use every      *)
(* handler.                                                                *)
EXTENDS Monitor

MCSelections == {<<"battery">>, <<"storage">>, <<"cpu", "self">>,
                 <<"elevated", "gpu">>, <<"os", "usb">>, <<"net">>,
                 <<"display", "proc">>}
MCSteps == {2, 100}
MCWallSteps == {-20, 20}
=============================================================================
