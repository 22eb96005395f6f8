--------------------------- MODULE MCDeviceLifetime ---------------------------
(***************************************************************************)
(* Two threads, one of which may use another device while the other one    *)
(* destroys this one, and two handles.                                     *)
(***************************************************************************)
EXTENDS DeviceLifetime

CONSTANTS t1, t2, h1, h2

MCThreads == {t1, t2}
MCHandles == {h1, h2}

=============================================================================
