------------------------------ MODULE MCPolling ------------------------------
(* Polling with two threads and two widths, polling at every query, never, *)
(* and at most once a tick.                                                *)
EXTENDS Polling

CONSTANTS t1, t2, w12, w24

MCThreads  == {t1, t2}
MCWidths   == {w12, w24}
MCSettings == {<<"usb", -1>>, <<"usb", 0>>, <<"bt", 1>>}
=============================================================================
