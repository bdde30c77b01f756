----------------------------- MODULE MCHistory ------------------------------
(* History with one environment for each way to be accepted or refused.    *)
EXTENDS History

Environment(model, override, address) ==
    [model |-> model, override |-> override, address |-> address,
     idle_poll |-> "absent"]

MCConfigurations ==
    {Environment("PT-P710BT", None, None),
     Environment("PT-P710BT", None, "address"),
     Environment("PT-P710BT", None, "malformed"),
     Environment("PT-2730", None, None),
     Environment("PT-2730", None, "address"),
     Environment("PT-2730", Bluetooth("address"), None),
     Environment("PT-P710BT", <<"socket", "host">>, None)}
=============================================================================
