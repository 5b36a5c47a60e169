--------------------- MODULE MCThaliNotificationServer ---------------------
(* Two peers to notify, in different places, one that does not know the    *)
(* device.                                                                 *)
EXTENDS ThaliNotificationServer
MCKeyLists == {<<>>, <<"p1">>, <<"p2", "s", "p1">>}
=============================================================================
