---------------------------- MODULE MCRoomService ----------------------------
(***************************************************************************)
(* Small instances of RoomService.                                         *)
(***************************************************************************)
EXTENDS RoomService, TLC

CONSTANTS c1, c2, p1, p2, p3, p4

\* Every player has one client.
Apart == c1 :> {p1, p2} @@ c2 :> {p3, p4}
==============================================================================
