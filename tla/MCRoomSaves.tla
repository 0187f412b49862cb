----------------------------- MODULE MCRoomSaves -----------------------------
(* RoomSaves with one edit and six scenes: what comes together is as much as can be searched. *)
EXTENDS RoomSaves

CONSTANTS o, g, e1, p1, u1, v1, x1

Scene(lib, savers, calls, rooms) ==
    [lib |-> lib, savers |-> savers, calls |-> calls, rooms |-> rooms]

MCScenes == {
    Scene(TRUE,  {o},    {p1, x1}, 2),  \* a part is saved, the file is written from outside
    Scene(FALSE, {o},    {p1},     2),
    Scene(TRUE,  {o},    {u1},     2),  \* PUT /embed
    Scene(FALSE, {o},    {v1},     2),  \* POST /embed
    Scene(TRUE,  {o, g}, {x1},     1),  \* an owner and a guest save
    Scene(FALSE, {o},    {p1, u1}, 1)}  \* two calls wait for one flush
=============================================================================
