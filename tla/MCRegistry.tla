----------------------------- MODULE MCRegistry -----------------------------
(***************************************************************************)
(* Instances of Registry for TLC.  Each limit is one story; the initial    *)
(* state picks one, so that a run covers them all without their product.   *)
(***************************************************************************)
EXTENDS Registry

CONSTANTS r1, r2, f1

Quiet == [own |-> 0, peer |-> 0, drops |-> 0, kills |-> 0, wipes |-> 0, gcs |-> 0,
          lost |-> 0, fails |-> 0, saves |-> 0, peerWall |-> 1, cap |-> 2,
          https |-> FALSE, kinds |-> {}, peerKinds |-> {"upsert"}, rows |-> {r1}]

(* A broadcast is lost before the next: the gap, and its repair.           *)
Gap == [Quiet EXCEPT !.peer = 3, !.lost = 1, !.drops = 1, !.rows = {r1, r2},
                     !.peerKinds = {"upsert", "delete"}]
(* Both devices write the same row, this one's clock behind or ahead.      *)
Behind == [Quiet EXCEPT !.own = 2, !.peer = 2, !.peerWall = 3,
                        !.kinds = {"upsert", "update", "delete", "sidebar"},
                        !.peerKinds = {"upsert", "update", "delete"}]
Ahead  == [Behind EXCEPT !.peerWall = 1]
(* A cascading delete cut into batches, over both transports.              *)
Batches == [Quiet EXCEPT !.own = 1, !.drops = 1, !.fails = 1, !.cap = 1, !.https = TRUE,
                         !.rows = {r1, r2}, !.kinds = {"deleteAll"}]
(* HTTPS and the socket together, with another device.                     *)
Both == [Quiet EXCEPT !.own = 1, !.peer = 2, !.drops = 1, !.https = TRUE,
                      !.kinds = {"upsert"}]
(* Kills, and a snapshot older than what the room was told.                *)
Killed == [Quiet EXCEPT !.own = 2, !.peer = 1, !.kills = 1, !.saves = 1, !.fails = 1,
                        !.peerWall = 3, !.kinds = {"upsert", "sidebar"}]
(* A wiped room, a collected tombstone.                                    *)
Wiped == [Quiet EXCEPT !.own = 1, !.peer = 2, !.wipes = 1, !.drops = 1, !.rows = {r1, r2},
                       !.kinds = {"upsert"}]
Collected == [Quiet EXCEPT !.own = 1, !.peer = 2, !.gcs = 1, !.drops = 2,
                           !.kinds = {"upsert"}, !.peerKinds = {"upsert", "delete"}]

Stories   == {Gap, Behind, Ahead, Batches, Both, Killed, Wiped, Collected}
Overtaken == {[Quiet EXCEPT !.peer = 2, !.drops = 1, !.https = TRUE]}
=============================================================================
