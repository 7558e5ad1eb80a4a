----------------------------- MODULE MCHostLink -----------------------------
(* Small instances of HostLink: each story lets a few faults meet.         *)
EXTENDS HostLink

CONSTANTS a, b, c, g1, g2

MCCalls == {a, b, c}
MCLinks == {g1, g2}

Quiet == [calls |-> {a, b}, chunks |-> {}, commit |-> {}, watch |-> FALSE, oldHost |-> FALSE,
          drops |-> 0, refused |-> 0, slow |-> 0, ends |-> 0, zombies |-> 0, wakes |-> 0,
          auth |-> 0, dark |-> 0, views |-> 0, errors |-> 0]

Lossy   == [Quiet EXCEPT !.drops = 1, !.slow = 1]
Woken   == [Quiet EXCEPT !.wakes = 1]
Auth    == [Quiet EXCEPT !.auth = 2]
Upload  == [Quiet EXCEPT !.calls = {a, b, c}, !.chunks = {a, b}, !.commit = {c}, !.drops = 1]
Ends    == [Quiet EXCEPT !.calls = {a}, !.ends = 1, !.slow = 1]
Vanish  == [Quiet EXCEPT !.calls = {a}, !.zombies = 1]
Shared  == [Quiet EXCEPT !.calls = {a}, !.watch = TRUE, !.drops = 1]
Watched == [Quiet EXCEPT !.calls = {}, !.watch = TRUE, !.ends = 1, !.views = 1]
Seen    == [Quiet EXCEPT !.calls = {}, !.watch = TRUE, !.zombies = 1, !.views = 1]
Refused == [Quiet EXCEPT !.calls = {a}, !.watch = TRUE, !.refused = 3]
Dark    == [Quiet EXCEPT !.calls = {a}, !.watch = TRUE, !.dark = 1]
OldHost == [Quiet EXCEPT !.calls = {}, !.watch = TRUE, !.oldHost = TRUE, !.ends = 1, !.views = 1]
Failing == [Quiet EXCEPT !.calls = {a}, !.watch = TRUE, !.errors = 1]
Rejects == [Quiet EXCEPT !.calls = {a, c}, !.chunks = {a}, !.commit = {c}, !.errors = 1]

MCStories == {Lossy, Woken, Auth, Upload, Ends, Vanish, Shared, Watched, Seen, Refused, Dark, OldHost,
              Failing, Rejects}
=============================================================================
