------------------------------ MODULE MCTracks ------------------------------
(* The tracks on a small instance: a file as ffmpeg writes it, with its     *)
(* tags on the second page, and one without.                               *)
EXTENDS Tracks

CONSTANTS c1, c2
TwoConsumers == {c1, c2}
SomeFiles == {<<"tags", "audio">>, <<"audio", "audio">>}
==============================================================================
