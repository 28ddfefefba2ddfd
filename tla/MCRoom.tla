------------------------------- MODULE MCRoom -------------------------------
(* The instances of Room that TLC checks.                                  *)
EXTENDS Room

CONSTANTS p1, p2, p3, audio, video, screen

ThreePeers == {p1, p2, p3}

ThreeTracks == {audio, video, screen}

TwoPublishers == [t \in ThreeTracks |-> IF t = screen THEN p2 ELSE p1]

\* The audio and the video of p1 are of one stream.
TwoStreams == [t \in ThreeTracks |-> IF t = screen THEN "s2" ELSE "s1"]

=============================================================================
