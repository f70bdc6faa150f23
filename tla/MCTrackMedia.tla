---- MODULE MCTrackMedia ----
\* TLC instances of TrackMedia.  Senders are interchangeable threads, and so
\* are controllers; every property checked with this symmetry is a safety one.
EXTENDS TrackMedia, TLC

ThreadSymmetry == Permutations(Senders) \union Permutations(Controllers)
====
