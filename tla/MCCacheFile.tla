---------------------------- MODULE MCCacheFile -----------------------------
(* Two writers of different texts and one reader, on one path.              *)
EXTENDS CacheFile
CONSTANTS One, Two, Someone
MCWriters == {One, Two}
MCTexts == {"first", "second"}
MCReaders == {Someone}
=============================================================================
