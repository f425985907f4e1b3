\* Two factories and the sound system reach all five modes; thread_multi is
\* FALSE, as core_sound.c:14 has it.
SPECIFICATION FairSpec
CONSTANTS
    Factory = {"wav", "other"}
    ThreadMulti = FALSE
INVARIANTS
    HeldIsExact
    OnlyLiveUsed
    MuteBites
PROPERTIES
    FramesFlow
CHECK_DEADLOCK FALSE
