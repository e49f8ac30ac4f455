----------------------------- MODULE FramePool -----------------------------
(* What the physical frame allocator promises its callers, without extents: a
   set of frames nobody holds and a set of frames callers hold.              *)
EXTENDS Integers

CONSTANT Frames

VARIABLES
    unused, held,
    answer          \* the frames the last call handed out: none or one

pool == <<unused, held, answer>>

PoolInit == unused = {} /\ held = {} /\ answer = {}

\* The usable frames of the memory map enter the pool once, at boot.
Establish ==
    /\ unused = {} /\ held = {}
    /\ \E usable \in SUBSET Frames : unused' = usable
    /\ answer' = {}
    /\ UNCHANGED held

\* A caller is given the lowest frame nobody holds.
Take ==
    \E lowest \in unused :
        /\ \A other \in unused : lowest <= other
        /\ unused' = unused \ {lowest}
        /\ held' = held \union {lowest}
        /\ answer' = {lowest}

\* Only a frame some caller holds comes back.
GiveBack ==
    \E frame \in held :
        /\ held' = held \ {frame}
        /\ unused' = unused \union {frame}
        /\ answer' = {}

\* A refused call moves no frame and hands none out.
Refuse ==
    /\ answer' = {}
    /\ UNCHANGED <<unused, held>>

PoolNext == Establish \/ Take \/ GiveBack \/ Refuse

PoolSpec == PoolInit /\ [][PoolNext]_pool
=============================================================================
