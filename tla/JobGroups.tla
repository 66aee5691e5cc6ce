----------------------------- MODULE JobGroups ------------------------------
(***************************************************************************)
(* The arithmetic with which JobSystem::Dispatch (Core/JobSystem.cpp) cuts *)
(* jobCount indices into groups.  It is done in uint32_t, so every sum and *)
(* product is taken modulo Word.                                           *)
(***************************************************************************)
EXTENDS Integers

CONSTANT Word    \* one more than the largest uint32_t

ASSUME WordAssumption == Word \in Nat /\ Word >= 2

UInt == 0 .. Word - 1

\* const uint32_t groupCount = (jobCount + groupSize - 1) / groupSize
GroupCount(jobCount, groupSize) == ((jobCount + groupSize - 1) % Word) \div groupSize

\* const uint32_t groupJobOffset = groupIndex * groupSize
GroupOffset(groupSize, groupIndex) == (groupIndex * groupSize) % Word

\* Faulty variant: the last group is not cut off at jobCount.
GroupEndUnclamped(jobCount, groupSize, groupIndex) ==
    (GroupOffset(groupSize, groupIndex) + groupSize) % Word

\* const uint32_t groupJobEnd = Min(groupJobOffset + groupSize, jobCount)
GroupEnd(jobCount, groupSize, groupIndex) ==
    LET end == (GroupOffset(groupSize, groupIndex) + groupSize) % Word
    IN  IF end < jobCount THEN end ELSE jobCount

-----------------------------------------------------------------------------
\* The indices the job of one group passes to the caller's function.
GroupIndices(jobCount, groupSize, groupIndex) ==
    {i \in UInt : /\ GroupOffset(groupSize, groupIndex) <= i
                  /\ i < GroupEnd(jobCount, groupSize, groupIndex)}

\* The sum that rounds the group count up does not wrap.
Fits(jobCount, groupSize) == jobCount + groupSize - 1 < Word

\* What a caller gets: every index below jobCount, or nothing when the sum wraps.
Accepted(jobCount, groupSize) ==
    IF Fits(jobCount, groupSize) THEN 0 .. jobCount - 1 ELSE {}
=============================================================================
