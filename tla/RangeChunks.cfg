\* Chunks of one, two and three points over up to four; each cap alone and with the
\* others; one of the ranges over the limit, where there is one; a late sample.
CONSTANTS
    a = a
    b = b
    Kinds = {"cumulative_avg", "native_grid_sum", "local", "whole"}
    Ranges <- MCRanges
    PointCaps = {0, 2, 3}
    DefaultCap = 2
    Durations = {0, 1}
    ChunkLimits = {0, 1, 2}
    LocalCap = 2
    PointLimits = {0, 3}
    Preflights = {TRUE, FALSE}
    Series = {a, b}
    MaxLate = 1
SPECIFICATION Spec
INVARIANTS AnswerComplete MergesCleanly QueriesBounded
