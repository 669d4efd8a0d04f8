----------------------------- MODULE RangeChunks -----------------------------
(***************************************************************************)
(* A range query in chunks (internal/promshim/local/range_strategy.go,     *)
(* native_range_preflight.go, chunking.go): whether and how finely a plan  *)
(* is chunked, the probe that may call it off, and the chunks that are     *)
(* evaluated one after the other, each by a query of its own, and merged.  *)
(*                                                                         *)
(* What ClickHouse would answer at an instant is a set of series; samples  *)
(* keep arriving while the chunks are evaluated.  Time is counted in the   *)
(* unit of Step.  A plan is evaluated instant by instant: that the value   *)
(* at one does not depend on the range asked for is the promise of the     *)
(* plans below, not of this code.                                          *)
(***************************************************************************)
EXTENDS Integers, FiniteSets

CONSTANTS
    Kinds,          \* plans, out of KindType
    Ranges,         \* requests: start, end, step
    PointCaps,      \* values of NativeRangeChunkPointsPerSeries, 0 for off
    DefaultCap,     \* DefaultNativeRangeChunkPointsPerSeries
    Durations,      \* values of NativeRangeChunkMaxDuration, 0 for no cap
    ChunkLimits,    \* values of NativeRangeChunkMaxChunks, 0 for no limit
    LocalCap,       \* RangeChunkPointsPerSeries
    PointLimits,    \* values of MaxRangePointsPerSeries, 0 for no limit
    Preflights,     \* whether NativeRangePreflightSeriesThreshold is set
    Series,
    MaxLate         \* bound on the samples that arrive meanwhile

(* A native cumulative average, a native grid sum, a local tree, and plans  *)
(* that are never chunked.                                                  *)
KindType == {"cumulative_avg", "native_grid_sum", "local", "whole"}
RangeType == [start : Nat, end : Nat, step : Nat \ {0}]

ASSUME ChunksAssumption ==
    /\ Kinds \subseteq KindType
    /\ Ranges \subseteq RangeType /\ \A r \in Ranges : r.start <= r.end
    /\ PointCaps \subseteq Nat /\ DefaultCap \in Nat \ {0}
    /\ Durations \subseteq Nat /\ ChunkLimits \subseteq Nat
    /\ LocalCap \in Nat \ {0} /\ PointLimits \subseteq Nat
    /\ Preflights \subseteq BOOLEAN /\ MaxLate \in Nat

VARIABLES
    kind, range,    \* the plan and the request
    conf,           \* the options: points, cap, duration, limit, preflight
    data,           \* <<series, instant>> the store answers now
    pc,
    chunk,          \* ChunkPointsPerSeries; 0 for a plan left whole
    from,           \* currentStart
    merged,         \* the instants of each series merged so far
    before,         \* (history) data when the request came in
    ran,            \* (history) chunks evaluated
    childFailed,    \* (history) a chunk's query failed
    late

input == <<kind, range, conf>>
vars == <<input, data, pc, chunk, from, merged, before, ran, childFailed, late>>

(* The instants of a range, and how many they are                           *)
(* (estimateRangePointsPerSeries).                                          *)
PointsFrom(s) == (range.end - s) \div range.step + 1
Points == PointsFrom(range.start)
Instants(s, n) == {s + k * range.step : k \in 0..(n - 1)}
Grid == Instants(range.start, Points)

Nowhere == [x \in Series |-> {}]

Init ==
    /\ kind \in Kinds /\ range \in Ranges
    /\ conf \in [points : PointLimits, cap : PointCaps, duration : Durations,
                 limit : ChunkLimits, preflight : Preflights]
    /\ data \in SUBSET (Series \X Grid)
    /\ pc = "plan" /\ chunk = 0 /\ from = range.start
    /\ merged = Nowhere /\ before = data
    /\ ran = 0 /\ childFailed = FALSE /\ late = 0

-----------------------------------------------------------------------------
(* How fine: decideNativeRangeChunking                                      *)

Larger(a, b) == IF a > b THEN a ELSE b
FloorDiv(n, d) == n \div d
CeilDiv(n, d) == (n + d - 1) \div d

DurationLimit ==
    IF conf.duration = 0 THEN 0 ELSE conf.duration \div range.step + 1

(* MaxChunks makes chunks larger; one that holds everything is none.        *)
Guarded(n) ==
    IF conf.limit = 0 THEN n ELSE Larger(n, CeilDiv(Points, conf.limit))
Needed(n) == IF n >= Points THEN 0 ELSE n

(* nativeRangeChunkPointsPerSeries                                          *)
ByPoints ==
    IF conf.cap = 0 THEN 0
    ELSE Needed(Guarded(IF DurationLimit \in 1..(conf.cap - 1)
                        THEN DurationLimit ELSE conf.cap))

(* nativeRangeDurationChunkPointsPerSeries                                  *)
ByDuration == IF DurationLimit = 0 THEN 0 ELSE Needed(Guarded(DurationLimit))

NativeChunk ==
    IF conf.cap # DefaultCap THEN ByPoints
    ELSE IF kind = "cumulative_avg" THEN Larger(ByPoints, CeilDiv(Points, 2))
    ELSE ByDuration

ChunkPoints ==
    CASE kind \in {"cumulative_avg", "native_grid_sum"} -> NativeChunk
      [] kind = "local" /\ Points > LocalCap -> LocalCap
      [] OTHER -> 0

(* applyRangeExecutionStrategy                                              *)
Plan ==
    /\ pc = "plan"
    /\ IF conf.points > 0 /\ Points > conf.points
       THEN pc' = "rejected" /\ UNCHANGED chunk
       ELSE /\ chunk' = ChunkPoints
            /\ pc' = IF chunk' = 0 THEN "whole" ELSE "preflight"
    /\ UNCHANGED <<input, data, from, merged, before, ran, childFailed, late>>

(* ApplyNativeRangePreflight: under the default cap a cumulative average is *)
(* left whole after all when a probe says that few series match; a probe    *)
(* that fails, is late or cannot be made changes nothing.                   *)
Probed == conf.preflight /\ kind = "cumulative_avg" /\ conf.cap = DefaultCap
Preflight ==
    /\ pc = "preflight"
    /\ \E few \in BOOLEAN :
          /\ few => Probed
          /\ pc' = IF few THEN "whole" ELSE "chunks"
          /\ chunk' = IF few THEN 0 ELSE chunk
    /\ UNCHANGED <<input, data, from, merged, before, ran, childFailed, late>>

-----------------------------------------------------------------------------
(* Evaluation                                                               *)

(* What one query of n instants from s on answers.                          *)
Answer(s, n) == [x \in Series |-> {t \in Instants(s, n) : <<x, t>> \in data}]

Fail ==
    /\ pc \in {"whole", "chunks"}
    /\ from <= range.end
    /\ childFailed' = TRUE
    /\ pc' = "failed"
    /\ UNCHANGED <<input, data, chunk, from, merged, before, ran, late>>

Whole ==
    /\ pc = "whole"
    /\ merged' = Answer(range.start, Points)
    /\ pc' = "ok"
    /\ UNCHANGED <<input, data, chunk, from, before, ran, childFailed, late>>

(* splitRangeIntoChunks: the chunk that begins at from.  It depends on the  *)
(* request alone, so that each is worked out when its turn comes.           *)
PointsThisChunk ==
    IF PointsFrom(from) < chunk THEN PointsFrom(from) ELSE chunk
SameBorder(last) == last
NextStart(last) == last + range.step

(* mergeMatrixValues, AppendRangePointsStrict: a series' points are         *)
(* appended if the first is later than the last there is.                   *)
Increasing(old, new) == \A x \in Series : \A t \in old[x], u \in new[x] : t < u
LastOnly(old, new) == [x \in Series |-> IF new[x] = {} THEN old[x] ELSE new[x]]
Merge(old, new) == [x \in Series |-> old[x] \cup new[x]]

RanBound == Points + 1      \* more chunks than there are instants
Chunk ==
    /\ pc = "chunks"
    /\ from <= range.end
    /\ LET new == Answer(from, PointsThisChunk)
           last == from + range.step * (PointsThisChunk - 1)
       IN  IF Increasing(merged, new)
           THEN /\ merged' = Merge(merged, new)
                /\ from' = NextStart(last)
                /\ UNCHANGED pc
           ELSE pc' = "failed" /\ UNCHANGED <<merged, from>>
    /\ ran' = IF ran < RanBound THEN ran + 1 ELSE ran
    /\ UNCHANGED <<input, data, chunk, before, childFailed, late>>

ChunksDone ==
    /\ pc = "chunks"
    /\ from > range.end
    /\ pc' = "ok"
    /\ UNCHANGED <<input, data, chunk, from, merged, before, ran, childFailed, late>>

-----------------------------------------------------------------------------
(* The store: samples arrive, also such as change an instant long past.     *)
Arrive ==
    /\ late < MaxLate
    /\ late' = late + 1
    /\ \E x \in Series, t \in Grid : data' = data \cup {<<x, t>>}
    /\ UNCHANGED <<input, pc, chunk, from, merged, before, ran, childFailed>>

Over == pc \in {"ok", "failed", "rejected"}
Done == Over /\ UNCHANGED vars

Work == Plan \/ Preflight \/ Whole \/ Chunk \/ ChunksDone
Next == Work \/ Fail \/ Arrive \/ Done

Spec == Init /\ [][Next]_vars

-----------------------------------------------------------------------------
(* Properties                                                               *)

(* The types; every chunk begins at an instant of the request, or one step  *)
(* behind the last.                                                         *)
TypeOK ==
    /\ data \subseteq Series \X Grid /\ before \subseteq data
    /\ pc \in {"plan", "preflight", "whole", "chunks", "ok", "failed", "rejected"}
    /\ chunk \in Nat
    /\ from \in Instants(range.start, Points + 1)
    /\ merged \in [Series -> SUBSET Grid]
    /\ ran \in 0..RanBound /\ childFailed \in BOOLEAN
    /\ late \in 0..MaxLate

(* However a range is cut, the answer has every point that was stored when  *)
(* the request came in, and none that is not stored: no point is lost at a  *)
(* border or behind the last chunk.                                         *)
AnswerComplete ==
    pc = "ok" => \A x \in Series, t \in Grid :
        /\ <<x, t>> \in before => t \in merged[x]
        /\ t \in merged[x] => <<x, t>> \in data

(* Chunks never overlap: the merge meets times in order, and fails for      *)
(* nothing but a failed query.                                              *)
MergesCleanly == pc = "failed" => childFailed

(* MaxChunks, where it is set, bounds the queries a native plan is cut      *)
(* into.  Only a cumulative average under the default cap does without it:  *)
(* that is cut into two at most, whatever the limit.                        *)
ByHalves == kind = "cumulative_avg" /\ conf.cap = DefaultCap
Allowed == IF ByHalves THEN 2 ELSE conf.limit
QueriesBounded ==
    kind \in {"cumulative_avg", "native_grid_sum"} /\ Allowed > 0 => ran <= Allowed
=============================================================================
