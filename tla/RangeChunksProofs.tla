------------------------- MODULE RangeChunksProofs -------------------------
(***************************************************************************)
(* Proofs about RangeChunks for any requests, caps, limits and series, and *)
(* any number of late samples: however a range is cut, no point is lost or *)
(* met twice, and a native plan is cut into no more queries than allowed.  *)
(***************************************************************************)
EXTENDS RangeChunks, TLAPS

-----------------------------------------------------------------------------
(* Arithmetic                                                               *)

(* What a quotient is.                                                      *)
LEMMA Quotient ==
    ASSUME NEW n \in Nat, NEW d \in Nat \ {0}
    PROVE  n \div d \in Nat /\ d * (n \div d) <= n /\ n < d * (n \div d) + d
PROOF
  BY SMT

(* ... and that nothing else is.                                            *)
LEMMA OnlyQuotient ==
    ASSUME NEW n \in Int, NEW d \in Nat \ {0}, NEW q \in Int,
           d * q <= n, n < d * q + d
    PROVE  n \div d = q
PROOF
  BY SMT

(* Multiplying keeps the order.                                             *)
LEMMA Scaled ==
    ASSUME NEW a \in Int, NEW b \in Int, NEW d \in Nat \ {0}
    PROVE  a < b <=> a * d < b * d
PROOF
  BY SMT

(* A sum is multiplied term by term.                                        *)
LEMMA Distributes ==
    ASSUME NEW a \in Int, NEW b \in Int, NEW d \in Int
    PROVE  /\ (a + b) * d = a * d + b * d
           /\ a * d \in Int /\ a * d = d * a
PROOF
  BY SMT

(* d pieces of the rounded-up share hold everything.                        *)
LEMMA Shares ==
    ASSUME NEW n \in Nat \ {0}, NEW d \in Nat \ {0}
    PROVE  CeilDiv(n, d) \in Nat \ {0} /\ n <= d * CeilDiv(n, d)
PROOF
  <1>1. n + d - 1 \in Nat
    OBVIOUS
  <1> DEFINE q == (n + d - 1) \div d
  <1>2. q \in Nat /\ n + d - 1 < d * q + d
    BY <1>1, Quotient
  <1>3. q # 0
    <2>1. SUFFICES ASSUME q = 0 PROVE FALSE
      OBVIOUS
    <2>2. d * q = 0
      BY <2>1
    <2> QED
      BY <1>2, <2>2
  <1>4. d * q \in Int
    BY <1>2
  <1>5. n <= d * q
    BY <1>2, <1>4
  <1> QED
    BY <1>2, <1>3, <1>5 DEF CeilDiv

-----------------------------------------------------------------------------
(* The instants of a request                                                *)

Input ==
    /\ kind \in KindType
    /\ range \in RangeType /\ range.start <= range.end
    /\ conf \in [points : Nat, cap : Nat, duration : Nat, limit : Nat,
                 preflight : BOOLEAN]

Nth(k) == range.start + k * range.step

(* The fields of a request and of the options.                              *)
LEMMA Fields ==
    ASSUME Input
    PROVE  /\ range.start \in Nat /\ range.end \in Nat /\ range.step \in Nat \ {0}
           /\ conf.points \in Nat /\ conf.cap \in Nat /\ conf.duration \in Nat
           /\ conf.limit \in Nat /\ conf.preflight \in BOOLEAN
PROOF
  BY DEF Input, RangeType

(* The instants come in the order of their numbers.                         *)
LEMMA Ordered ==
    ASSUME Input, NEW i \in Int, NEW j \in Int
    PROVE  Nth(i) \in Int /\ (Nth(i) < Nth(j) <=> i < j)
PROOF
  <1>1. i * range.step \in Int /\ j * range.step \in Int
    BY Fields, Distributes
  <1>2. i < j <=> i * range.step < j * range.step
    BY Fields, Scaled
  <1> QED
    BY <1>1, <1>2, Fields DEF Nth

(* There are Points of them up to the end.                                  *)
LEMMA Counted ==
    ASSUME Input
    PROVE  /\ Points \in Nat \ {0}
           /\ Nth(Points - 1) <= range.end /\ range.end < Nth(Points)
PROOF
  <1> DEFINE n == range.end - range.start
             d == range.step
             q == n \div d
  <1>1. n \in Nat /\ d \in Nat \ {0}
    BY Fields DEF Input
  <1>2. q \in Nat /\ d * q <= n /\ n < d * q + d
    BY <1>1, Quotient
  <1>3. Points = q + 1
    BY DEF Points, PointsFrom
  <1>4. (q + 1) * d = d * q + d
    BY <1>1, <1>2, Distributes
  <1>5. q * d = d * q /\ d * q \in Int
    BY <1>1, <1>2, Distributes
  <1>6. Points - 1 = q
    BY <1>2, <1>3
  <1>7. Nth(Points - 1) = range.start + q * d /\ Nth(Points) = range.start + (q + 1) * d
    BY <1>3, <1>6 DEF Nth
  <1> QED
    BY <1>1, <1>2, <1>3, <1>4, <1>5, <1>7, Fields

(* From the k-th on there are k less, and none from one behind the end.     *)
LEMMA Remaining ==
    ASSUME Input, NEW k \in 0..Points
    PROVE  /\ Nth(k) <= range.end <=> k < Points
           /\ k < Points => PointsFrom(Nth(k)) = Points - k
PROOF
  <1>1. Points \in Nat \ {0} /\ Nth(Points - 1) <= range.end /\ range.end < Nth(Points)
    BY Counted
  <1>2. k < Points => Nth(k) <= Nth(Points - 1)
    BY <1>1, Ordered
  <1>3. Nth(k) \in Int /\ Nth(Points - 1) \in Int /\ Nth(Points) \in Int
    BY <1>1, Ordered
  <1>4. Nth(k) <= range.end <=> k < Points
    <2>1. CASE k < Points
      BY <1>1, <1>2, <1>3, <2>1, Fields
    <2>2. CASE k = Points
      BY <1>1, <1>3, <2>2, Fields
    <2> QED
      BY <1>1, <2>1, <2>2
  <1>5. ASSUME k < Points PROVE PointsFrom(Nth(k)) = Points - k
    <2> DEFINE d == range.step
               q == Points - 1 - k
    <2>1. q \in Nat /\ d \in Nat \ {0}
      BY <1>1, <1>5, Fields
    <2>2. Nth(Points - 1) = Nth(k) + q * d
      <3>1. (Points - 1) * d = k * d + q * d
        <4>1. Points - 1 = k + q
          BY <1>1
        <4> QED
          BY <2>1, <4>1, Distributes
      <3> QED
        BY <1>1, <2>1, <3>1, Distributes, Fields DEF Nth
    <2>3. Nth(Points) = Nth(k) + q * d + d
      <3>1. Points * d = (Points - 1) * d + 1 * d
        <4>1. Points = (Points - 1) + 1 /\ Points - 1 \in Int
          BY <1>1
        <4> QED
          BY <2>1, <4>1, Distributes
      <3>2. Nth(Points) = Nth(Points - 1) + d
        BY <1>1, <2>1, <3>1, Distributes, Fields DEF Nth
      <3> QED
        BY <2>2, <3>2
    <2>4. /\ d * q \in Int /\ q * d = d * q
      BY <2>1, Distributes
    <2>5. d * q <= range.end - Nth(k) /\ range.end - Nth(k) < d * q + d
      BY <1>1, <1>3, <2>1, <2>2, <2>3, <2>4, Fields
    <2>6. (range.end - Nth(k)) \div d = q
      <3>1. range.end - Nth(k) \in Int
        BY <1>3, Fields
      <3> QED
        BY <2>1, <2>5, <3>1, OnlyQuotient
    <2> QED
      BY <1>1, <2>6 DEF PointsFrom
  <1> QED
    BY <1>4, <1>5

(* n instants from the k-th on are those with the numbers from k on.        *)
LEMMA InstantsFrom ==
    ASSUME Input, NEW k \in Nat, NEW n \in Nat
    PROVE  Instants(Nth(k), n) = {Nth(j) : j \in k..(k + n - 1)}
PROOF
  <1>1. ASSUME NEW i \in 0..(n - 1)
        PROVE  Nth(k) + i * range.step = Nth(k + i) /\ k + i \in k..(k + n - 1)
    <2>1. (k + i) * range.step = k * range.step + i * range.step
      BY Fields, Distributes
    <2>2. k * range.step \in Int /\ i * range.step \in Int
      BY Fields, Distributes
    <2> QED
      BY <2>1, <2>2, Fields DEF Nth
  <1>2. ASSUME NEW j \in k..(k + n - 1)
        PROVE  j - k \in 0..(n - 1) /\ Nth(k) + (j - k) * range.step = Nth(j)
    <2>1. j - k \in 0..(n - 1) /\ k + (j - k) = j
      OBVIOUS
    <2> QED
      BY <1>1, <2>1
  <1>3. Instants(Nth(k), n) = {Nth(k) + i * range.step : i \in 0..(n - 1)}
    BY DEF Instants
  <1> QED
    BY <1>1, <1>2, <1>3

(* The grid.                                                                *)
LEMMA GridIs ==
    ASSUME Input
    PROVE  /\ Grid = {Nth(j) : j \in 0..(Points - 1)}
           /\ Instants(range.start, Points + 1) = {Nth(j) : j \in 0..Points}
           /\ Nth(0) = range.start
PROOF
  <1>1. Nth(0) = range.start
    BY Fields DEF Nth
  <1>2. Points \in Nat \ {0}
    BY Counted
  <1>3. Instants(Nth(0), Points) = {Nth(j) : j \in 0..(0 + Points - 1)}
    BY <1>2, InstantsFrom
  <1>4. Instants(Nth(0), Points + 1) = {Nth(j) : j \in 0..(0 + (Points + 1) - 1)}
    BY <1>2, InstantsFrom
  <1> QED
    BY <1>1, <1>2, <1>3, <1>4 DEF Grid

-----------------------------------------------------------------------------
(* The size of a chunk                                                      *)

Native == kind \in {"cumulative_avg", "native_grid_sum"}

(* What the limit on chunks makes of a size.                                *)
LEMMA GuardedSize ==
    ASSUME Input, NEW n \in Nat
    PROVE  /\ Guarded(n) \in Nat
           /\ conf.limit > 0 => Points <= conf.limit * Guarded(n)
PROOF
  <1>1. conf.limit \in Nat /\ Points \in Nat \ {0}
    BY Fields, Counted
  <1>2. CASE conf.limit = 0
    BY <1>2 DEF Guarded
  <1>3. CASE conf.limit > 0
    <2> DEFINE c == CeilDiv(Points, conf.limit)
    <2>1. c \in Nat \ {0} /\ Points <= conf.limit * c
      BY <1>1, <1>3, Shares
    <2>2. Guarded(n) = Larger(n, c)
      BY <1>3 DEF Guarded
    <2>3. Guarded(n) \in Nat /\ c <= Guarded(n)
      BY <2>1, <2>2 DEF Larger
    <2>4. conf.limit * c <= conf.limit * Guarded(n)
      BY <1>1, <1>3, <2>1, <2>3, Scaled, Distributes
    <2>5. conf.limit * c \in Int /\ conf.limit * Guarded(n) \in Int
      BY <1>1, <2>1, <2>3, Distributes
    <2> QED
      BY <1>1, <2>1, <2>3, <2>4, <2>5
  <1> QED
    BY <1>1, <1>2, <1>3

(* Every size is a number, and what is cut by points or by duration has no  *)
(* more pieces than the limit.                                              *)
LEMMA CutSize ==
    ASSUME Input, DefaultCap \in Nat \ {0}
    PROVE  \A n \in {ByPoints, ByDuration} :
              /\ n \in Nat
              /\ n # 0 /\ conf.limit > 0 => Points <= conf.limit * n
PROOF
  <1>1. DurationLimit \in Nat
    <2>1. conf.duration \div range.step \in Nat
      BY Fields, Quotient
    <2> QED
      BY <2>1 DEF DurationLimit
  <1>2. ASSUME NEW n \in Nat
        PROVE  /\ Needed(Guarded(n)) \in Nat
               /\ Needed(Guarded(n)) # 0 /\ conf.limit > 0
                     => Points <= conf.limit * Needed(Guarded(n))
    BY GuardedSize DEF Needed
  <1>3. conf.cap \in Nat
    BY Fields
  <1>4. /\ ByPoints \in Nat
        /\ ByPoints # 0 /\ conf.limit > 0 => Points <= conf.limit * ByPoints
    BY <1>1, <1>2, <1>3 DEF ByPoints
  <1>5. /\ ByDuration \in Nat
        /\ ByDuration # 0 /\ conf.limit > 0 => Points <= conf.limit * ByDuration
    BY <1>1, <1>2 DEF ByDuration
  <1> QED
    BY <1>4, <1>5

(* What a native plan is cut into.                                          *)
LEMMA NativeSize ==
    ASSUME Input, DefaultCap \in Nat \ {0}
    PROVE  /\ NativeChunk \in Nat
           /\ NativeChunk # 0 /\ Allowed > 0 => Points <= Allowed * NativeChunk
PROOF
  <1>1. conf.limit \in Nat /\ Points \in Nat \ {0}
    BY Fields, Counted
  <1>2. CASE ByHalves
    <2> DEFINE c == CeilDiv(Points, 2)
    <2>1. c \in Nat \ {0} /\ Points <= 2 * c
      BY <1>1, Shares
    <2>2. NativeChunk = Larger(ByPoints, c)
      BY <1>2 DEF NativeChunk, ByHalves
    <2>3. NativeChunk \in Nat /\ c <= NativeChunk
      BY <2>1, <2>2, CutSize DEF Larger
    <2>4. Points <= 2 * NativeChunk
      BY <1>1, <2>1, <2>3
    <2> QED
      BY <1>2, <2>3, <2>4 DEF Allowed
  <1>3. CASE ~ ByHalves
    <2>1. NativeChunk \in {ByPoints, ByDuration}
      BY <1>3 DEF NativeChunk, ByHalves
    <2>2. Allowed = conf.limit
      BY <1>3 DEF Allowed
    <2> QED
      BY <2>1, <2>2, CutSize
  <1> QED
    BY <1>2, <1>3

(* What a plan is cut into.                                                 *)
LEMMA Size ==
    ASSUME Input, ChunksAssumption
    PROVE  /\ ChunkPoints \in Nat
           /\ Native /\ ChunkPoints # 0 /\ Allowed > 0
                 => Points <= Allowed * ChunkPoints
PROOF
  <1>1. CASE Native
    <2>1. ChunkPoints = NativeChunk
      BY <1>1 DEF Native, ChunkPoints
    <2> QED
      BY <2>1, NativeSize DEF ChunksAssumption
  <1>2. CASE ~ Native
    <2>1. ChunkPoints \in {LocalCap, 0}
      BY <1>2 DEF Native, ChunkPoints
    <2> QED
      BY <1>2, <2>1 DEF ChunksAssumption
  <1> QED
    BY <1>1, <1>2

-----------------------------------------------------------------------------
(* The invariant                                                            *)

(* A plan that is cut has chunks of at least one point, and not too many.   *)
Cut ==
    pc \in {"preflight", "chunks"} =>
        /\ chunk # 0
        /\ Native /\ Allowed > 0 => Points <= Allowed * chunk

(* Before the last chunk the cursor is behind ran full ones, and whatever   *)
(* ran last was needed.                                                     *)
Cursor ==
    /\ pc \in {"plan", "preflight", "whole"} => ran = 0 /\ from = range.start
    /\ pc = "chunks" => /\ from <= range.end => from = Nth(ran * chunk)
                        /\ ran = 0 \/ (ran - 1) * chunk < Points

(* What is merged are the points before the cursor.                         *)
SoFar ==
    pc # "ok" => \A x \in Series, t \in Grid :
        /\ t \in merged[x] => t < from /\ <<x, t>> \in data
        /\ t < from /\ <<x, t>> \in before => t \in merged[x]

Typed == Input /\ TypeOK
Inv == /\ Typed /\ Cut /\ Cursor /\ SoFar
       /\ AnswerComplete /\ MergesCleanly /\ QueriesBounded

(* The request comes in with nothing merged.                                *)
LEMMA InvInit == Init => Inv
PROOF
  <1> SUFFICES ASSUME Init PROVE Inv
    OBVIOUS
  <1>1. Input
    <2>1. kind \in KindType /\ range \in RangeType /\ range.start <= range.end
      BY ChunksAssumption DEF Init
    <2>2. conf \in [points : Nat, cap : Nat, duration : Nat, limit : Nat,
                    preflight : BOOLEAN]
      BY ChunksAssumption DEF Init
    <2> QED
      BY <2>1, <2>2 DEF Input
  <1>2. Points \in Nat \ {0}
    BY <1>1, Counted
  <1>3. from = Nth(0) /\ from \in Instants(range.start, Points + 1)
    BY <1>1, <1>2, GridIs DEF Init
  <1>4. TypeOK
    <2>1. data \subseteq Series \X Grid /\ before = data
      BY DEF Init
    <2>2. merged \in [Series -> SUBSET Grid]
      BY DEF Init, Nowhere
    <2>3. childFailed \in BOOLEAN
      BY DEF Init
    <2>4. ran \in 0..RanBound
      BY <1>2 DEF Init, RanBound
    <2>5. pc = "plan" /\ chunk \in Nat /\ late \in 0..MaxLate
      BY ChunksAssumption DEF Init
    <2> QED
      BY <1>3, <2>1, <2>2, <2>3, <2>4, <2>5 DEF TypeOK
  <1>5. Cut /\ Cursor
    BY DEF Init, Cut, Cursor
  <1>6. ASSUME NEW t \in Grid PROVE ~(t < from)
    <2>1. PICK j \in 0..(Points - 1) : t = Nth(j)
      BY <1>1, GridIs
    <2>2. ~(Nth(j) < Nth(0))
      BY <1>1, <1>2, Ordered
    <2> QED
      BY <1>3, <2>1, <2>2
  <1>7. SoFar
    BY <1>6 DEF Init, SoFar, Nowhere
  <1>8. QueriesBounded
    <2>1. ran = 0 /\ Allowed \in Nat
      BY <1>1, Fields DEF Init, Allowed
    <2> QED
      BY <2>1 DEF QueriesBounded
  <1> QED
    BY <1>1, <1>4, <1>5, <1>7, <1>8 DEF Init, Inv, Typed, AnswerComplete, MergesCleanly

-----------------------------------------------------------------------------
(* One chunk                                                                *)

(* Where a chunk begins and ends: between two numbers, full or at the end.  *)
LEMMA OneChunk ==
    ASSUME Typed, Cut, Cursor, pc = "chunks", from <= range.end
    PROVE  \E k \in 0..(Points - 1) : \E n \in 0..(Points - k) :
              /\ from = Nth(k) /\ k = ran * chunk
              /\ PointsThisChunk = n
              /\ NextStart(from + range.step * (n - 1)) = Nth(k + n)
              /\ Instants(from, n) = {Nth(j) : j \in k..(k + n - 1)}
              /\ n = chunk \/ k + n = Points
PROOF
  <1>1. Input /\ Points \in Nat \ {0} /\ chunk \in Nat /\ ran \in Nat
    BY Counted DEF Typed, TypeOK
  <1>2. PICK k \in 0..Points : from = Nth(k)
    BY <1>1, GridIs DEF Typed, TypeOK
  <1>3. k < Points /\ PointsFrom(from) = Points - k
    BY <1>1, <1>2, Remaining
  <1>4. k = ran * chunk
    <2>1. ran * chunk \in Int /\ from = Nth(ran * chunk)
      BY <1>1, Distributes DEF Cursor
    <2> DEFINE m == ran * chunk
    <2>2. m \in Int /\ k \in Int /\ Nth(k) = Nth(m)
      BY <1>2, <2>1
    <2> HIDE DEF m
    <2>3. /\ Nth(k) \in Int
          /\ Nth(k) < Nth(m) <=> k < m
          /\ Nth(m) < Nth(k) <=> m < k
      BY <1>1, <2>2, Ordered
    <2>4. k = m
      BY <2>2, <2>3
    <2> QED
      BY <2>4 DEF m
  <1> DEFINE n == PointsThisChunk
  <1>5. n \in 0..(Points - k) /\ (n = chunk \/ k + n = Points)
    BY <1>1, <1>3 DEF PointsThisChunk
  <1>6. Instants(from, n) = {Nth(j) : j \in k..(k + n - 1)}
    BY <1>1, <1>2, <1>5, InstantsFrom
  <1>7. NextStart(from + range.step * (n - 1)) = Nth(k + n)
    <2>1. range.step \in Nat \ {0} /\ range.start \in Nat
      BY <1>1, Fields
    <2>2. (k + n) * range.step = k * range.step + n * range.step
      BY <1>5, <2>1, Distributes
    <2>3. n * range.step = (n - 1) * range.step + 1 * range.step
      <3>1. n = (n - 1) + 1
        BY <1>5
      <3> QED
        BY <1>5, <2>1, <3>1, Distributes
    <2>4. range.step * (n - 1) = (n - 1) * range.step
      BY <1>5, <2>1, Distributes
    <2>5. (n - 1) * range.step \in Int /\ k * range.step \in Int
      BY <1>5, <2>1, Distributes
    <2> QED
      BY <1>2, <2>1, <2>2, <2>3, <2>4, <2>5 DEF NextStart, Nth
  <1>8. k \in 0..(Points - 1) /\ n \in 0..(Points - k) /\ PointsThisChunk = n
    BY <1>1, <1>3, <1>5
  <1> HIDE DEF n
  <1> QED
    BY <1>2, <1>4, <1>5, <1>6, <1>7, <1>8

(* A chunk is behind all that is merged, which stays all before the cursor. *)
LEMMA InvChunk == Inv /\ Chunk => Inv'
PROOF
  <1> SUFFICES ASSUME Inv, Chunk PROVE Inv'
    OBVIOUS
  <1>0. Typed /\ Cut /\ Cursor /\ pc = "chunks" /\ from <= range.end /\ Input
    BY DEF Inv, Typed, Chunk
  <1>1. Points \in Nat \ {0} /\ chunk \in Nat \ {0} /\ ran \in 0..RanBound
    BY <1>0, Counted DEF Typed, TypeOK, Cut
  <1>2. PICK k \in 0..(Points - 1) : \E n \in 0..(Points - k) :
              /\ from = Nth(k) /\ k = ran * chunk
              /\ PointsThisChunk = n
              /\ NextStart(from + range.step * (n - 1)) = Nth(k + n)
              /\ Instants(from, n) = {Nth(j) : j \in k..(k + n - 1)}
              /\ n = chunk \/ k + n = Points
    BY <1>0, OneChunk
  <1>3. PICK n \in 0..(Points - k) :
              /\ from = Nth(k) /\ k = ran * chunk
              /\ PointsThisChunk = n
              /\ NextStart(from + range.step * (n - 1)) = Nth(k + n)
              /\ Instants(from, n) = {Nth(j) : j \in k..(k + n - 1)}
              /\ n = chunk \/ k + n = Points
    BY <1>2
  <1> DEFINE new == Answer(from, n)
  <1>4. \A x \in Series : new[x] = {t \in Instants(from, n) : <<x, t>> \in data}
    BY DEF Answer
  <1>5. Instants(from, n) \subseteq Grid
    BY <1>0, <1>1, <1>3, GridIs
  <1>6. \A t \in Grid : t \in Int
    BY <1>0, <1>1, GridIs, Ordered
  <1>7. \A t \in Instants(from, n) : ~(t < from) /\ t < Nth(k + n)
    BY <1>0, <1>1, <1>3, Ordered
  <1>8. \A t \in Grid : t < Nth(k + n) => t < from \/ t \in Instants(from, n)
    <2> SUFFICES ASSUME NEW t \in Grid, t < Nth(k + n), ~(t < from)
                 PROVE  t \in Instants(from, n)
      OBVIOUS
    <2>1. PICK j \in 0..(Points - 1) : t = Nth(j)
      BY <1>0, GridIs
    <2>2. j < k + n /\ ~(j < k)
      BY <1>0, <1>1, <1>3, <2>1, Ordered
    <2> QED
      BY <1>1, <1>3, <2>1, <2>2
  <1>9. from < Nth(k + n) \/ n = 0
    BY <1>0, <1>1, <1>3, Ordered
  <1>10. Increasing(merged, new)
    <2> SUFFICES ASSUME NEW x \in Series, NEW t \in merged[x], NEW u \in new[x]
                 PROVE  t < u
      BY DEF Increasing
    <2>1. t \in Grid /\ u \in Grid
      BY <1>0, <1>4, <1>5 DEF Typed, TypeOK
    <2>2. t < from /\ ~(u < from)
      BY <1>0, <1>4, <1>7, <2>1 DEF Inv, SoFar
    <2>3. from \in Int
      BY <1>0, <1>1, <1>3, Ordered
    <2> QED
      BY <1>6, <2>1, <2>2, <2>3
  <1>11. /\ merged' = Merge(merged, new)
         /\ from' = Nth(k + n)
         /\ pc' = "chunks"
         /\ UNCHANGED <<kind, range, conf, data, chunk, before, childFailed, late>>
    BY <1>0, <1>3, <1>10 DEF Chunk, input
  <1>12. /\ \A x \in Series : merged'[x] = merged[x] \cup new[x]
         /\ merged' = [x \in Series |-> merged'[x]]
    BY <1>11 DEF Merge
  <1>13. ran' = ran + 1 /\ ran < Points
    <2>1. ran <= ran * chunk
      BY <1>1, SMT DEF RanBound
    <2>2. ran < RanBound
      BY <1>1, <1>3, <2>1 DEF RanBound
    <2> QED
      BY <1>1, <1>3, <2>1, <2>2 DEF Chunk, RanBound
  <1>14. /\ Points' = Points /\ Grid' = Grid /\ RanBound' = RanBound
         /\ \A i : Nth(i)' = Nth(i)
         /\ Instants(range.start, Points + 1)' = Instants(range.start, Points + 1)
    BY <1>11 DEF Points, PointsFrom, Grid, Instants, Nth, RanBound
  <1>15. Typed'
    <2>1. merged' \in [Series -> SUBSET Grid]
      BY <1>0, <1>4, <1>5, <1>12 DEF Typed, TypeOK
    <2>2. from' \in Instants(range.start, Points + 1)
      <3>1. k + n \in 0..Points
        BY <1>1, <1>3
      <3> QED
        BY <1>0, <1>11, <3>1, GridIs
    <2>3. ran' \in 0..RanBound
      BY <1>1, <1>13 DEF RanBound
    <2>4. Input'
      BY <1>0, <1>11 DEF Input
    <2> QED
      BY <1>0, <1>11, <1>14, <2>1, <2>2, <2>3, <2>4 DEF Typed, TypeOK
  <1>16. Cut'
    BY <1>0, <1>11, <1>14 DEF Cut, Native, Allowed, ByHalves
  <1>17. Cursor'
    <2>1. (ran' - 1) * chunk = k
      BY <1>1, <1>3, <1>13
    <2>2. ASSUME k + n # Points PROVE k + n = ran' * chunk
      <3>1. (ran + 1) * chunk = ran * chunk + 1 * chunk
        BY <1>1, Distributes
      <3> QED
        BY <1>1, <1>3, <1>13, <2>2, <3>1
    <2>3. k + n = Points => ~(Nth(k + n) <= range.end)
      BY <1>0, <1>1, Remaining
    <2> QED
      BY <1>1, <1>11, <1>13, <1>14, <2>1, <2>2, <2>3 DEF Cursor
  <1>18. SoFar'
    <2> SUFFICES ASSUME NEW x \in Series, NEW t \in Grid
                 PROVE  /\ t \in merged'[x] => t < from' /\ <<x, t>> \in data
                        /\ t < from' /\ <<x, t>> \in before => t \in merged'[x]
      BY <1>11, <1>14 DEF SoFar
    <2>1. /\ t \in merged[x] => t < from /\ <<x, t>> \in data
          /\ t < from /\ <<x, t>> \in before => t \in merged[x]
      BY <1>0 DEF Inv, SoFar
    <2>2. t < from => t < Nth(k + n)
      <3>1. from <= Nth(k + n) /\ from \in Int /\ Nth(k + n) \in Int
        BY <1>0, <1>1, <1>3, Ordered
      <3> QED
        BY <1>6, <3>1
    <2>3. before \subseteq data
      BY <1>0 DEF Typed, TypeOK
    <2> QED
      BY <1>4, <1>7, <1>8, <1>11, <1>12, <2>1, <2>2, <2>3
  <1>19. QueriesBounded'
    <2> SUFFICES ASSUME Native, Allowed > 0
                 PROVE  ran' <= Allowed
      BY <1>11, <1>14 DEF QueriesBounded, Native, Allowed, ByHalves
    <2>1. Allowed \in Nat
      BY <1>0, Fields DEF Allowed
    <2>2. ran * chunk < Allowed * chunk
      <3>1. Points <= Allowed * chunk
        BY <1>0 DEF Cut
      <3>2. Allowed * chunk \in Int
        BY <1>1, <2>1, Distributes
      <3> QED
        BY <1>1, <1>3, <3>1, <3>2
    <2>3. ran < Allowed
      BY <1>1, <2>1, <2>2, Scaled DEF RanBound
    <2> QED
      BY <1>1, <1>13, <2>1, <2>3
  <1> QED
    BY <1>11, <1>15, <1>16, <1>17, <1>18, <1>19 DEF Inv, AnswerComplete, MergesCleanly

-----------------------------------------------------------------------------
(* The other steps                                                          *)

(* What does not touch the request keeps its numbers.                       *)
LEMMA SameRequest ==
    ASSUME UNCHANGED input
    PROVE  /\ Points' = Points /\ Grid' = Grid /\ RanBound' = RanBound
           /\ Instants(range.start, Points + 1)' = Instants(range.start, Points + 1)
           /\ Input => Input'
           /\ \A k : Nth(k)' = Nth(k)
PROOF
  BY DEF input, Points, PointsFrom, Grid, Instants, Nth, RanBound, Input

(* No point comes before the first.                                         *)
LEMMA FirstPoint ==
    ASSUME Input, NEW t \in Grid
    PROVE  ~(t < range.start) /\ t <= range.end
PROOF
  <1>1. Points \in Nat \ {0}
    BY Counted
  <1>2. PICK j \in 0..(Points - 1) : t = Nth(j)
    BY GridIs
  <1>3. ~(Nth(j) < Nth(0))
    BY <1>1, Ordered
  <1>4. Nth(j) <= range.end
    BY <1>1, Remaining
  <1> QED
    BY <1>2, <1>3, <1>4, GridIs

(* A plan is cut as its size says, or left whole.                           *)
LEMMA InvPlan == Inv /\ Plan => Inv'
PROOF
  <1> SUFFICES ASSUME Inv, Plan PROVE Inv'
    OBVIOUS
  <1>1. /\ Typed /\ Input /\ pc = "plan" /\ ran = 0
        /\ UNCHANGED <<input, data, from, merged, before, ran, childFailed, late>>
    BY DEF Inv, Typed, Cursor, Plan
  <1>2. UNCHANGED <<kind, range, conf>> /\ UNCHANGED input
    BY <1>1 DEF input
  <1>3. \/ pc' = "rejected" /\ chunk' = chunk
        \/ chunk' = ChunkPoints /\ pc' = IF chunk' = 0 THEN "whole" ELSE "preflight"
    BY DEF Plan
  <1>4. chunk' \in Nat /\ pc' \in {"rejected", "whole", "preflight"}
    BY <1>1, <1>3, Size, ChunksAssumption DEF Typed, TypeOK
  <1>5. Typed'
    BY <1>1, <1>2, <1>4, SameRequest DEF Typed, TypeOK
  <1>6. Cut'
    <2>1. Points' = Points
      BY <1>2, SameRequest
    <2>2. pc' = "preflight" => chunk' = ChunkPoints /\ chunk' # 0
      BY <1>3
    <2> QED
      BY <1>1, <1>2, <1>4, <2>1, <2>2, Size, ChunksAssumption DEF Cut, Native, Allowed, ByHalves
  <1>7. Cursor' /\ QueriesBounded'
    BY <1>1, <1>2, <1>4 DEF Inv, Cursor, QueriesBounded, Allowed, ByHalves
  <1>8. SoFar'
    BY <1>1, <1>2, <1>4, SameRequest DEF Inv, SoFar
  <1> QED
    BY <1>1, <1>4, <1>5, <1>6, <1>7, <1>8 DEF Inv, AnswerComplete, MergesCleanly

(* The probe leaves a size as it is or leaves the plan whole.               *)
LEMMA InvPreflight == Inv /\ Preflight => Inv'
PROOF
  <1> SUFFICES ASSUME Inv, Preflight PROVE Inv'
    OBVIOUS
  <1>1. /\ Typed /\ Input /\ pc = "preflight" /\ ran = 0 /\ from = range.start
        /\ UNCHANGED <<input, data, from, merged, before, ran, childFailed, late>>
    BY DEF Inv, Typed, Cursor, Preflight
  <1>2. UNCHANGED <<kind, range, conf>> /\ UNCHANGED input
    BY <1>1 DEF input
  <1>3. \/ pc' = "whole" /\ chunk' = 0
        \/ pc' = "chunks" /\ chunk' = chunk
    BY DEF Preflight
  <1>4. Typed'
    BY <1>1, <1>2, <1>3, SameRequest DEF Typed, TypeOK
  <1>5. Cut'
    BY <1>1, <1>2, <1>3, SameRequest DEF Inv, Cut, Native, Allowed, ByHalves
  <1>6. Cursor'
    <2>1. Nth(ran * chunk) = range.start
      <3>1. 0 * chunk = 0
        BY <1>1 DEF Typed, TypeOK
      <3> QED
        BY <1>1, <3>1, GridIs
    <2> QED
      BY <1>1, <1>2, <1>3, <2>1, SameRequest DEF Cursor
  <1>7. SoFar' /\ QueriesBounded'
    BY <1>1, <1>2, <1>3, SameRequest DEF Inv, SoFar, QueriesBounded, Allowed, ByHalves
  <1> QED
    BY <1>1, <1>3, <1>4, <1>5, <1>6, <1>7 DEF Inv, AnswerComplete, MergesCleanly

(* A plan left whole answers for the whole grid.                            *)
LEMMA InvWhole == Inv /\ Whole => Inv'
PROOF
  <1> SUFFICES ASSUME Inv, Whole PROVE Inv'
    OBVIOUS
  <1>1. /\ Typed /\ Input /\ pc' = "ok"
        /\ merged' = [x \in Series |-> {t \in Grid : <<x, t>> \in data}]
        /\ UNCHANGED <<input, data, chunk, from, before, ran, childFailed, late>>
    BY DEF Inv, Typed, Whole, Answer, Grid
  <1>2. UNCHANGED <<kind, range, conf>> /\ UNCHANGED input
    BY <1>1 DEF input
  <1>3. Typed'
    BY <1>1, <1>2, SameRequest DEF Typed, TypeOK
  <1>4. AnswerComplete'
    <2>1. before \subseteq data
      BY <1>1 DEF Typed, TypeOK
    <2> QED
      BY <1>1, <1>2, <2>1, SameRequest DEF AnswerComplete
  <1>5. QueriesBounded'
    BY <1>1, <1>2 DEF Inv, QueriesBounded, Allowed, ByHalves
  <1> QED
    BY <1>1, <1>3, <1>4, <1>5 DEF Inv, Cut, Cursor, SoFar, MergesCleanly

(* With the cursor behind the end every point is before it.                 *)
LEMMA InvChunksDone == Inv /\ ChunksDone => Inv'
PROOF
  <1> SUFFICES ASSUME Inv, ChunksDone PROVE Inv'
    OBVIOUS
  <1>1. /\ Typed /\ Input /\ pc = "chunks" /\ pc' = "ok" /\ from > range.end
        /\ UNCHANGED <<input, data, chunk, from, merged, before, ran, childFailed, late>>
    BY DEF Inv, Typed, ChunksDone
  <1>2. UNCHANGED <<kind, range, conf>> /\ UNCHANGED input
    BY <1>1 DEF input
  <1>3. Typed'
    BY <1>1, <1>2, SameRequest DEF Typed, TypeOK
  <1>4. ASSUME NEW t \in Grid PROVE t < from
    <2>1. t <= range.end
      BY <1>1, FirstPoint
    <2>2. PICK j \in 0..(Points - 1) : t = Nth(j)
      BY <1>1, GridIs
    <2>3. PICK k \in 0..Points : from = Nth(k)
      BY <1>1, GridIs DEF Typed, TypeOK
    <2>4. t \in Int /\ from \in Int
      BY <1>1, <2>2, <2>3, Counted, Ordered
    <2> QED
      BY <1>1, <2>1, <2>4, Fields
  <1>5. AnswerComplete'
    BY <1>1, <1>2, <1>4, SameRequest DEF Inv, SoFar, AnswerComplete
  <1>6. QueriesBounded'
    BY <1>1, <1>2 DEF Inv, QueriesBounded, Allowed, ByHalves
  <1> QED
    BY <1>1, <1>3, <1>5, <1>6 DEF Inv, Cut, Cursor, SoFar, MergesCleanly

(* A failed query ends the request and is remembered.                       *)
LEMMA InvFail == Inv /\ Fail => Inv'
PROOF
  <1> SUFFICES ASSUME Inv, Fail PROVE Inv'
    OBVIOUS
  <1>1. /\ Typed /\ Input /\ pc # "ok" /\ pc' = "failed" /\ childFailed' = TRUE
        /\ UNCHANGED <<input, data, chunk, from, merged, before, ran, late>>
    BY DEF Inv, Typed, Fail
  <1>2. UNCHANGED <<kind, range, conf>> /\ UNCHANGED input
    BY <1>1 DEF input
  <1>3. Typed'
    BY <1>1, <1>2, SameRequest DEF Typed, TypeOK
  <1>4. SoFar' /\ QueriesBounded'
    BY <1>1, <1>2, SameRequest DEF Inv, SoFar, QueriesBounded, Allowed, ByHalves
  <1> QED
    BY <1>1, <1>3, <1>4 DEF Inv, Cut, Cursor, AnswerComplete, MergesCleanly

(* A sample that arrives takes none away.                                   *)
LEMMA InvArrive == Inv /\ Arrive => Inv'
PROOF
  <1> SUFFICES ASSUME Inv, Arrive PROVE Inv'
    OBVIOUS
  <1>1. /\ Typed /\ Input
        /\ UNCHANGED <<input, pc, chunk, from, merged, before, ran, childFailed>>
    BY DEF Inv, Typed, Arrive
  <1>2. UNCHANGED <<kind, range, conf>> /\ UNCHANGED input
    BY <1>1 DEF input
  <1>3. data' \subseteq Series \X Grid /\ data \subseteq data'
    BY <1>1 DEF Arrive, Typed, TypeOK
  <1>4. late' \in 0..MaxLate
    BY <1>1, ChunksAssumption DEF Arrive, Typed, TypeOK
  <1>5. Typed'
    BY <1>1, <1>2, <1>3, <1>4, SameRequest DEF Typed, TypeOK
  <1>6. Cut' /\ Cursor'
    BY <1>1, <1>2, SameRequest DEF Inv, Cut, Cursor, Native, Allowed, ByHalves
  <1>7. SoFar' /\ AnswerComplete'
    BY <1>1, <1>2, <1>3, SameRequest DEF Inv, SoFar, AnswerComplete
  <1>8. QueriesBounded' /\ MergesCleanly'
    BY <1>1, <1>2 DEF Inv, QueriesBounded, MergesCleanly, Allowed, ByHalves
  <1> QED
    BY <1>5, <1>6, <1>7, <1>8 DEF Inv

(* Every step keeps the invariant.                                          *)
LEMMA InvStep == Inv /\ [Next]_vars => Inv'
PROOF
  <1> SUFFICES ASSUME Inv, [Next]_vars PROVE Inv'
    OBVIOUS
  <1>1. CASE UNCHANGED vars
    <2>1. UNCHANGED <<kind, range, conf, data, pc, chunk, from, merged, before, ran,
                      childFailed, late>> /\ UNCHANGED input
      BY <1>1 DEF vars, input
    <2>2. Typed' /\ Cut' /\ Cursor'
      BY <2>1, SameRequest DEF Inv, Typed, TypeOK, Cut, Cursor, Native, Allowed, ByHalves
    <2>3. SoFar' /\ AnswerComplete' /\ QueriesBounded' /\ MergesCleanly'
      BY <2>1, SameRequest
         DEF Inv, SoFar, AnswerComplete, QueriesBounded, MergesCleanly, Allowed, ByHalves
    <2> QED
      BY <2>2, <2>3 DEF Inv
  <1> QED
    BY <1>1, InvPlan, InvPreflight, InvWhole, InvChunk, InvChunksDone, InvFail, InvArrive
       DEF Next, Work, Done

-----------------------------------------------------------------------------
(* The theorems                                                             *)

(* The invariant holds throughout.                                          *)
LEMMA Invariant == Spec => []Inv
PROOF
  BY InvInit, InvStep, PTL DEF Spec

(* Every variable keeps its type: the cursor stands on an instant of the    *)
(* request or one step behind the last, whatever the sizes.                 *)
THEOREM TypeCorrect == Spec => []TypeOK
PROOF
  <1>1. Inv => TypeOK
    BY DEF Inv, Typed
  <1> QED
    BY <1>1, Invariant, PTL

(* However a range is cut, and whatever arrives, no point that was there is  *)
(* lost and none is made up.                                                *)
THEOREM NothingLost == Spec => []AnswerComplete
PROOF
  <1>1. Inv => AnswerComplete
    BY DEF Inv
  <1> QED
    BY <1>1, Invariant, PTL

(* The strict merge never refuses what the chunks bring.                    *)
THEOREM NeverRefused == Spec => []MergesCleanly
PROOF
  <1>1. Inv => MergesCleanly
    BY DEF Inv
  <1> QED
    BY <1>1, Invariant, PTL

(* No native plan is cut into more queries than the limit, where there is   *)
(* one; a cumulative average under the default cap into no more than two.   *)
THEOREM FewQueries == Spec => []QueriesBounded
PROOF
  <1>1. Inv => QueriesBounded
    BY DEF Inv
  <1> QED
    BY <1>1, Invariant, PTL
=============================================================================
