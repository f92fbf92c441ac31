-------------------------------- MODULE Ranges --------------------------------
(***************************************************************************)
(* The byte-range arithmetic of internal/cache/ranges.go and               *)
(* findGapsInRange: sequences of [Offset, Length] as the code keeps them.  *)
(***************************************************************************)
EXTENDS Integers, Sequences, SequencesExt

Interval(offset, length) == [Offset |-> offset, Length |-> length]
End(r) == r.Offset + r.Length

(* Reference definitions: the bytes of one range and of a slice of ranges. *)
Bytes(r) == r.Offset..(End(r) - 1)
Covered(ranges) == UNION {Bytes(ranges[i]) : i \in DOMAIN ranges}

(* In order, with at least a byte between any two. *)
Apart(ranges) == \A i, j \in DOMAIN ranges : i < j => End(ranges[i]) < ranges[j].Offset

(* A bug: adjacent ranges stay apart. *)
AbsorbOverlap(merged, next) ==
  IF merged = <<>> \/ next.Offset >= End(Last(merged)) THEN Append(merged, next)
  ELSE IF End(next) > End(Last(merged))
       THEN Append(Front(merged),
                   Interval(Last(merged).Offset, End(next) - Last(merged).Offset))
       ELSE merged

(* One step of the merge: extend the current range or start a new one. *)
Absorb(merged, next) ==
  IF merged = <<>> THEN <<next>>
  ELSE LET current == Last(merged)
       IN IF next.Offset > End(current) THEN Append(merged, next)
          ELSE IF End(next) > End(current)
               THEN Append(Front(merged), Interval(current.Offset, End(next) - current.Offset))
               ELSE merged

(* sort.Slice by offset; which of two ranges with one offset comes first is left open. *)
sortByOffset(ranges) ==
  LET order == CHOOSE o \in [DOMAIN ranges -> DOMAIN ranges] :
                 \A i, j \in DOMAIN ranges :
                   i < j => o[i] # o[j] /\ ranges[o[i]].Offset <= ranges[o[j]].Offset
  IN [i \in DOMAIN ranges |-> ranges[order[i]]]

mergeRanges(ranges) == FoldLeft(Absorb, <<>>, sortByOffset(ranges))

addRange(ranges, newRange) == mergeRanges(Append(ranges, newRange))

(* A bug: the gap after the last range is forgotten. *)
findInnerGaps(ranges, totalSize) ==
  LET merged == mergeRanges(ranges)
      from(i) == IF i = 1 THEN 0 ELSE End(merged[i - 1])
      before == [i \in DOMAIN merged |-> Interval(from(i), merged[i].Offset - from(i))]
  IN SelectSeq(before, LAMBDA gap : gap.Length > 0 /\ totalSize > 0)

(* One step of the walk: the gap before a merged range, if any, and the end of it. *)
Skip(walk, r) ==
  [pos |-> IF End(r) > walk.pos THEN End(r) ELSE walk.pos,
   gaps |-> IF r.Offset > walk.pos
            THEN Append(walk.gaps, Interval(walk.pos, r.Offset - walk.pos))
            ELSE walk.gaps]

(* The gaps before merged ranges, then the one at the end. *)
findGaps(ranges, totalSize) ==
  LET last == FoldLeft(Skip, [pos |-> 0, gaps |-> <<>>], mergeRanges(ranges))
  IN IF totalSize <= 0 THEN <<>>
     ELSE IF last.pos < totalSize
          THEN Append(last.gaps, Interval(last.pos, totalSize - last.pos))
          ELSE last.gaps

sumOfLengths(ranges) ==   \* a bug: overlaps count twice
  FoldLeft(LAMBDA total, r : total + r.Length, 0, ranges)

AddLength(total, r) == total + r.Length
totalCoverage(ranges) == FoldLeft(AddLength, 0, mergeRanges(ranges))

isComplete(ranges, totalSize) ==
  totalCoverage(ranges) = totalSize /\ findGaps(ranges, totalSize) = <<>>

(* A bug: the last byte of a range is not served. *)
endsInside(ranges, offset, length) ==
  LET merged == mergeRanges(ranges)
  IN \E i \in DOMAIN merged : merged[i].Offset <= offset /\ End(merged[i]) > offset + length

containsRange(ranges, offset, length) ==
  LET merged == mergeRanges(ranges)
  IN \E i \in DOMAIN merged : merged[i].Offset <= offset /\ End(merged[i]) >= offset + length

findGapsBelow(ranges, offset, length) ==   \* a bug: not cut to the window
  findGaps(ranges, offset + length)

(* What is left of a gap between offset and end, if anything. *)
Clip(result, gap, offset, end) ==
  LET start == IF gap.Offset < offset THEN offset ELSE gap.Offset
      stop == IF End(gap) > end THEN end ELSE End(gap)
  IN IF stop > start THEN Append(result, Interval(start, stop - start)) ELSE result

(* The gaps below the end of the window, cut to the window. *)
findGapsInRange(ranges, offset, length) ==
  LET end == offset + length
  IN IF length <= 0 THEN <<>>
     ELSE FoldLeft(LAMBDA result, gap : Clip(result, gap, offset, end), <<>>,
                   findGaps(ranges, end))
===============================================================================
