------------------------------ MODULE TDigest ------------------------------
(***************************************************************************)
(* The mergeable percentile sketch (crates/common/src/tdigest.rs).         *)
(*                                                                         *)
(* A centroid is its weight and the sum of its samples, so that its mean,  *)
(* sum / weight, stays exact; means are compared by cross multiplication.  *)
(* The scale step is that of delta = 4, where k(r) - k(l) <= 1 is a        *)
(* polynomial inequality (asin b - asin a <= pi/2): the delta of the code, *)
(* 100, makes no centroid of two samples before there are dozens of them.  *)
(***************************************************************************)
EXTENDS Integers, Sequences, SequencesExt

CONSTANT BufferCap      \* buffered samples that force a compression (delta * 10)

ASSUME BufferCapAssumption == BufferCap \in Nat \ {0}

Empty == [centroids |-> <<>>, buffer |-> <<>>, count |-> 0]

MeanBelow(c, d) == c.sum * d.weight < d.sum * c.weight

ByMean(points) == SortSeq(points, MeanBelow)

Weight(points) == FoldLeft(LAMBDA n, c : n + c.weight, 0, points)

\* k(right / total) - k(left / total) <= 1, for a centroid over that span
WithinStep(left, right, total) ==
  \/ 2 * right <= total \/ 2 * left >= total
  \/ (2*right - total) * (2*right - total) + (2*left - total) * (2*left - total)
       <= total * total

\* One step of the greedy clustering: the current centroid takes the point, or
\* is closed.
Cluster(total, acc, p) ==
  LET both == acc.cur.weight + p.weight
  IN IF WithinStep(acc.cum, acc.cum + both, total)
     THEN [acc EXCEPT !.cur = [sum |-> @.sum + p.sum, weight |-> both]]
     ELSE [merged |-> Append(acc.merged, acc.cur), cur |-> p,
           cum |-> acc.cum + acc.cur.weight]

compress(d) ==
  IF d.buffer = <<>> /\ Len(d.centroids) <= 1 THEN d
  ELSE LET points == ByMean(d.centroids \o
                       [i \in DOMAIN d.buffer |-> [sum |-> d.buffer[i], weight |-> 1]])
           total  == Weight(points)
           acc    == FoldLeft(LAMBDA a, p : Cluster(total, a, p),
                              [merged |-> <<>>, cur |-> Head(points), cum |-> 0], Tail(points))
       IN [centroids |-> Append(acc.merged, acc.cur), buffer |-> <<>>, count |-> total]

add_sample(d, x) ==
  LET e == [d EXCEPT !.buffer = Append(@, x), !.count = @ + 1]
  IN IF Len(e.buffer) >= BufferCap THEN compress(e) ELSE e

\* The centroids on the wire
to_parts(d) == compress(d).centroids

from_parts(parts) ==
  [centroids |-> ByMean(parts), buffer |-> <<>>, count |-> Weight(parts)]

merge(d, other) ==
  compress([centroids |-> d.centroids \o other.centroids,
            buffer |-> d.buffer \o other.buffer,
            count |-> d.count + other.count])

-----------------------------------------------------------------------------
(* The value at quantile n / m, a fraction [num, den]: it reads the        *)
(* centroids only.  Centres are kept doubled: 2 * acc + weight.            *)

Centre(d, i) == 2 * Weight(SubSeq(d.centroids, 1, i - 1)) + d.centroids[i].weight

Mean(c) == [num |-> c.sum, den |-> c.weight]

NaN == [num |-> 0, den |-> 0]

quantile(d, n, m) ==
  LET cs    == d.centroids
      right == SelectInSeq([i \in DOMAIN cs |-> 2 * n * d.count <= m * Centre(d, i)],
                           LAMBDA b : b)
  IN IF cs = <<>> THEN NaN
     ELSE IF Len(cs) = 1 \/ right = 1 THEN Mean(cs[1])
     ELSE IF right = 0 THEN Mean(Last(cs))
     ELSE LET p    == cs[right - 1]
              c    == cs[right]
              from == Centre(d, right - 1)
              span == m * (Centre(d, right) - from)
          IN [num |-> p.sum * c.weight * span
                        + (2 * n * d.count - m * from) * (c.sum * p.weight - p.sum * c.weight),
              den |-> p.weight * c.weight * span]
=============================================================================
