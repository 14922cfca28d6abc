-------------------------- MODULE StableSampling --------------------------
(***************************************************************************)
(* StableRng::bounded and the bootstrap's sampling of indices.  A word of  *)
(* the generator is Bits wide (32 in the code) and any word may come; the  *)
(* product with the bound is twice as wide.                                *)
(***************************************************************************)
EXTENDS Integers, Sequences, FiniteSets

CONSTANT Bits

ASSUME SamplingAssumption == Bits \in Nat \ {0}

Words == 0 .. 2 ^ Bits - 1

(* Mutant of RejectionThreshold: the remainder of the largest word.        *)
RejectionThresholdOfMax(bound) == (2 ^ Bits - 1) % bound

(* -bound wraps to 2^Bits - bound.                                         *)
RejectionThreshold(bound) == ((0 - bound) % 2 ^ Bits) % bound

Accepted(word, bound) == (word * bound) % 2 ^ Bits >= RejectionThreshold(bound)
Bounded(word, bound)  == (word * bound) \div 2 ^ Bits

(* sample_indices with circular blocks: the indices made of these starts.  *)
SampleIndices(n, block, starts) ==
  [i \in 1 .. n |-> (starts[((i - 1) \div block) + 1] + ((i - 1) % block)) % n]

(* Every value below the bound is made by the same number of accepted      *)
(* words, as many as there can be, and no other value is.                  *)
Uniform(bound) ==
  LET made(value) == {word \in Words : Accepted(word, bound) /\ Bounded(word, bound) = value}
  IN /\ \A value \in 0 .. bound - 1 : Cardinality(made(value)) = 2 ^ Bits \div bound
     /\ \A word \in Words : Accepted(word, bound) => Bounded(word, bound) < bound

(* With uniform starts, every index is drawn equally often at every place  *)
(* of the sample, the ends of the series included.                         *)
EvenSample(n, block) ==
  LET starts == [1 .. ((n - 1) \div block) + 1 -> 0 .. n - 1]
  IN \A i \in 1 .. n : \A value \in 0 .. n - 1 :
       Cardinality({s \in starts : SampleIndices(n, block, s)[i] = value}) * n
         = Cardinality(starts)
=============================================================================
