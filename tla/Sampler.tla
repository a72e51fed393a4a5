------------------------------- MODULE Sampler -------------------------------
(***************************************************************************)
(* The distribution of recommendations.Sampler: a sorted map from running  *)
(* sums of probabilities to elements.  A sample is the element at the      *)
(* first key that is not below a random number; it is removed, and what    *)
(* comes after it is put back under smaller keys.  Probabilities are whole *)
(* numbers here, and the random number x stands for those above x - 1.     *)
(***************************************************************************)
EXTENDS Integers, Sequences, SequencesExt

CONSTANT Probability \* of each element

Elements == DOMAIN Probability

ASSUME ProbabilityAssumption ==
    /\ IsFiniteSet(Elements)
    /\ Probability \in [Elements -> Nat \ {0}]

\* SortedMap.put.
Entered(map, key, e) == [k \in DOMAIN map \cup {key} |-> IF k = key THEN e ELSE map[k]]

\* The body of the loops of the constructor and of sample().
PutNext(sampler, e) ==
    LET sum == sampler.sum + Probability[e]
    IN  [distribution |-> Entered(sampler.distribution, sum, e), sum |-> sum]

PutAll(sampler, elements) ==
    LET loop[n \in 0..Len(elements)] ==
          IF n = 0 THEN sampler ELSE PutNext(loop[n - 1], elements[n])
    IN  loop[Len(elements)]

EmptySampler == [distribution |-> [k \in {} |-> k], sum |-> 0]
NewSampler(population) == PutAll(EmptySampler, population)

TailMap(sampler, x) == {k \in DOMAIN sampler.distribution : k >= x}
Sample(sampler, x) == sampler.distribution[Min(TailMap(sampler, x))]

\* Mutant: the tail is put back after the place of the sample.
MutBefore(sampler, first) == first
Before(sampler, first) == first - Probability[sampler.distribution[first]]

\* The keys in the order in which firstKey() gives them.
Ascending(keys) ==
    CHOOSE refill \in [1..Cardinality(keys) -> keys] :
        \A i, j \in DOMAIN refill : i < j => refill[i] < refill[j]

AfterSample(sampler, x) ==
    LET map == sampler.distribution
        rest == TailMap(sampler, x)
        first == Min(rest)
        refill == Ascending(rest \ {first})
    IN  PutAll([distribution |-> Restrict(map, DOMAIN map \ rest),
                sum |-> Before(sampler, first)],
               [i \in DOMAIN refill |-> map[refill[i]]])

\* However the population is ordered, every element is drawn with its probability
\* relative to the others, and what is left is the sampler of the others.
Fair(population) ==
    LET sampler == NewSampler(population) IN
    /\ \A e \in Range(population) :
        Cardinality({x \in 1..sampler.sum : Sample(sampler, x) = e}) = Probability[e]
    /\ \A x \in 1..sampler.sum : \E i \in DOMAIN population :
        /\ Sample(sampler, x) = population[i]
        /\ AfterSample(sampler, x) = NewSampler(RemoveAt(population, i))
=============================================================================
