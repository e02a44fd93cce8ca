------------------------------ MODULE MCCache ------------------------------
(***************************************************************************)
(* Small instances of module Cache.  Addresses have two bits.              *)
(***************************************************************************)
EXTENDS Cache

CONSTANTS k1, k2, fpA, fpB

Answer(fp, lifetime, negative, charge) ==
    [fp |-> fp, lifetime |-> lifetime, negative |-> negative, charge |-> charge]
Limits(pos, neg) == [p \in Parts |-> IF p = "positive" THEN pos ELSE neg]

Everything == [keys |-> Keys, scope |-> AnyScope]
Only(k, scope) == [keys |-> {k}, scope |-> scope]

\* Books: no client subnets; records and answers of both partitions, of one
\* and two units, and one that cannot be stored.
PlainSubs == {NoSubnet}
PlainAnswers ==
    {Answer(fpA, 1, FALSE, 1), Answer(fpA, 2, FALSE, 2), Answer(fpB, 1, TRUE, 1),
     Answer(fpA, 0, FALSE, 1)}
PlainFilters == {Everything} \cup {Only(k, AnyScope) : k \in Keys}
PlainSymmetry == Permutations(Keys)
PlainEntries == Limits(2, 1)
PlainBytes == Limits(3, 2)

\* Scopes: three networks, one of them inside another; answers that agree,
\* that cannot be stored or fingerprinted, and that disagree.
NestedSubs == {Subnet(TRUE, <<0>>), Subnet(TRUE, <<0, 1>>), Subnet(TRUE, <<1>>)}
NestedAnswers ==
    {Answer(fpA, 2, FALSE, 1), Answer(NoFingerprint, 0, FALSE, 1), Answer(fpB, 1, TRUE, 1)}
NestedFilters == {Everything, Only(k1, ExactSource(TRUE, <<0>>))}
NestedLimits == Limits(3, 1)
=============================================================================
