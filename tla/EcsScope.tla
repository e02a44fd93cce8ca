----------------------------- MODULE EcsScope -----------------------------
(***************************************************************************)
(* EDNS client subnets and the cache namespaces they select (ecs.rs,       *)
(* scopes_overlap and learned_serves of cache.rs).                         *)
(*                                                                         *)
(* A network is its family and the bits of its prefix, so truncation is    *)
(* taking a prefix of the bits.  The address of a network is the prefix    *)
(* padded with zero bits, as IpNet::trunc leaves it.                       *)
(***************************************************************************)
EXTENDS Integers, Sequences

CONSTANTS Width   \* bits of an address (32 and 128 in the code)

ASSUME WidthAssumption == Width \in Nat

Bit == {0, 1}
BitPrefixes == {s \in Seq(Bit) : Len(s) <= Width}

\* Option<ClientSubnet> of an outgoing query.
NoSubnet == [sent |-> FALSE, ipv4 |-> TRUE, bits |-> <<>>]
Subnets == [sent : {TRUE}, ipv4 : BOOLEAN, bits : BitPrefixes] \cup {NoSubnet}
Subnet(v4, b) == [sent |-> TRUE, ipv4 |-> v4, bits |-> b]
SourcePrefix(sub) == Len(sub.bits)

NoEcs == [kind |-> "no_ecs", ipv4 |-> TRUE, bits |-> <<>>]
Privacy(v4) == [kind |-> "privacy", ipv4 |-> v4, bits |-> <<>>]
Network(v4, b) == [kind |-> "network", ipv4 |-> v4, bits |-> b]
ExactSource(v4, b) == [kind |-> "exact", ipv4 |-> v4, bits |-> b]
Learned(v4) == [kind |-> "learned", ipv4 |-> v4, bits |-> <<>>]

Scopes ==
    {NoEcs}
      \cup [kind : {"privacy", "learned"}, ipv4 : BOOLEAN, bits : {<<>>}]
      \cup [kind : {"network", "exact"}, ipv4 : BOOLEAN, bits : BitPrefixes]

Netlike(scope) == scope.kind \in {"network", "exact"}

\* The i-th bit of a network's address.
AddrBit(b, i) == IF i <= Len(b) THEN b[i] ELSE 0

\* IpNet::contains applied to the address of the network with prefix b.
NetContains(n, b) == \A i \in 1..Len(n) : n[i] = AddrBit(b, i)

\* Scope::matches
Matches(scope, sub) ==
    \/ /\ scope.kind = "no_ecs"
       /\ ~sub.sent
    \/ /\ sub.sent
       /\ scope.ipv4 = sub.ipv4
       /\ \/ /\ scope.kind = "privacy"
             /\ SourcePrefix(sub) = 0
          \/ /\ SourcePrefix(sub) > 0
             /\ \/ /\ scope.kind = "network"
                   /\ Len(scope.bits) <= SourcePrefix(sub)
                   /\ NetContains(scope.bits, sub.bits)
                \/ /\ scope.kind = "exact"
                   /\ scope.bits = sub.bits
                \/ scope.kind = "learned"

\* Scope::prefix_len
PrefixLen(scope) == IF Netlike(scope) THEN Len(scope.bits) ELSE 0

\* scopes_overlap
ScopesOverlap(a, b) ==
    \/ /\ Netlike(a) /\ Netlike(b)
       /\ a.ipv4 = b.ipv4
       /\ NetContains(a.bits, b.bits) \/ NetContains(b.bits, a.bits)
    \/ /\ {a.kind, b.kind} \subseteq {"learned", "network", "exact"}
       /\ (a.kind = "learned") # (b.kind = "learned")
       /\ a.ipv4 = b.ipv4
    \/ a = b

\* learned_serves
LearnedServes(entry, filter) ==
    /\ entry.kind = "learned"
    /\ Netlike(filter)
    /\ PrefixLen(filter) > 0
    /\ entry.ipv4 = filter.ipv4

\* Context::source_scope: the namespace of exactly the sent query.
SourceScope(sub) ==
    IF ~sub.sent THEN NoEcs
    ELSE IF SourcePrefix(sub) = 0 THEN Privacy(sub.ipv4)
    ELSE ExactSource(sub.ipv4, sub.bits)

\* Context::response_scope: the namespaces a usable response can select.  It has
\* no ECS option, or echoes the sent network with a scope of at most its length.
ResponseScopes(sub) ==
    {SourceScope(sub)} \cup
    {IF SourcePrefix(sub) = 0 THEN Privacy(sub.ipv4)
                              ELSE Network(sub.ipv4, SubSeq(sub.bits, 1, n)) :
       n \in IF sub.sent THEN 0..SourcePrefix(sub) ELSE {}}

\* Networks that share no address: neither contains the other.
Disjoint(a, b) == ~NetContains(a, b) /\ ~NetContains(b, a)
=============================================================================
