----------------------------- MODULE MCTraffic ------------------------------
(***************************************************************************)
(* The parts a query meets, on small instances side by side: listeners and *)
(* their budgets, the running generation and its certificates, the policy, *)
(* the sharing table, the upstream transports and recursion.               *)
(*                                                                         *)
(* A behaviour picks one part at its start and moves only that part, so    *)
(* the states are the sum of the parts' states, each part from its own     *)
(* initial state by its own actions.  The parts share no variable.  They   *)
(* share model values: nothing compares those of two parts.                *)
(***************************************************************************)
EXTENDS SharingHistory, Limits, AuthBudget, DnsRuntime, Certificates, UpstreamSend, UpstreamH3,
        UpstreamPool, DotPool, Recursion, RecursionReply, Policy, Serving

CONSTANTS one, two, k1, fpA, fpB

VARIABLE part    \* the part that moves

MCSymmetry == Permutations({one, two})

\* Nested and sibling networks, and one of IPv6.
Net(v4, b) == [ipv4 |-> v4, bits |-> b]
MCNetworks == {Net(TRUE, <<0>>), Net(TRUE, <<0, 0>>), Net(TRUE, <<0, 1>>), Net(TRUE, <<1>>),
               Net(FALSE, <<1>>)}
MCSeen == {[fp |-> fpA, lifetime |-> 2], [fp |-> fpB, lifetime |-> 1],
           [fp |-> NoFingerprint, lifetime |-> 0]}

\* Names are sequences of labels from the root.
MCKeys == {<<1>>, <<1, 1>>, <<1, 2>>, <<1, 1, 1>>}
MCNames == MCKeys \cup {<<>>, <<2>>, <<1, 1, 2>>, <<1, 2, 1>>, <<1, 1, 1, 1>>}
MCLinks == {<<<<1, 1>>, <<2>>>>, <<<<2>>, <<1, 1, 1>>>>, <<<<1, 1, 1>>, <<1, 1>>>>}
MCQuestion == <<1, 1>>

answers == <<sharingVars, poVars, rcVars, rrVars>>
upstreams == <<usVars, uhVars, uwVars, dpVars>>
ingress == <<limVars, authVars, svVars>>
generation == <<rtVars, ceVars>>

MCInit ==
    /\ part \in {"sharing", "policy", "recursion", "reply", "send", "h3", "pool", "dot",
                 "limits", "attempts", "serving", "runtime", "certificates"}
    /\ SharingInit /\ PoInit /\ RcInit /\ RrInit /\ UsInit /\ UhInit /\ UwInit /\ DpInit
    /\ LimInit /\ AuthInit /\ SvInit /\ RtInit /\ CeInit

AnswersNext ==
    \/ part = "sharing" /\ SharingNext /\ UNCHANGED <<poVars, rcVars, rrVars>>
    \/ part = "policy" /\ PoNext /\ UNCHANGED <<sharingVars, rcVars, rrVars>>
    \/ part = "recursion" /\ RcNext /\ UNCHANGED <<sharingVars, poVars, rrVars>>
    \/ part = "reply" /\ RrNext /\ UNCHANGED <<sharingVars, poVars, rcVars>>

UpstreamsNext ==
    \/ part = "send" /\ UsNext /\ UNCHANGED <<uhVars, uwVars, dpVars>>
    \/ part = "h3" /\ UhNext /\ UNCHANGED <<usVars, uwVars, dpVars>>
    \/ part = "pool" /\ UwNext /\ UNCHANGED <<usVars, uhVars, dpVars>>
    \/ part = "dot" /\ DpNext /\ UNCHANGED <<usVars, uhVars, uwVars>>

IngressNext ==
    \/ part = "limits" /\ LimNext /\ UNCHANGED <<authVars, svVars>>
    \/ part = "attempts" /\ AuthNext /\ UNCHANGED <<limVars, svVars>>
    \/ part = "serving" /\ SvNext /\ UNCHANGED <<limVars, authVars>>

GenerationNext ==
    \/ part = "runtime" /\ RtNext /\ UNCHANGED ceVars
    \/ part = "certificates" /\ CeNext /\ UNCHANGED rtVars

MCNext ==
    /\ UNCHANGED part
    /\ \/ AnswersNext /\ UNCHANGED <<upstreams, ingress, generation>>
       \/ UpstreamsNext /\ UNCHANGED <<answers, ingress, generation>>
       \/ IngressNext /\ UNCHANGED <<answers, upstreams, generation>>
       \/ GenerationNext /\ UNCHANGED <<answers, upstreams, ingress>>

MCSpec == MCInit /\ [][MCNext]_<<part, answers, upstreams, ingress, generation>>
=============================================================================
