--------------------------- MODULE RecursionReply ---------------------------
(***************************************************************************)
(* What a finished recursive resolution becomes (respond and classify in   *)
(* recursion.rs).  A record is its part in the reply and its proof; a      *)
(* query is the DO and CD flags; an error of the recursor is its class.    *)
(***************************************************************************)
EXTENDS Naturals, FiniteSets, FiniteSetsExt

CONSTANTS
  RrRecords       \* bound: records of a section

ASSUME RrAssumption == RrRecords \in Nat

VARIABLES
  rrReply         \* the last resolution: query, result and reply

rrVars == <<rrReply>>

RrProofs == {"secure", "insecure", "indeterminate", "bogus"}
\* a record of the queried type, an alias, an RRSIG over them, a denial
\* (NSEC, NSEC3 or a signature over one), SOA or another authority record
RrAnswerRecords == [part : {"queried", "alias", "signature"}, proof : RrProofs]
RrAuthorityRecords == [part : {"denial", "soa", "ns"}, proof : RrProofs]
RrSections(records) == UNION {kSubset(k, records) : k \in 0 .. RrRecords}
RrQueries == [do : BOOLEAN, cd : BOOLEAN]

RrErrors == {"negative", "bogus", "timeout", "referral", "budget", "other"}
\* what resolve_with returns: a message, or an error; a negative error carries
\* the authority records of the denial
RrResults ==
  {[err |-> e, answers |-> {}, authorities |-> {}] : e \in RrErrors \ {"negative"}}
  \cup [err : {"none"}, answers : RrSections(RrAnswerRecords), authorities : RrSections(RrAuthorityRecords)]
  \cup [err : {"negative"}, answers : {{}}, authorities : RrSections(RrAuthorityRecords)]

RrReplyOf(code, ad, answers, authorities) ==
  [code |-> code, ad |-> ad, answers |-> answers, authorities |-> authorities]
RrBogus == RrReplyOf("servfail bogus", FALSE, {}, {})

\* validation: the weakest proof, none for no records
RrRank == [secure |-> 0, insecure |-> 1, indeterminate |-> 2, bogus |-> 3]
RrValidation(records) ==
  IF records = {} THEN "none"
  ELSE CHOOSE p \in RrProofs : /\ \E rec \in records : rec.proof = p
                              /\ \A rec \in records : RrRank[rec.proof] <= RrRank[p]

\* Mutant: denials are kept without their validation.
RrDenialsUnchecked(q, authorities) == {rec \in authorities : q.do /\ rec.part = "denial"}

\* a positive answer keeps only denials in its authority section, for a DO
\* client, validated unless the client validates for itself
RrDenials(q, authorities) ==
  {rec \in authorities : q.do /\ rec.part = "denial" /\ (q.cd \/ rec.proof = "secure")}

\* maybe_strip_dnssec_records, for a client that did not ask for them
RrStripped(q, records) == IF q.do THEN records ELSE {rec \in records : rec.part \notin {"signature", "denial"}}

RrRespond(q, result) ==
  LET answered == \E rec \in result.answers : rec.part = "queried"
      authorities == IF answered THEN RrDenials(q, result.authorities) ELSE result.authorities
      proof == RrValidation(IF answered THEN result.answers ELSE result.answers \cup result.authorities)
  IN  CASE result.err \in {"timeout", "other"} -> RrReplyOf("error", FALSE, {}, {})
        [] result.err \in {"referral", "budget"} -> RrReplyOf("servfail", FALSE, {}, {})
        [] result.err = "bogus" \/ proof = "bogus" -> RrBogus
        [] OTHER -> RrReplyOf(IF answered THEN "answer" ELSE "negative", ~q.cd /\ proof = "secure",
                              RrStripped(q, result.answers), RrStripped(q, authorities))

RrInit == rrReply = [q |-> [do |-> FALSE, cd |-> FALSE], result |-> [err |-> "none", answers |-> {}, authorities |-> {}],
                     reply |-> RrReplyOf("none", FALSE, {}, {})]
RrAnswer ==
  \E q \in RrQueries, result \in RrResults :
    rrReply' = [q |-> q, result |-> result, reply |-> RrRespond(q, result)]

RrNext == rrReply.reply.code = "none" /\ RrAnswer

RrSpec == RrInit /\ [][RrNext]_rrVars

(***************************************************************************)
(* Properties                                                              *)
(***************************************************************************)

\* A reply is as good as it says: a client that does not validate itself gets
\* no Bogus record in an answer, its proof or a denial, and AD vouches for
\* every answer record, stripped or not, and every authority record it gets
\* (respond).
RecursiveReplySound ==
  LET q == rrReply.q
      reply == rrReply.reply
      records == reply.answers \cup reply.authorities
  IN  /\ ~q.cd => \A rec \in records : rec.proof # "bogus"
      /\ reply.ad => ~q.cd /\ \A rec \in records \cup rrReply.result.answers : rec.proof = "secure"
=============================================================================
