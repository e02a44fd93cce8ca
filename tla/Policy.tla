------------------------------- MODULE Policy -------------------------------
(***************************************************************************)
(* The filtering policy: rules are added to a builder, reduced to those    *)
(* that can change a decision (policy/canonical.rs), built into a          *)
(* compressed radix tree (policy/radix.rs) and looked up for a question    *)
(* and for the names of its CNAME chain (policy.rs).                       *)
(*                                                                         *)
(* A name is its sequence of labels from the root, as in canonical::Key.   *)
(* A label is one symbol: the length byte before each label makes a key    *)
(* that is a prefix of another a parent of it, so bytes add nothing.  A    *)
(* slot is a method of the local rules or a subscription source; a method  *)
(* is what a blocked query is answered with.                               *)
(***************************************************************************)
EXTENDS Integers, FiniteSets, Sequences, SequencesExt, FiniteSetsExt

CONSTANTS
  PoKeys,         \* names that rules are about
  PoNames,        \* names that are queried
  PoLinks,        \* CNAME records of a response: pairs of names
  PoQuestion,     \* the name a response is about
  PoLocalSlots,   \* slots of the local rules, the first following the global method
  PoSlots,        \* all slots: local, then subscription sources
  PoMethods,      \* block methods
  PoRules         \* max_rules

ASSUME PoAssumption ==
  /\ {PoLocalSlots, PoSlots, PoRules} \subseteq Nat \ {0} /\ PoLocalSlots <= PoSlots
  /\ PoKeys \cup PoNames \subseteq Seq(Nat) /\ <<>> \notin PoKeys /\ PoLinks \subseteq PoNames \X PoNames

VARIABLES
  poMethod,       \* Responses: the effective method of every slot
  poRecords,      \* Builder::records
  poFailed,       \* Builder::failed: the candidate is poisoned
  poIndex         \* Policy::data.index, once built

poVars == <<poMethod, poRecords, poFailed, poIndex>>

PoAll == 0 .. PoSlots - 1
PoGroups == {"allowSuffix", "allowExact", "blockSuffix", "blockExact"}
PoNone == -1
PoNoNode == [edge |-> <<>>, sources |-> [g \in PoGroups |-> PoNone], children |-> {}]

PoInit ==
  /\ poMethod = [s \in PoAll |-> "unset"] /\ poRecords = {} /\ poFailed = FALSE /\ poIndex = PoNoNode

\* Responses::get: a slot without a method of its own follows the global one.
\* Methods of local rules are distinct, one slot each
PoSettings(method) ==
  /\ poMethod[0] = "unset"
  /\ \A s, t \in 1 .. PoLocalSlots - 1 : s # t => method[s] # method[t]
  /\ poMethod' = method
  /\ UNCHANGED <<poRecords, poFailed, poIndex>>

\* Responses::classes: the class of a slot is the first slot that answers alike
PoClass(s) == Min({t \in PoAll : poMethod[t] = poMethod[s]})
PoLocal(s) == s < PoLocalSlots

\* Builder::add: a full builder is poisoned.  Records are a set: repeats of a
\* record change nothing but the count
PoAdded(group, key, slot) ==
  /\ poMethod[0] # "unset" /\ poIndex = PoNoNode /\ ~poFailed
  /\ IF Cardinality(poRecords) >= PoRules
     THEN poFailed' = TRUE /\ UNCHANGED poRecords
     ELSE poRecords' = poRecords \cup {[group |-> group, key |-> key, slot |-> slot]} /\ UNCHANGED poFailed
  /\ UNCHANGED <<poMethod, poIndex>>

\* LocalRules::add_to: a rule under the slot of its method; an allow rule has none
PoAddLocal(group, key, slot) ==
  /\ PoLocal(slot) /\ (group \in {"allowSuffix", "allowExact"} => slot = 0)
  /\ PoAdded(group, key, slot)

\* Builder::parse_line: a line of a source only blocks
PoAddSource(group, key, slot) ==
  /\ ~PoLocal(slot) /\ group \in {"blockSuffix", "blockExact"}
  /\ PoAdded(group, key, slot)

\* Builder::parse_source: a bad line, a limit or an empty source poisons the candidate
PoSourceFails ==
  /\ poMethod[0] # "unset" /\ poIndex = PoNoNode /\ ~poFailed
  /\ poFailed' = TRUE
  /\ UNCHANGED <<poMethod, poRecords, poIndex>>

(***************************************************************************)
(* prepare_with_check: one pass over the sorted records of each group.     *)
(* Keys are sorted, so the kept rules that cover a key precede it, and of  *)
(* several records with one key only the lowest slot is considered.        *)
(***************************************************************************)

PoOf(group) == {r \in poRecords : r.group = group}
PoFirst(group) == {r \in PoOf(group) : \A q \in PoOf(group) : q.key = r.key => r.slot <= q.slot}
PoNearest(suffixes) == CHOOSE r \in suffixes : \A q \in suffixes : Len(q.key) <= Len(r.key)

\* Mutant: rules of one class cover each other whatever their method.
PoCoversByClass(r, cover) ==
  \/ r.group \in {"allowSuffix", "allowExact"}
  \/ PoClass(cover.slot) = PoClass(r.slot)

\* a covered block rule is dropped only when it cannot change the answer
PoCovers(r, cover) ==
  \/ r.group \in {"allowSuffix", "allowExact"}
  \/ \A s \in PoAll : PoClass(s) = PoClass(0)
  \/ PoLocal(cover.slot) /\ ~PoLocal(r.slot)
  \/ PoClass(cover.slot) = PoClass(r.slot) /\ PoLocal(cover.slot) = PoLocal(r.slot)

PoKept(r, suffixes) ==
  LET covering == {c \in suffixes : IsPrefix(c.key, r.key)}
  IN  covering = {} \/ ~PoCovers(r, PoNearest(covering))

\* the ancestors stack: the kept suffix rules of at most n labels
PoKeyLen == Max({Len(k) : k \in PoKeys})
PoSuffixes(group) ==
  LET kept[n \in 0 .. PoKeyLen] ==
        IF n = 0 THEN {}
        ELSE kept[n - 1] \cup {r \in PoFirst(group) : Len(r.key) = n /\ PoKept(r, kept[n - 1])}
  IN  kept[PoKeyLen]

\* longest_cover: an exact rule against the kept suffixes of its kind, its own
\* name included
PoCanonical ==
  LET allow == PoSuffixes("allowSuffix")
      block == PoSuffixes("blockSuffix")
  IN  allow \cup block \cup {r \in PoFirst("allowExact") : PoKept(r, allow)}
        \cup {r \in PoFirst("blockExact") : PoKept(r, block)}

(***************************************************************************)
(* Index::build: a node for every branch and every rule.  Edges hold the   *)
(* longest common part of the keys below them.                             *)
(***************************************************************************)

PoSourcesAt(records, depth) ==
  [g \in PoGroups |->
     IF \E r \in records : r.group = g /\ Len(r.key) = depth
     THEN (CHOOSE r \in records : r.group = g /\ Len(r.key) = depth).slot ELSE PoNone]

PoCommon(records, depth) ==
  Max({n \in depth .. PoKeyLen : \A r, q \in records :
         n <= Len(r.key) /\ SubSeq(r.key, 1, n) = SubSeq(q.key, 1, n)})

RECURSIVE PoBuilt(_, _, _)
PoBuilt(records, from, depth) ==
  LET below == {r \in records : Len(r.key) > depth}
      first == {r.key[depth + 1] : r \in below}
      under(label) == {r \in below : r.key[depth + 1] = label}
  IN  [edge |-> IF records = {} THEN <<>> ELSE SubSeq((CHOOSE r \in records : TRUE).key, from + 1, depth),
       sources |-> PoSourcesAt(records, depth),
       children |-> {PoBuilt(under(label), depth, PoCommon(under(label), depth + 1)) : label \in first}]

PoBuild ==
  /\ poRecords # {} /\ ~poFailed /\ poIndex = PoNoNode
  /\ poIndex' = PoBuilt(PoCanonical, 0, 0)
  /\ UNCHANGED <<poMethod, poRecords, poFailed>>

PoNext ==
  \/ \E method \in [PoAll -> PoMethods] : PoSettings(method)
  \/ \E group \in PoGroups, key \in PoKeys, slot \in PoAll :
       PoAddLocal(group, key, slot) \/ PoAddSource(group, key, slot)
  \/ PoSourceFails
  \/ PoBuild

(***************************************************************************)
(* Lookups.  Index::lookup and Index::block_match follow the same path.    *)
(***************************************************************************)

\* the nodes on the path of a name, with the labels consumed at each
RECURSIVE PoPath(_, _, _)
PoPath(node, name, position) ==
  LET next == {c \in node.children : IsPrefix(c.edge, SubSeq(name, position + 1, Len(name)))}
  IN  {[node |-> node, at |-> position]} \cup
        UNION {PoPath(c, name, position + Len(c.edge)) : c \in next}

PoFound(name, group) ==
  {[group |-> group, slot |-> p.node.sources[group], at |-> p.at] :
     p \in {q \in PoPath(poIndex, name, 0) : /\ q.node.sources[group] # PoNone
                                             /\ group \in {"allowExact", "blockExact"} => q.at = Len(name)}}

PoAllowed(name) == PoFound(name, "allowSuffix") \cup PoFound(name, "allowExact") # {}

\* Index::lookup, the decision
PoBlocks(name) == ~PoAllowed(name) /\ PoFound(name, "blockSuffix") \cup PoFound(name, "blockExact") # {}

\* rank of a match: local before subscription, exact before suffix, the
\* longest suffix, the lowest slot
PoBefore(a, b) ==
  LET sub(m) == IF PoLocal(m.slot) THEN 0 ELSE 1
      suffix(m) == IF m.group = "blockSuffix" THEN 1 ELSE 0
  IN  \/ sub(a) < sub(b)
      \/ sub(a) = sub(b) /\ suffix(a) < suffix(b)
      \/ sub(a) = sub(b) /\ suffix(a) = suffix(b) /\ a.at > b.at
      \/ sub(a) = sub(b) /\ suffix(a) = suffix(b) /\ a.at = b.at /\ a.slot <= b.slot
PoBest(matches) == CHOOSE m \in matches : \A n \in matches : PoBefore(m, n)

\* Index::block_match
PoBlockMatches(name) ==
  IF PoAllowed(name) THEN {} ELSE PoFound(name, "blockSuffix") \cup PoFound(name, "blockExact")

\* apply_response: the names of the chain, last found first; a blocked one
\* replaces the answer
PoTargets(links, name) == {l[2] : l \in {k \in links : k[1] = name}}
PoFollows(name) == TRUE
RECURSIVE PoApply(_, _, _)
PoApply(links, pending, visited) ==
  IF pending = <<>> THEN {}
  ELSE LET name == Last(pending)
           rest == Front(pending)
       IN  IF name \in visited THEN PoApply(links, rest, visited)
           ELSE IF PoBlockMatches(name) # {} THEN {name}
           ELSE PoApply(links, IF PoFollows(name) THEN rest \o SetToSeq(PoTargets(links, name)) ELSE rest,
                        visited \cup {name})

\* Index::walk: the rules of a node against those of the nodes above it
RECURSIVE PoWalked(_, _, _)
PoWalked(node, allowed, blockSuffix) ==
  LET s == node.sources
  IN  /\ (s["allowSuffix"] # PoNone \/ s["allowExact"] # PoNone) => ~allowed
      /\ s["allowExact"] # PoNone => s["allowSuffix"] = PoNone
      /\ \A g \in {"blockSuffix", "blockExact"} : s[g] # PoNone => s[g] # blockSuffix
      /\ s["blockExact"] # PoNone => s["blockSuffix"] # s["blockExact"]
      /\ node.edge # <<>> => Cardinality(node.children) >= 2 \/ \E g \in PoGroups : s[g] # PoNone
      /\ \A c \in node.children :
           PoWalked(c, allowed \/ s["allowSuffix"] # PoNone,
                    IF s["blockSuffix"] # PoNone THEN s["blockSuffix"] ELSE blockSuffix)

(***************************************************************************)
(* Properties                                                              *)
(***************************************************************************)

\* what the rules as written say about a name
PoWritten(name, group) ==
  {[group |-> group, slot |-> r.slot, at |-> Len(r.key)] :
     r \in {q \in PoOf(group) : IF group \in {"allowExact", "blockExact"} THEN q.key = name
                                ELSE IsPrefix(q.key, name)}}

\* The index decides every name as the rules as written do: allowed by any
\* allow rule, else blocked by any block rule, and answered with the method of
\* the most specific block rule, although covered rules and repeated rules
\* were dropped and edges compressed; the two lookups agree
\* (prepare_with_check, Index::build, lookup, block_match).
PolicyAnswersKept ==
  poIndex # PoNoNode =>
    \A name \in PoNames :
      LET allow == PoWritten(name, "allowSuffix") \cup PoWritten(name, "allowExact")
          block == IF allow # {} THEN {} ELSE PoWritten(name, "blockSuffix") \cup PoWritten(name, "blockExact")
          found == PoBlockMatches(name)
      IN  /\ PoAllowed(name) <=> allow # {}
          /\ PoBlocks(name) <=> found # {}
          /\ found = {} <=> block = {}
          /\ block # {} => poMethod[PoBest(found).slot] = poMethod[PoBest(block).slot]

\* names reachable from a question over CNAME records
PoReach(links, name) ==
  LET reach[n \in 0 .. Cardinality(PoLinks)] ==
        IF n = 0 THEN {name}
        ELSE reach[n - 1] \cup UNION {PoTargets(links, m) : m \in reach[n - 1]}
  IN  reach[Cardinality(PoLinks)]

\* A response is replaced exactly when some name of its CNAME chain is
\* blocked, with loops and several targets, and an allowed name on the way
\* does not hide a blocked one behind it (apply_response).
ChainChecked ==
  poIndex # PoNoNode =>
    \A links \in SUBSET PoLinks :
      LET hit == PoApply(links, <<PoQuestion>>, {})
          blocked == {n \in PoReach(links, PoQuestion) : PoBlocks(n)}
      IN  hit \subseteq blocked /\ (hit = {} <=> blocked = {})

\* Every built index passes the checks made when it is walked for its
\* publication digest or read back: no rule under or beside a rule that makes
\* it redundant (walk in policy/radix_disk.rs; publication_digest expects it).
BuiltIndexWalks == poIndex # PoNoNode => PoWalked(poIndex, FALSE, PoNone)

\* The compiled policy decides names and responses as the rules say.
PolicySound == PolicyAnswersKept /\ ChainChecked
=============================================================================
