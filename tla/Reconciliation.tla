---------------------------- MODULE Reconciliation ----------------------------
(***************************************************************************)
(* One call of match_transactions (reconciliation/matcher.py) on canonical *)
(* transactions and a policy (reconciliation/models.py).  Duplicates are   *)
(* set aside, eligible pairs become the edges of a flow network, and the   *)
(* flow is augmented along shortest paths found with potentials; the pairs *)
(* carrying flow are the assignment.  Texts are abstracted to their        *)
(* normalised form and amounts are given in thousandths of the currency    *)
(* unit; evidence references are left out.                                 *)
(***************************************************************************)
EXTENDS Integers, FiniteSets, Sequences, SequencesExt

CONSTANTS
    Inputs,     \* pairs of sequences of raw rows, the two sides of a call
    Policies,   \* raw policies
    Clean,      \* Clean[t]: the text t trimmed, "" when nothing is left of it
    Fold,       \* Fold[t]: the case-folded form of the clean text t
    BadTexts    \* texts the field validators refuse

\* The rows of a side are given as a finite sequence; an identifier is
\* known by its place in the order of texts, from 1 on.
ASSUME ReconciliationAssumption ==
    \A given \in Inputs, s \in {1, 2} :
        /\ given[s] \in Seq(Range(given[s]))
        /\ \A row \in Range(given[s]) : row.id \in Nat

VARIABLES
    stage,      \* "called", "matching", "done" or "refused"
    call,       \* the rows of the two sides and the policy, as given
    sides,      \* sides[s]: the rows that take part, the duplicates set aside
    candidates, \* the eligible pairs
    residual,   \* edges of the flow network that have capacity left
    potentials, \* per node, the distances of the earlier rounds summed
    search,     \* the round under way: distances, previous, queue
    report      \* ReconciliationResult

reconciliationVars == <<stage, call, sides, candidates, residual, potentials, search, report>>

-----------------------------------------------------------------------------
(* Canonical data *)

(* _normalized_money: thousandths to hundredths, half to even. *)
Money(mills) ==
    LET down == mills \div 10
        rest == mills % 10
    IN  IF rest < 5 \/ (rest = 5 /\ down % 2 = 0) THEN down ELSE down + 1

(* _normalized_text and its kin: a required text. *)
TextAccepted(text) == text \notin BadTexts /\ Clean[text] # ""

(* normalize_optional_reference and normalize_optional_counterparty_key:   *)
(* a blank text is no text.                                                *)
OptionalAccepted(text) == Clean[text] = "" \/ text \notin BadTexts

(* CanonicalTransaction.model_validate; 0 stands for a refused identifier. *)
Acceptable(row) ==
    /\ row.id # 0
    /\ TextAccepted(row.source)
    /\ TextAccepted(row.currency)
    /\ TextAccepted(row.state)
    /\ OptionalAccepted(row.reference)
    /\ OptionalAccepted(row.counterparty)

Canonical(row) ==
    [id |-> row.id, source |-> Clean[row.source], amount |-> Money(row.amount),
     currency |-> Fold[Clean[row.currency]], date |-> row.date,
     reference |-> Clean[row.reference], counterparty |-> Clean[row.counterparty],
     state |-> Clean[row.state]]

(* ReconciliationPolicy: tolerances are normalised, then compared. *)
PolicyAccepted(policy) ==
    /\ Money(policy.amount) >= 0
    /\ Money(policy.difference) >= Money(policy.amount)
    /\ policy.days \in 0..31

CanonicalPolicy(policy) ==
    [policy EXCEPT !.amount = Money(@), !.difference = Money(@)]

(* _normalize_transactions refuses a repeated identifier. *)
RowsAccepted(rows) ==
    /\ \A i \in DOMAIN rows : Acceptable(rows[i])
    /\ \A i, j \in DOMAIN rows : rows[i].id = rows[j].id => i = j

(* _duplicate_key *)
DuplicateKey(row) ==
    <<row.source, row.amount, row.currency, row.date, Fold[row.reference],
      Fold[row.counterparty], row.state>>

(* _partition_duplicates: the smallest identifier of a group takes part,   *)
(* and a group of several is evidence of a duplicate.                      *)
PartitionDuplicates(rows) ==
    LET group(row) == {other \in rows : DuplicateKey(other) = DuplicateKey(row)}
        first(row) == \A other \in group(row) : row.id <= other.id
    IN  [kept  |-> {row \in rows : first(row)},
         aside |-> {[canonical |-> row.id, ids |-> {other.id : other \in group(row)}] :
                    row \in {r \in rows : first(r) /\ Cardinality(group(r)) > 1}}]

-----------------------------------------------------------------------------
(* Candidates *)

Distance(a, b) == IF a < b THEN b - a ELSE a - b

SameText(a, b) == a # "" /\ Fold[a] = Fold[b]

(* The early returns of _candidate_for. *)
Eligible(left, right, policy) ==
    /\ left.currency = right.currency
    /\ Distance(left.date, right.date) <= policy.days
    /\ policy.stateMatch => left.state = right.state
    /\ policy.identityMatch => \/ SameText(left.reference, right.reference)
                               \/ SameText(left.counterparty, right.counterparty)
    /\ Distance(left.amount, right.amount) <= policy.difference

(* The quality tuple: classification, reference, counterparty, amount and  *)
(* date, smaller is better.                                                *)
Quality(left, right, policy) ==
    << IF Distance(left.amount, right.amount) <= policy.amount THEN 0 ELSE 1,
       IF SameText(left.reference, right.reference) THEN 0 ELSE 1,
       IF SameText(left.counterparty, right.counterparty) THEN 0 ELSE 1,
       Distance(left.amount, right.amount),
       Distance(left.date, right.date) >>

(* _score_candidates *)
ScoreCandidates(lefts, rights, policy) ==
    {[left |-> pair[1].id, right |-> pair[2].id,
      quality |-> Quality(pair[1], pair[2], policy)] :
        pair \in {p \in lefts \X rights : Eligible(p[1], p[2], policy)}}

LeftIds(cs) == SetToSortSeq({c.left : c \in cs}, <)
RightIds(cs) == SetToSortSeq({c.right : c \in cs}, <)

Position(ids, id) == CHOOSE i \in DOMAIN ids : ids[i] = id

Largest(values) == CHOOSE v \in values : \A w \in values : w <= v

Smaller(a, b) == IF a < b THEN a ELSE b

(* The weight a quality digit needs so that no assignment's sum of the     *)
(* less significant ones can reach it.                                     *)
Above(flow, largest, weight) == (flow * largest + 1) * weight

(* Deviation: the weights leave room for one pair only. *)
CostsOfOnePair(cs) ==
    LET lefts  == LeftIds(cs)
        rights == RightIds(cs)
        shift  == Len(rights) * (Len(rights) + 1)^(Len(lefts) - 1)
        date   == Above(1, shift, 1)
        amount == Above(1, Largest({c.quality[5] : c \in cs}), date)
        party  == Above(1, Largest({c.quality[4] : c \in cs}), amount)
        ref    == Above(1, 1, party)
        class  == Above(1, 1, ref)
        stable(c) == shift + (Position(rights, c.right) - 1 - Len(rights))
                             * (Len(rights) + 1)^(Len(lefts) - Position(lefts, c.left))
    IN  [c \in cs |-> c.quality[1] * class + c.quality[2] * ref + c.quality[3] * party
                      + c.quality[4] * amount + c.quality[5] * date + stable(c)]

(* _candidate_costs: the quality tuple and the stable order as one number. *)
CandidateCosts(cs) ==
    LET lefts  == LeftIds(cs)
        rights == RightIds(cs)
        flow   == Smaller(Len(lefts), Len(rights))
        weightOf(id) == (Len(rights) + 1)^(Len(lefts) - Position(lefts, id))
        shift  == Len(rights) * weightOf(lefts[1])
        date   == Above(flow, shift, 1)
        amount == Above(flow, Largest({c.quality[5] : c \in cs}), date)
        party  == Above(flow, Largest({c.quality[4] : c \in cs}), amount)
        ref    == Above(flow, 1, party)
        class  == Above(flow, 1, ref)
        stable(c) == shift + (Position(rights, c.right) - 1 - Len(rights)) * weightOf(c.left)
    IN  [c \in cs |-> c.quality[1] * class + c.quality[2] * ref + c.quality[3] * party
                      + c.quality[4] * amount + c.quality[5] * date + stable(c)]

-----------------------------------------------------------------------------
(* The flow network: node 0 is the source, then the left rows, the right   *)
(* rows and the sink.                                                      *)

Source == 0
LeftNode(cs, id) == Position(LeftIds(cs), id)
RightNode(cs, id) == Len(LeftIds(cs)) + Position(RightIds(cs), id)
Sink(cs) == Len(LeftIds(cs)) + Len(RightIds(cs)) + 1
NodesOf(cs) == 0..Sink(cs)

(* _add_flow_edge: an edge of capacity one; its reverse has none yet. *)
FlowEdge(from, to, cost) == [from |-> from, to |-> to, cost |-> cost]
Reversed(edge) == FlowEdge(edge.to, edge.from, -edge.cost)

CandidateEdge(cs, costs, c) == FlowEdge(LeftNode(cs, c.left), RightNode(cs, c.right), costs[c])

Network(cs) ==
    LET costs == CandidateCosts(cs)
    IN  {FlowEdge(Source, LeftNode(cs, c.left), 0) : c \in cs}
        \union {FlowEdge(RightNode(cs, c.right), Sink(cs), 0) : c \in cs}
        \union {CandidateEdge(cs, costs, c) : c \in cs}

NewSearch == [distances |-> (Source :> 0), previous |-> <<>>, queue |-> {<<0, Source>>}]
NoSearch == [distances |-> <<>>, previous |-> <<>>, queue |-> {}]

(* The order of the heap: distance, then node. *)
Foremost(queue) ==
    CHOOSE e \in queue : \A f \in queue : e[1] < f[1] \/ (e[1] = f[1] /\ e[2] <= f[2])

Reduced(edge) == edge.cost + potentials[edge.from] - potentials[edge.to]

(* The pairs that carry flow. *)
Assigned == {c \in candidates :
                CandidateEdge(candidates, CandidateCosts(candidates), c) \notin residual}

(* The edges of the path found, from the sink back to the source. *)
PathTo(previous, node) ==
    LET back[n \in 0..node] ==
            IF n = 0 THEN <<>>
            ELSE LET before == back[n - 1]
                     at == IF before = <<>> THEN node ELSE Last(before).from
                 IN  IF at = Source THEN before ELSE Append(before, previous[at])
    IN  Range(back[node])

-----------------------------------------------------------------------------
(* The call *)

ReconciliationInit ==
    /\ stage = "called"
    /\ call \in [rows : Inputs, policy : Policies]
    /\ sides = <<>>
    /\ candidates = {}
    /\ residual = {}
    /\ potentials = <<>>
    /\ search = NoSearch
    /\ report = <<>>

Refuse ==
    /\ stage = "called"
    /\ \/ ~ PolicyAccepted(call.policy)
       \/ \E s \in {1, 2} : ~ RowsAccepted(call.rows[s])
    /\ stage' = "refused"
    /\ UNCHANGED <<call, sides, candidates, residual, potentials, search, report>>

(* match_transactions up to the assignment: the rows are normalised, the   *)
(* duplicates set aside and the candidates scored; with candidates, the    *)
(* network is built and the first search starts.                           *)
Prepare ==
    /\ stage = "called"
    /\ PolicyAccepted(call.policy)
    /\ \A s \in {1, 2} : RowsAccepted(call.rows[s])
    /\ LET rows(s) == {Canonical(row) : row \in Range(call.rows[s])}
           split == <<PartitionDuplicates(rows(1)), PartitionDuplicates(rows(2))>>
           scored == ScoreCandidates(split[1].kept, split[2].kept, CanonicalPolicy(call.policy))
       IN  /\ sides' = split
           /\ candidates' = scored
           /\ IF scored = {}
              THEN UNCHANGED <<residual, potentials, search>>
              ELSE /\ residual' = Network(scored)
                   /\ potentials' = [n \in NodesOf(scored) |-> 0]
                   /\ search' = NewSearch
    /\ stage' = "matching"
    /\ UNCHANGED <<call, report>>

(* One turn of the inner loop: the nearest entry is taken from the heap,   *)
(* and passed over when a shorter way to its node was found since.         *)
Visit ==
    /\ stage = "matching"
    /\ search.queue # {}
    /\ LET entry == Foremost(search.queue)
           node  == entry[2]
           rest  == search.queue \ {entry}
           known == DOMAIN search.distances
           better == IF search.distances[node] # entry[1] THEN {}
                     ELSE {e \in residual :
                              /\ e.from = node
                              /\ e.to \notin known \/ entry[1] + Reduced(e) < search.distances[e.to]}
           reached == {e.to : e \in better}
           via(n) == CHOOSE e \in better : e.to = n
           length(n) == entry[1] + Reduced(via(n))
       IN  search' = [distances |-> [n \in known \union reached |->
                                        IF n \in reached THEN length(n) ELSE search.distances[n]],
                      previous  |-> [n \in DOMAIN search.previous \union reached |->
                                        IF n \in reached THEN via(n) ELSE search.previous[n]],
                      queue     |-> rest \union {<<length(n), n>> : n \in reached}]
    /\ UNCHANGED <<stage, call, sides, candidates, residual, potentials, report>>

(* The sink was reached: the potentials grow by the distances and one      *)
(* unit of flow is sent along the path; the next search starts.            *)
Augment ==
    /\ stage = "matching"
    /\ search.queue = {}
    /\ candidates # {}
    /\ Sink(candidates) \in DOMAIN search.distances
    /\ LET path == PathTo(search.previous, Sink(candidates))
       IN  residual' = (residual \ path) \union {Reversed(e) : e \in path}
    /\ potentials' = [n \in DOMAIN potentials |->
                        IF n \in DOMAIN search.distances
                        THEN potentials[n] + search.distances[n] ELSE potentials[n]]
    /\ search' = NewSearch
    /\ UNCHANGED <<stage, call, sides, candidates, report>>

(* PairEvidence; several candidates of the left row may be as good. *)
Pair(c) ==
    LET rivals == {d \in candidates : d.left = c.left}
    IN  [left |-> c.left, right |-> c.right,
         candidateCount |-> Cardinality(rivals),
         tied |-> Cardinality({d \in rivals : d.quality = c.quality}) > 1]

(* UnmatchedEvidence of one side. *)
Unmatched(rows, taken, contended) ==
    {[id |-> row.id, reason |-> IF row.id \in contended THEN "contention" ELSE "none_eligible"] :
        row \in {r \in rows : r.id \notin taken}}

(* The sink cannot be reached: the groups of the result. *)
Conclude ==
    /\ stage = "matching"
    /\ search.queue = {}
    /\ candidates = {} \/ Sink(candidates) \notin DOMAIN search.distances
    /\ report' =
        [matched     |-> {Pair(c) : c \in {d \in Assigned : d.quality[1] = 0}},
         differences |-> {Pair(c) : c \in {d \in Assigned : d.quality[1] = 1}},
         duplicates  |-> <<sides[1].aside, sides[2].aside>>,
         unmatched   |->
            << Unmatched(sides[1].kept, {c.left : c \in Assigned}, {c.left : c \in candidates}),
               Unmatched(sides[2].kept, {c.right : c \in Assigned}, {c.right : c \in candidates}) >>]
    /\ stage' = "done"
    /\ UNCHANGED <<call, sides, candidates, residual, potentials, search>>

ReconciliationNext == Refuse \/ Prepare \/ Visit \/ Augment \/ Conclude

ReconciliationSpec == ReconciliationInit /\ [][ReconciliationNext]_reconciliationVars

-----------------------------------------------------------------------------
(* What the result means, without a flow *)

IsAssignment(pairs) ==
    \A c, d \in pairs : c.left = d.left \/ c.right = d.right => c = d

(* Component n of the qualities of an assignment, summed. *)
Total(pairs, n) == FoldSet(LAMBDA c, sum : c.quality[n] + sum, 0, pairs)

(* The right row each left row got, in the order of identifiers. *)
PartnerOf(pairs, id) ==
    IF \E c \in pairs : c.left = id
    THEN Position(RightIds(candidates), (CHOOSE c \in pairs : c.left = id).right)
    ELSE Len(RightIds(candidates)) + 1

Standing(pairs) ==
    [n \in 1..5 |-> Total(pairs, n)]
        \o [i \in DOMAIN LeftIds(candidates) |-> PartnerOf(pairs, LeftIds(candidates)[i])]

Before(s, t) == \E i \in DOMAIN s : s[i] < t[i] /\ \A j \in 1..(i - 1) : s[j] = t[j]

(* The pairs reported are the best assignment there is: no two share a     *)
(* row, no assignment of the candidates has more pairs, and none with as   *)
(* many is better by classification, reference, counterparty, amount and   *)
(* date summed in this order, or by the identifiers when all of them tie   *)
(* (_optimal_one_to_one_match, "Maximize assignments, then minimize        *)
(* aggregate quality and stable pair IDs").  The code gets there through   *)
(* weights folded into one cost and potentials carried between searches.   *)
MatchingOptimal ==
    stage = "done" =>
        LET pairs == {c \in candidates : \E p \in report.matched \union report.differences :
                                            p.left = c.left /\ p.right = c.right}
        IN  /\ IsAssignment(pairs)
            /\ \A other \in SUBSET candidates :
                  IsAssignment(other) =>
                    /\ Cardinality(other) <= Cardinality(pairs)
                    /\ Cardinality(other) = Cardinality(pairs) =>
                          ~ Before(Standing(other), Standing(pairs))

(* The identifiers one side's groups name, those of a pair given. *)
Named(s, paired) ==
    <<paired, {u.id : u \in report.unmatched[s]},
      UNION {d.ids \ {d.canonical} : d \in report.duplicates[s]}>>

(* Every row that was submitted is in exactly one group of the result:     *)
(* paired, unmatched, or a duplicate of a row that is one of these; and    *)
(* rows that are duplicates of one another never meet two partners.  A row *)
(* lost between the groups would vanish from the accounts (match_transact- *)
(* ions builds the groups in four separate passes).                        *)
RowsAccounted ==
    stage = "done" =>
        LET pairs == report.matched \union report.differences
            paired == <<{p.left : p \in pairs}, {p.right : p \in pairs}>>
            key(s, id) == DuplicateKey(Canonical(CHOOSE row \in Range(call.rows[s]) : row.id = id))
        IN  \A s \in {1, 2} :
              LET groups == Named(s, paired[s])
              IN  /\ UNION Range(groups) = {row.id : row \in Range(call.rows[s])}
                  /\ \A i, j \in 1..3 : i # j => groups[i] \intersect groups[j] = {}
                  /\ \A id, other \in paired[s] : key(s, id) = key(s, other) => id = other

\* The result is the best assignment, and every row is in it once.
ReconciliationExact == MatchingOptimal /\ RowsAccounted
=============================================================================
