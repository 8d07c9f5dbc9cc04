---------------------------- MODULE MCComparison ----------------------------
(***************************************************************************)
(* Small pairs of documents for Comparison.                                *)
(***************************************************************************)
EXTENDS Comparison

AtMostOne(S) == {{}} \cup {{x} : x \in S}
AtMostTwo(S) == {{}} \cup {{x, y} : x, y \in S}

Root == [kind |-> "analysis"]

Rec(kind, id, parent, own, place, state, rule) ==
    [kind |-> kind, id |-> <<id>>, parent |-> parent, own |-> own, place |-> place,
     state |-> state, rule |-> rule]

Document(version, endpoints, records) ==
    [version |-> version, endpoints |-> endpoints, records |-> records]

Family(befores, afters) == [before |-> befores, after |-> afters]

\* Endpoints: two methods, which may collide, in two route slots. The id is
\* made of revision, route and method.
Handlers(m) ==
    {{}, {[method |-> {<<m>>}, status |-> "resolved"]},
     {[method |-> {<<m>>}, status |-> "ambiguous"]}}

EndpointChoices(revision, facts) ==
    UNION {{[id |-> <<revision, route, m>>, route |-> route, handlers |-> h, facts |-> f] :
                h \in Handlers(m), f \in facts} :
           route \in {"r1", "r2"}, m \in {"m1", "m2"}}

EndpointSets(revision, facts) ==
    {S \in AtMostTwo(EndpointChoices(revision, facts)) : \A x, y \in S : x.id = y.id => x = y}

MethodSets == {{Rec("method", "m1", Root, "k1", "", "", ""),
                Rec("method", "m2", Root, k, "", "", "")} : k \in {"k1", "k2"}}

EndpointDocuments(revision, facts) ==
    {Document(8, e, m) : e \in EndpointSets(revision, facts), m \in MethodSets}

EndpointFamilies ==
    {Family(EndpointDocuments("v1", {"f1"}), EndpointDocuments(v, {"f1"})) : v \in {"v1", "v2"}}

\* One endpoint in each document, whose facts may differ.
FactFamily ==
    LET documents == {Document(8, {e}, m) : e \in EndpointChoices("v1", {"f1", "f2"}),
                                           m \in MethodSets}
    IN  Family(documents, documents)

\* Handlers with their dispatch, its branch and the effect of the branch.
Chain(n, own, state, dispatch, rule, branch, effect) ==
    LET h == Rec("interaction_handler", "h" \o n, Root, own, "", state, "R")
        d == Rec("interaction_handler_dispatch", "d" \o n, h, "", "", dispatch, rule)
        b == Rec("interaction_handler_branch", "b" \o n, d, branch, "", "", "R")
        e == Rec("interaction_handler_branch_effect", "e" \o n, b, "t", "", effect, "R")
    IN  {h, d, b, e}

Chains(n) ==
    {Chain(n, own, state, dispatch, rule, branch, effect) :
        own \in {"o1", "o2"}, state \in {"registered", "unregistered"},
        dispatch \in {"complete", "partial"}, rule \in {"R", "S"},
        branch \in {"x", "y"}, effect \in {"resolved", "ambiguous"}}

ChainsOfTwo ==
    {Chain("1", "o1", "registered", "complete", "R", "x", "resolved")
        \cup Chain("2", own, state, "partial", "R", branch, "resolved") :
        own \in {"o1", "o2"}, state \in {"registered", "unregistered"}, branch \in {"x", "y"}}

ChainDocuments(records) == {Document(8, {}, r) : r \in {{}} \cup records}

ChainFamilies ==
    {Family(ChainDocuments(Chains("1") \cup ChainsOfTwo), ChainDocuments(Chains("1"))),
     Family(ChainDocuments(ChainsOfTwo), ChainDocuments(ChainsOfTwo))}

\* Records of one kind that have no parent.
LooseRecords(kind) ==
    {Rec(kind, n, Root, own, place, state, rule) :
        n \in {"1", "2"}, own \in {"o1", "o2"}, place \in {"p1", "p2"},
        state \in {"s1", "s2"}, rule \in {"R", "S"}}

LooseDocuments(kind) ==
    {Document(8, {}, S) : S \in
        AtMostOne(LooseRecords(kind)) \cup
        {{r, q} : r \in {r \in LooseRecords(kind) : r.id = <<"1">> /\ r.rule = "R"
                                                      /\ r.place = "p1" /\ r.own = "o1"},
                  q \in {q \in LooseRecords(kind) : q.id = <<"2">>}}}

LooseFamilies ==
    {Family(LooseDocuments(kind), LooseDocuments(kind)) :
        kind \in {"assertion", "diagnostic", "interaction"}}

\* Documents of every schema version with one handler or one chain, where the
\* version has them.
VersionDocuments ==
    {d \in {Document(v, {}, r) : v \in 1..5, r \in
                {{}, {Rec("diagnostic", "1", Root, "o1", "p1", "s1", "R")},
                 {Rec("interaction_handler", "h", Root, "o1", "", "registered", "R")},
                 Chain("1", "o1", "registered", "complete", "R", "x", "resolved")}} :
        \A r \in d.records : d.version >= Since(r.kind)}

VersionFamilies == {Family(VersionDocuments, VersionDocuments)}

MCFamilies ==
    EndpointFamilies \cup {FactFamily} \cup ChainFamilies \cup LooseFamilies
        \cup VersionFamilies

=============================================================================
