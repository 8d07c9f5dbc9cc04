----------------------------- MODULE OutboundHttp -----------------------------
(***************************************************************************)
(* Which HTTP requests a method sends: extractOutboundHttp (outbound-http, *)
(* for fetch and axios, sent when they are called) and                     *)
(* extractNestHttpService (nest-http-service, for HttpService, sent when   *)
(* its observable is subscribed to), both in src/src/extractors.           *)
(*                                                                         *)
(* A text is a sequence of words, that are absolute or relative, or the    *)
(* start of a query; a value known only when the program runs is a word of *)
(* its own, and "{}" is the numbered placeholder published for it. What is *)
(* behind the start of a query is left out, and so are the query's keys.   *)
(*                                                                         *)
(* An expression is                                                        *)
(*   [is "text", words]             a literal                              *)
(*   [is "hole" or "call", name]    a value of the run, by name or by call *)
(*   [is "env", name]               process.env.NAME                       *)
(*   [is "config", of]              configService.get(of)                  *)
(*   [is "const", of]               a constant with its initializer        *)
(*   [is "member", name]            this.name                              *)
(*   [is "plus", left, right]                                              *)
(*   [is "template", head, spans]   spans a sequence of [of, words]        *)
(*                                                                         *)
(* traffic: [service, instance, members, changed, route, calls]            *)
(*   service   the HttpService: [declared "service" or "union", form       *)
(*             "parameter", "assigned", "inherited" or "property", token,  *)
(*             others, role]; others says where else it is assigned        *)
(*   instance  const client = axios.create(): [constant, behaviour, base,  *)
(*             method]                                                     *)
(*   members   name -> [readonly, initial, assigned], assigned a sequence  *)
(*             of [of, direct, compound], in the order they are executed   *)
(*   changed   whether the base of a client is set elsewhere: defaults or  *)
(*             HttpModule.register                                         *)
(*   route     whether the method is a route of a controller               *)
(*   calls     sequence of [via, receiver, callee, verb, url, config,      *)
(*             nested, enclosing]: client.verb(url), client.request(config)*)
(*             client(url), client(config), client[verb](url) or another   *)
(*             method; enclosing lists what is around it, inner first      *)
(*   config    [form "absent", "literal" or "other", behaviour, url,       *)
(*             baseURL, method, params]                                    *)
(***************************************************************************)
EXTENDS Integers, FiniteSets, SequencesExt

CONSTANTS
    UrlExpressions,     \* the expressions of the code that texts are made of
    AbsoluteWords,      \* words that start with a scheme or "//"
    RelativeWords,      \* the other words of a path
    MaxTargetWords,     \* MAX_HTTP_TARGET_CODE_POINTS
    MaxSubstitutions,   \* MAX_HTTP_TEMPLATE_EXPRESSIONS
    MaxSymbolicDepth,   \* MAX_SYMBOLIC_DEPTH
    MaxSymbolicParts    \* MAX_SYMBOLIC_PARTS

VARIABLES
    traffic,
    httpFacts           \* [interactions, diagnostics]

httpVars == <<traffic, httpFacts>>

NoTraffic == [calls |-> <<>>]
NoRequests == [interactions |-> {}, diagnostics |-> {}]
NoExpr == [is |-> "none"]
Verbs == {"GET", "POST"}
QueryStart == "?key"

\* What an expression is made of is an expression of the code, too.
Operands(e) ==
    CASE e.is \in {"const", "config"} -> {e.of}
      [] e.is = "plus" -> {e.left, e.right}
      [] e.is = "template" -> {e.spans[i].of : i \in DOMAIN e.spans}
      [] OTHER -> {}

ASSUME ExpressionsAssumption == \A e \in UrlExpressions : Operands(e) \subseteq UrlExpressions

HttpCalls == DOMAIN traffic.calls
HttpCall(i) == traffic.calls[i]

-----------------------------------------------------------------------------
(***************************************************************************)
(* Targets, as outbound-http.ts resolves them.                             *)
(***************************************************************************)
UnknownTarget(issue) == [resolution |-> "dynamic", value |-> <<>>, issue |-> issue]

BeforeQuery(words) ==
    LET starts == {i \in DOMAIN words : words[i] = QueryStart}
    IN  IF starts = {} THEN words ELSE SubSeq(words, 1, (CHOOSE i \in starts : \A j \in starts : i <= j) - 1)

\* sanitizeTargetValue.
SanitizeTarget(words, resolution) ==
    IF Len(words) > MaxTargetWords THEN UnknownTarget("limit")
    ELSE IF BeforeQuery(words) = <<>> THEN UnknownTarget("dynamic")
    ELSE [resolution |-> resolution, value |-> BeforeQuery(words), issue |-> "none"]

SpanTexts(e) == e.head \o FlattenSeq([i \in DOMAIN e.spans |-> e.spans[i].words])

ResolveLiteral(e) ==
    CASE e.is = "text" -> SanitizeTarget(e.words, "exact")
      [] e.is = "template" ->
            IF Len(e.spans) > MaxSubstitutions THEN UnknownTarget("limit")
            ELSE IF SpanTexts(e) = <<>> THEN UnknownTarget("dynamic")
            ELSE SanitizeTarget(e.head \o FlattenSeq([i \in DOMAIN e.spans |-> <<"{}">> \o e.spans[i].words]), "template")
      [] OTHER -> UnknownTarget("dynamic")

\* resolveTextTarget: at most one constant is followed.
ResolveText(e) == IF e.is = "const" THEN ResolveLiteral(e.of) ELSE ResolveLiteral(e)

IsAbsolute(words) == words # <<>> /\ words[1] \in AbsoluteWords

Resolutions(a, b) ==
    IF "symbolic" \in {a, b} THEN "symbolic"
    ELSE IF "template" \in {a, b} THEN "template"
    ELSE "exact"

\* joinTarget, without a base and with one.
NoBase == [resolution |-> "none", value |-> <<>>, issue |-> "none"]

JoinToBase(base, target) ==
    IF base.value = <<>> \/ target.value = <<>>
    THEN UnknownTarget(IF "limit" \in {base.issue, target.issue} THEN "limit" ELSE "dynamic")
    ELSE IF Len(base.value \o target.value) > MaxTargetWords THEN UnknownTarget("limit")
    ELSE [resolution |-> Resolutions(base.resolution, target.resolution),
          value |-> base.value \o target.value, issue |-> "none"]

\* Wrong: an absolute target is joined as well.
JoinAnyTarget(base, target) == IF base = NoBase THEN target ELSE JoinToBase(base, target)

JoinTarget(base, target) ==
    IF IsAbsolute(target.value) \/ base = NoBase THEN target ELSE JoinToBase(base, target)

-----------------------------------------------------------------------------
(***************************************************************************)
(* Targets with symbols, as nest-http-service.ts resolves them.            *)
(***************************************************************************)
Assigned(m) == SelectSeq(traffic.members[m].assigned, LAMBDA a : ~a.compound)
AssignedDirectly(m) == SelectSeq(Assigned(m), LAMBDA a : a.direct)

\* symbolicInitializers: the one value a readonly property is given.
SymbolicInitializer(m) ==
    LET member == traffic.members[m]
    IN  IF ~member.readonly THEN NoExpr
        ELSE IF member.initial # NoExpr THEN IF Assigned(m) = <<>> THEN member.initial ELSE NoExpr
        ELSE IF Len(Assigned(m)) = 1 /\ Len(AssignedDirectly(m)) = 1 THEN AssignedDirectly(m)[1].of ELSE NoExpr

\* staticToken: the name of a configuration value, or "none".
StaticToken(expression) ==
    LET token[e \in UrlExpressions] ==
            CASE e.is = "text" /\ Len(e.words) = 1 -> e.words[1]
              [] e.is = "const" -> token[e.of]
              [] OTHER -> "none"
    IN  token[expression]

PartOf(kind, words) == [kind |-> kind, words |-> words]
Composition(parts) == [parts |-> parts, fatal |-> FALSE, limit |-> FALSE]
FatalParts == [parts |-> <<>>, fatal |-> TRUE, limit |-> FALSE]
OverLimit == [parts |-> <<>>, fatal |-> TRUE, limit |-> TRUE]
UnknownPart(inside) == [Composition(<<PartOf("dynamic", <<"{}">>)>>) EXCEPT !.fatal = ~inside]

TooMany(parts) == Len(parts) > MaxSymbolicParts

Composed(parts, children) ==
    [parts |-> parts, fatal |-> \E c \in Range(children) : c.fatal,
     limit |-> TooMany(parts) \/ \E c \in Range(children) : c.limit]

\* symbolicParts: seen are the members on the way, inside a template or sum.
SymbolicParts(expression) ==
    LET partsOf[e \in UrlExpressions, depth \in 0..MaxSymbolicDepth + 1,
                seen \in SUBSET DOMAIN traffic.members, inside \in BOOLEAN] ==
            LET Child(child) == partsOf[child, depth + 1, seen, TRUE]
                OfTemplate ==
                    LET children == [i \in DOMAIN e.spans |-> Child(e.spans[i].of)]
                        tails == [i \in DOMAIN e.spans |-> Append(children[i].parts, PartOf("static", e.spans[i].words))]
                    IN  Composed(<<PartOf("static", e.head)>> \o FlattenSeq(tails), children)
                OfSum ==
                    LET children == <<Child(e.left), Child(e.right)>>
                    IN  Composed(children[1].parts \o children[2].parts, children)
                OfMember ==
                    LET initializer == SymbolicInitializer(e.name)
                    IN  IF initializer = NoExpr \/ e.name \in seen THEN FatalParts
                        ELSE partsOf[initializer, depth + 1, seen \cup {e.name}, inside]
            IN  IF depth > MaxSymbolicDepth THEN OverLimit
                ELSE CASE e.is = "text" -> Composition(<<PartOf("static", e.words)>>)
                       [] e.is = "env" -> Composition(<<PartOf("symbolic", <<e.name>>)>>)
                       [] e.is = "config" ->
                             IF StaticToken(e.of) = "none" THEN FatalParts ELSE Composition(<<PartOf("symbolic", <<StaticToken(e.of)>>)>>)
                       [] e.is = "const" -> partsOf[e.of, depth + 1, seen, inside]
                       [] e.is = "member" -> OfMember
                       [] e.is = "template" -> IF Len(e.spans) > MaxSubstitutions THEN OverLimit ELSE OfTemplate
                       [] e.is = "plus" -> OfSum
                       [] e.is = "call" -> UnknownPart(FALSE)
                       [] e.is = "hole" -> UnknownPart(inside)
    IN  partsOf[expression, 0, {}, FALSE]

Kinds(parts) == {p.kind : p \in Range(parts)}

\* The target that the parts make up.
TargetOfParts(resolved) ==
    LET words == FlattenSeq([i \in DOMAIN resolved.parts |-> resolved.parts[i].words])
        resolution == IF "symbolic" \in Kinds(resolved.parts) THEN "symbolic"
                      ELSE IF "dynamic" \in Kinds(resolved.parts) THEN "template"
                      ELSE "exact"
    IN  IF resolved.limit THEN UnknownTarget("limit")
        ELSE IF resolved.fatal \/ Kinds(resolved.parts) \subseteq {"dynamic"} THEN UnknownTarget("dynamic")
        ELSE SanitizeTarget(words, resolution)

ResolveSymbolic(e) == TargetOfParts(SymbolicParts(e))

-----------------------------------------------------------------------------
(***************************************************************************)
(* One request, from its parts (requestFromParts).                         *)
(***************************************************************************)
AbsentConfig == [form |-> "absent", behaviour |-> FALSE, url |-> NoExpr, baseURL |-> NoExpr, method |-> NoExpr, params |-> "none"]

\* objectConfiguration: only an object literal without spread is read.
ReadConfig(config) == IF config.form = "other" THEN [AbsentConfig EXCEPT !.form = "other"] ELSE config

RequestMethod(e, default) ==
    IF e = NoExpr THEN default
    ELSE IF ResolveText(e).value \in {<<v>> : v \in Verbs} THEN ResolveText(e).value[1] ELSE "UNKNOWN"

TargetIssues(target) ==
    CASE target.issue = "limit" -> {"TARGET_LIMIT_EXCEEDED"}
      [] target.issue # "limit" /\ target.value = <<>> -> {"TARGET_DYNAMIC"}
      [] OTHER -> {}

Resolve(via, e) == IF via \in {"service", "axiosRef"} THEN ResolveSymbolic(e) ELSE ResolveText(e)

RequestFrom(via, url, default, base, supported, config) ==
    LET read == ReadConfig(config)
        written == IF url # NoExpr THEN url ELSE read.url
        requested == IF written = NoExpr THEN UnknownTarget("dynamic") ELSE Resolve(via, written)
        target == IF ~supported THEN UnknownTarget("dynamic")
                  ELSE JoinTarget(IF read.baseURL = NoExpr THEN base ELSE Resolve(via, read.baseURL), requested)
        method == RequestMethod(read.method, default)
    IN  [target |-> target, method |-> method,
         issues |-> TargetIssues(target)
             \cup (IF ~supported \/ read.params = "odd" THEN {"CONFIG_UNSUPPORTED"} ELSE {})
             \cup (IF method = "UNKNOWN" THEN {"METHOD_DYNAMIC"} ELSE {})]

Understood(config) == config.form # "other" /\ ~config.behaviour

\* A callee is given its url or a configuration; a configuration that is no
\* object literal is taken for the url when the client itself is called.
UrlOf(call) ==
    CASE call.callee \in {"verb", "call"} -> call.url
      [] call.callee = "config" /\ call.config.form = "other" -> [is |-> "hole", name |-> "$config"]
      [] OTHER -> NoExpr
ConfigOf(call) == IF call.callee = "config" /\ call.config.form = "other" THEN AbsentConfig ELSE call.config
DefaultMethod(call) == IF call.callee = "verb" THEN call.verb ELSE "GET"

SentRequest(i, description, activation) ==
    [interactions |-> {[call |-> i, method |-> description.method, target |-> description.target, activation |-> activation.state]},
     diagnostics |-> {[call |-> i, code |-> code] : code \in description.issues \cup activation.issues}]
HttpIssue(i, code) == [interactions |-> {}, diagnostics |-> {[call |-> i, code |-> code]}]
EagerActivation == [state |-> "eager", issues |-> {}]

-----------------------------------------------------------------------------
(***************************************************************************)
(* fetch and axios (extractOutboundHttp).                                  *)
(***************************************************************************)
\* isUndiciFetch, isUnshadowedGlobalFetch.
KnownFetch(call) == call.receiver = "global"

AnalyzeFetch(i) ==
    LET call == HttpCall(i)
    IN  IF ~KnownFetch(call) THEN NoRequests
        ELSE SentRequest(i, RequestFrom("fetch", call.url, "GET", NoBase, call.config.form # "other", call.config), EagerActivation)

\* collectInstances: const or readonly, initialized by axios.create().
KnownInstance(call) == call.receiver = "instance" /\ traffic.instance.constant
BoundClient(call) == call.receiver = "import" \/ KnownInstance(call)
\* The type of the receiver is that of axios all the same.
TypedClient(call) == call.receiver \in {"typed", "instance"} /\ ~BoundClient(call)
InstanceBase(call) ==
    IF KnownInstance(call) /\ traffic.instance.base # NoExpr THEN ResolveText(traffic.instance.base) ELSE NoBase
InstanceUnderstood(call) == KnownInstance(call) => traffic.instance.behaviour

AxiosRequest(i) ==
    LET call == HttpCall(i)
        config == ConfigOf(call)
    IN  SentRequest(i, RequestFrom(call.via, UrlOf(call), DefaultMethod(call), InstanceBase(call),
                            Understood(config) /\ InstanceUnderstood(call), config), EagerActivation)

AnalyzeAxios(i) ==
    LET call == HttpCall(i)
    IN  IF BoundClient(call) /\ call.callee = "computed" THEN HttpIssue(i, "METHOD_DYNAMIC")
        ELSE IF BoundClient(call) /\ call.callee \in {"verb", "request", "call", "config"} THEN AxiosRequest(i)
        ELSE IF TypedClient(call) /\ call.callee \in {"verb", "request"} THEN HttpIssue(i, "RECEIVER_UNSUPPORTED")
        ELSE NoRequests

Gathered(results) ==
    [interactions |-> httpFacts.interactions \cup UNION {r.interactions : r \in results},
     diagnostics |-> httpFacts.diagnostics \cup UNION {r.diagnostics : r \in results}]

\* A function inside the method is not entered, unless it is a section.
Entered(via) == {i \in HttpCalls : HttpCall(i).via = via /\ HttpCall(i).nested # "function"}

ExtractOutbound ==
    /\ httpFacts' = Gathered({AnalyzeFetch(i) : i \in Entered("fetch")} \cup {AnalyzeAxios(i) : i \in Entered("axios")})
    /\ UNCHANGED traffic

-----------------------------------------------------------------------------
(***************************************************************************)
(* HttpService and its axiosRef (extractNestHttpService).                  *)
(***************************************************************************)
InRole == traffic.service.role
UnionDeclared == traffic.service.declared = "union"

\* collectBindings, of a controller or provider.
ServiceBinding ==
    LET s == traffic.service
    IN  IF ~InRole \/ s.form \notin {"parameter", "assigned"} \/ (s.form = "assigned" /\ "constructor" \in s.others) THEN "none"
        ELSE IF UnionDeclared \/ s.token \/ s.others # {} THEN "ambiguous" ELSE "resolved"

ReceiverBinding(call) == IF call.receiver = "member" THEN ServiceBinding ELSE "none"

\* The nodes around a call, from the inside to the body of the method: the
\* callback of a critical section is an argument of a call.
Around(call) == call.enclosing \o (IF call.nested = "section" THEN <<"call">> ELSE <<>>)

Blocking(node) == node \in {"call", "hold", "await", "return"}
Unblocked(around, i) == \A j \in 1..i - 1 : ~Blocking(around[j])

Activating(node) == node \in {"first", "subscribe"} \/ (traffic.route /\ node = "return")

\* activationFor.
ActivationFor(call) ==
    LET around == Around(call)
    IN  IF \E i \in DOMAIN around : Activating(around[i]) /\ Unblocked(around, i)
        THEN [state |-> "proven_activated", issues |-> {}]
        ELSE IF \E i \in DOMAIN around : Blocking(around[i])
        THEN [state |-> "unknown", issues |-> {"ACTIVATION_UNKNOWN"}]
        ELSE [state |-> "constructed_cold", issues |-> {}]

ServiceRequest(i, activation) ==
    LET call == HttpCall(i)
        config == ConfigOf(call)
    IN  SentRequest(i, RequestFrom(call.via, UrlOf(call), DefaultMethod(call), NoBase, Understood(config), config), activation)

AnalyzeAxiosRef(i) ==
    LET call == HttpCall(i)
    IN  CASE call.callee # "computed" /\ ReceiverBinding(call) = "ambiguous" -> HttpIssue(i, "RECEIVER_UNSUPPORTED")
          [] call.callee \in {"verb", "request", "call", "config"} /\ ReceiverBinding(call) = "resolved" ->
                ServiceRequest(i, EagerActivation)
          [] OTHER -> NoRequests

AnalyzeHttpService(i) ==
    LET call == HttpCall(i)
    IN  CASE call.callee \in {"verb", "request"} /\ ReceiverBinding(call) = "ambiguous" -> HttpIssue(i, "RECEIVER_UNSUPPORTED")
          [] call.callee \in {"verb", "request"} /\ ReceiverBinding(call) = "resolved" -> ServiceRequest(i, ActivationFor(call))
          [] OTHER -> NoRequests

ExtractServices ==
    /\ httpFacts' = Gathered({AnalyzeAxiosRef(i) : i \in Entered("axiosRef")} \cup {AnalyzeHttpService(i) : i \in Entered("service")})
    /\ UNCHANGED traffic

-----------------------------------------------------------------------------
(***************************************************************************)
(* Executing the calls.                                                    *)
(***************************************************************************)
Chained(heads, tails) == {h \o t : h \in heads, t \in tails}

\* The texts an expression may have; a member that needs itself is unknown.
TextsOf(expression) ==
    LET texts[e \in UrlExpressions, seen \in SUBSET DOMAIN traffic.members] ==
            CASE e.is = "text" -> {e.words}
              [] e.is \in {"hole", "call", "env"} -> {<<e.name>>}
              [] e.is = "config" -> {<<IF StaticToken(e.of) = "none" THEN "$config" ELSE StaticToken(e.of)>>}
              [] e.is = "const" -> texts[e.of, seen]
              [] e.is = "plus" -> Chained(texts[e.left, seen], texts[e.right, seen])
              [] e.is = "template" ->
                    FoldLeft(LAMBDA before, span : Chained(Chained(before, texts[span.of, seen]), {span.words}), {e.head}, e.spans)
              [] e.is = "member" /\ e.name \in seen -> {<<"$undefined">>}
              [] e.is = "member" /\ e.name \notin seen ->
                    LET member == traffic.members[e.name]
                        within == seen \cup {e.name}
                        Assign(before, a) ==
                            LET value == IF a.compound THEN Chained(before, texts[a.of, within]) ELSE texts[a.of, within]
                            IN  IF a.direct THEN value ELSE before \cup value
                    IN  FoldLeft(Assign, IF member.initial = NoExpr THEN {<<>>} ELSE texts[member.initial, within], member.assigned)
    IN  IF expression = NoExpr THEN {} ELSE texts[expression, {}]

\* The absolute ones are known of words only; a value of the run may be.
KnownWords == AbsoluteWords \cup RelativeWords \cup {QueryStart}
UnknownWords(texts) == (UNION {Range(t) : t \in texts}) \ KnownWords

RealUrls(call) == IF call.callee \in {"verb", "call"} THEN TextsOf(call.url) ELSE TextsOf(call.config.url)
RealBases(call) ==
    IF call.via = "fetch" THEN {<<>>}
    ELSE IF call.config.baseURL # NoExpr THEN TextsOf(call.config.baseURL)
    ELSE IF traffic.changed THEN {<<"http://z">>}
    ELSE IF call.receiver = "instance" /\ traffic.instance.base # NoExpr THEN TextsOf(traffic.instance.base)
    ELSE {<<>>}

RealTargets(call, absolute) ==
    {BeforeQuery(IF url # <<>> /\ url[1] \in AbsoluteWords \cup absolute THEN url ELSE base \o url) :
        url \in RealUrls(call), base \in RealBases(call)}

RealMethods(call) ==
    IF call.callee = "verb" /\ call.via # "fetch" THEN {call.verb}
    ELSE IF call.config.method # NoExpr THEN {t[1] : t \in TextsOf(call.config.method)}
    ELSE IF call.receiver = "instance" /\ traffic.instance.method # "none" THEN {traffic.instance.method}
    ELSE {"GET"}

\* A published value stands for a text when each placeholder does for some.
StandsFor(value, text) ==
    LET matches[i \in 1..Len(value) + 1, j \in 1..Len(text) + 1] ==
            IF i > Len(value) THEN j > Len(text)
            ELSE IF value[i] = "{}" THEN \E k \in j..Len(text) + 1 : matches[i + 1, k]
            ELSE j <= Len(text) /\ value[i] = text[j] /\ matches[i + 1, j + 1]
    IN  matches[1, 1]

\* Whether the observable of a call is subscribed to by what is around it.
SubscribedTo(call) ==
    LET around == call.enclosing
        end == Len(around) + 1
        from[i \in 1..end, wrapped \in BOOLEAN] ==
            IF i = end THEN {FALSE}
            ELSE CASE around[i] \in {"first", "subscribe"} -> {TRUE}
                   [] around[i] = "data" -> from[i + 1, TRUE]
                   [] around[i] \in {"call", "hold", "new"} -> BOOLEAN
                   [] around[i] = "return" -> IF traffic.route /\ call.nested = "no" THEN {~wrapped} ELSE BOOLEAN
                   [] OTHER -> from[i + 1, wrapped]
    IN  from[1, FALSE]

-----------------------------------------------------------------------------
(***************************************************************************)
(* What the records say of it, and what they do not.                       *)
(***************************************************************************)
RequestsOf(i) == {r \in httpFacts.interactions : r.call = i}
IssuesOf(i) == {d.code : d \in {d \in httpFacts.diagnostics : d.call = i}}

NoConstantClient(call) ==
    call.via = "axios" /\ (call.receiver = "typed" \/ (call.receiver = "instance" /\ ~traffic.instance.constant))

UnboundService ==
    LET s == traffic.service
    IN  ~s.role \/ s.form \in {"inherited", "property"} \/ (s.form = "assigned" /\ "constructor" \in s.others)

\* No extractor sees a request sent in a function inside the method, through
\* an alias of fetch or of the service, by a method beyond the verbs, by the
\* call of a client that is no constant, or a service that is not bound.
UnseenRequest(call) ==
    \/ call.nested = "function" \/ call.callee = "other" \/ call.receiver \in {"alias", "loose"}
    \/ NoConstantClient(call) /\ call.callee \notin {"verb", "request"}
    \/ call.via \in {"service", "axiosRef"} /\ (call.callee = "computed" \/ UnboundService)

EveryRequestIsSeen ==
    \A i \in HttpCalls : RequestsOf(i) = {} /\ IssuesOf(i) = {} => UnseenRequest(HttpCall(i))

GapsAreReported ==
    \A r \in httpFacts.interactions :
        /\ r.target.value = <<>> => IssuesOf(r.call) \cap {"TARGET_DYNAMIC", "TARGET_LIMIT_EXCEEDED"} # {}
        /\ r.method = "UNKNOWN" => "METHOD_DYNAMIC" \in IssuesOf(r.call)
        /\ r.activation = "unknown" => "ACTIVATION_UNKNOWN" \in IssuesOf(r.call)

\* The base is set elsewhere; a target whose first word is only known when
\* the program runs, and that may be absolute, is joined to a base; a query
\* is cut off the base before the target is joined to it; a member is
\* changed by an operator such as +=.
BaseSetElsewhere(call) == traffic.changed /\ call.via # "fetch" /\ call.config.baseURL = NoExpr
OpensWithSubstitution(e) == e.is = "template" /\ e.head = <<>>
MayBeAbsolute(call) ==
    /\ RealBases(call) # {<<>>}
    /\ OpensWithSubstitution(call.url) \/ \E url \in RealUrls(call) : url # <<>> /\ url[1] \notin KnownWords
QueryInBase(call) == \E base \in RealBases(call) : QueryStart \in Range(base)
ChangedByOperator == \E m \in DOMAIN traffic.members : \E a \in Range(traffic.members[m].assigned) : a.compound

TargetExcused(call) == BaseSetElsewhere(call) \/ MayBeAbsolute(call) \/ QueryInBase(call) \/ ChangedByOperator

TargetsAreReal ==
    \A r \in {r \in httpFacts.interactions : r.target.value # <<>>} :
        LET call == HttpCall(r.call)
        IN  \/ TargetExcused(call)
            \/ \A absolute \in SUBSET UnknownWords(RealUrls(call)) :
                  \A text \in RealTargets(call, absolute) : StandsFor(r.target.value, text)

\* The method of a configuration is taken for that of a call by verb, which
\* ignores it; the method of axios.create() is not read.
MethodExcused(call) ==
    \/ call.callee = "verb" /\ call.config.method # NoExpr
    \/ call.receiver = "instance" /\ traffic.instance.method # "none"

MethodsAreReal ==
    \A r \in httpFacts.interactions :
        LET call == HttpCall(r.call)
        IN  r.target.value # <<>> /\ r.method # "UNKNOWN" => MethodExcused(call) \/ RealMethods(call) = {r.method}

\* In a route, what is returned inside an array or an object, or out of the
\* callback of a critical section, is not subscribed to by the framework;
\* what becomes of an argument of a constructor is not known.
ActivationExcused(call) ==
    \/ traffic.route /\ "return" \in Range(call.enclosing) /\ ("data" \in Range(call.enclosing) \/ call.nested = "section")
    \/ "new" \in Range(call.enclosing)

ActivationsAreReal ==
    \A r \in {r \in httpFacts.interactions : HttpCall(r.call).via = "service"} :
        LET call == HttpCall(r.call)
        IN  \/ ActivationExcused(call)
            \/ /\ r.activation = "proven_activated" => SubscribedTo(call) = {TRUE}
               /\ r.activation = "constructed_cold" => SubscribedTo(call) = {FALSE}

RequestsAreReal(extracted) ==
    extracted => EveryRequestIsSeen /\ GapsAreReported /\ TargetsAreReal /\ MethodsAreReal /\ ActivationsAreReal

=============================================================================
