------------------------------- MODULE RawSql -------------------------------
(***************************************************************************)
(* The raw SQL calls of a repository: extractTypeOrmRawSql                 *)
(* (src/src/extractors/typeorm-raw-sql.ts), one candidate after the other, *)
(* and the table accesses of each, found by the PostgreSQL visitor of      *)
(* src/src/sql/postgresql-table-access.ts.                                 *)
(*                                                                         *)
(* A candidate is [method, receiver, source, tooLong, malformed, version,  *)
(* statements]: its receiver is "ignored", "ambiguous" or "resolved", its  *)
(* source "resolved" or "unsupported"; version tells whether the tree is   *)
(* one of PostgreSQL 18. The tree is a sequence of statements              *)
(*   [parent, name, kind, into, target, tables, odd]                       *)
(* where parent is the enclosing statement (0 at the top), name the name   *)
(* it has there as a CTE ("none": a subquery), target the written table,   *)
(* tables the relations read, [name, qualified], and odd tells of a FROM   *)
(* item of another shape. The kind is "other" outside the four supported.  *)
(***************************************************************************)
EXTENDS Integers, FiniteSets, SequencesExt

CONSTANTS
    Sources,          \* the sequences of candidates the extraction is run on
    Dialects,         \* what the configuration may say: "postgresql-18", "other", "none"
    MaxStatements,    \* maxStatements
    MaxAstNodes       \* maxAstNodes, counting statements and relations only

VARIABLES
    candidates,       \* the raw SQL calls found, in source order
    dialect,          \* the dialect configured
    cursor,           \* the candidate being looked at
    sqlState,         \* "idle", "looking", "parsing", "done" or "canceled"
    signal,           \* the scan's AbortSignal
    sqlAccesses,      \* the assertions: <<method, kind, direction, table>>
    sqlDiagnostics    \* <<code, candidate>>

sqlVars == <<candidates, dialect, cursor, sqlState, signal, sqlAccesses, sqlDiagnostics>>

Candidate == candidates[cursor]

QueriesAreTyped(queries) ==
    /\ queries \in Seq(ToSet(queries))
    /\ \A k \in DOMAIN queries : queries[k].receiver \in {"ignored", "ambiguous", "resolved"}

-----------------------------------------------------------------------------
(***************************************************************************)
(* The visitor.                                                            *)
(***************************************************************************)
\* Statement i of a tree and the statements around it.
Enclosing(tree, i) ==
    LET around[n \in 0..Len(tree)] == IF n = 0 THEN {} ELSE {n} \cup around[tree[n].parent]
    IN  around[i]

\* #withCtes: every CTE of a statement is in scope in all of its bodies.
CtesInScope(tree, i) ==
    {tree[j].name : j \in {j \in DOMAIN tree : tree[j].name # "none" /\ tree[j].parent \in Enclosing(tree, i)}}

\* #addRange: an unqualified name in scope is a CTE; a target never is.
AccessesOf(tree, i) ==
    LET kind == tree[i].kind
    IN  {<<kind, "read", t>> : t \in {t \in tree[i].tables : t.qualified \/ t.name \notin CtesInScope(tree, i)}}
        \cup (IF kind = "select" THEN {} ELSE {<<kind, "write", tree[i].target>>})

\* Any statement of another kind or shape fails the whole tree.
Unsupported(statement) == statement.kind = "other" \/ statement.into \/ statement.odd

Accesses(tree) == UNION {AccessesOf(tree, i) : i \in DOMAIN tree}

TopLevel(tree) == Cardinality({i \in DOMAIN tree : tree[i].parent = 0})

NodeCount(tree) ==
    FoldFunction(LAMBDA statement, n : n + 1 + Cardinality(statement.tables), 0, tree)

-----------------------------------------------------------------------------
(***************************************************************************)
(* The checks on one candidate.                                            *)
(***************************************************************************)
\* Before the parse: the code reported, or "parse" or "skip".
BeforeParse(c) ==
    IF c.receiver = "ignored" THEN "skip"
    ELSE IF c.receiver = "ambiguous" THEN "RECEIVER_AMBIGUOUS"
    ELSE IF dialect # "postgresql-18" THEN "DIALECT_UNSELECTED"
    ELSE IF c.source = "unsupported" THEN "SOURCE_UNSUPPORTED"
    ELSE IF c.tooLong THEN "LIMIT_EXCEEDED"
    ELSE "parse"

\* After it: the code reported, or "resolved".
AfterParse(c, late) ==
    IF late THEN "LIMIT_EXCEEDED"
    ELSE IF ~c.version \/ c.statements = <<>> THEN "STATEMENT_UNSUPPORTED"
    ELSE IF TopLevel(c.statements) > MaxStatements THEN "LIMIT_EXCEEDED"
    ELSE IF NodeCount(c.statements) > MaxAstNodes THEN "LIMIT_EXCEEDED"
    ELSE IF \E i \in DOMAIN c.statements : Unsupported(c.statements[i]) THEN "STATEMENT_UNSUPPORTED"
    ELSE "resolved"

-----------------------------------------------------------------------------
SqlInit ==
    /\ candidates \in Sources /\ dialect \in Dialects
    /\ cursor = 1 /\ sqlState = "idle" /\ signal = FALSE
    /\ sqlAccesses = {} /\ sqlDiagnostics = {}

UnchangedInput == UNCHANGED <<candidates, dialect>>

StartSql == sqlState = "idle" /\ sqlState' = "looking" /\ UNCHANGED <<cursor, signal, sqlAccesses, sqlDiagnostics>> /\ UnchangedInput

Throw == sqlState' = "canceled" /\ UNCHANGED <<cursor, signal, sqlAccesses, sqlDiagnostics>> /\ UnchangedInput

Report(code) ==
    /\ sqlDiagnostics' = IF code = "skip" THEN sqlDiagnostics ELSE sqlDiagnostics \cup {<<code, cursor>>}
    /\ cursor' = cursor + 1 /\ sqlState' = "looking"
    /\ UNCHANGED <<signal, sqlAccesses>> /\ UnchangedInput

\* The loop head: throwIfAborted, then the checks that need no parse. The
\* parse starts with throwIfAborted as well, with nothing awaited between.
LookAtCandidate ==
    /\ sqlState = "looking" /\ cursor <= Len(candidates)
    /\ IF signal THEN Throw
       ELSE IF BeforeParse(Candidate) = "parse"
       THEN sqlState' = "parsing" /\ UNCHANGED <<cursor, signal, sqlAccesses, sqlDiagnostics>> /\ UnchangedInput
       ELSE Report(BeforeParse(Candidate))

\* The loop ends; scanRepository checks the signal once more.
EndSql ==
    /\ sqlState = "looking" /\ cursor > Len(candidates)
    /\ IF signal THEN Throw
       ELSE /\ sqlState' = "done"
            /\ UNCHANGED <<cursor, signal, sqlAccesses, sqlDiagnostics>> /\ UnchangedInput

\* The race is won by the parser; the time it took is checked afterwards.
ParserWins ==
    /\ sqlState = "parsing" /\ ~Candidate.malformed
    /\ \E late \in BOOLEAN :
        IF AfterParse(Candidate, late) # "resolved" THEN Report(AfterParse(Candidate, late))
        ELSE /\ sqlAccesses' = sqlAccesses \cup
                    {<<Candidate.method, a[1], a[2], a[3]>> : a \in Accesses(Candidate.statements)}
             /\ cursor' = cursor + 1 /\ sqlState' = "looking"
             /\ UNCHANGED <<signal, sqlDiagnostics>> /\ UnchangedInput

\* Wrong: every failure is reported.
FailedAnyway(code) == Report(code)

\* The catch block: a failure of a scan that is being canceled is not one of
\* the source.
Failed(code) == IF signal THEN Throw ELSE Report(code)

ParserRejects == sqlState = "parsing" /\ Candidate.malformed /\ Failed("PARSE_FAILED")

\* The abort listener rejects with the reason of the signal.
AbortWins == sqlState = "parsing" /\ signal /\ Failed("PARSE_FAILED")

DeadlineWins == sqlState = "parsing" /\ Failed("LIMIT_EXCEEDED")

ExtractSql ==
    LookAtCandidate \/ EndSql \/ ParserWins \/ ParserRejects \/ AbortWins \/ DeadlineWins

-----------------------------------------------------------------------------
(***************************************************************************)
(* What PostgreSQL reads and writes: without RECURSIVE a CTE is visible to *)
(* the CTEs after it and to the statement, not to itself.                  *)
(***************************************************************************)
Visible(tree, i) ==
    {tree[j].name : j \in {j \in DOMAIN tree :
        /\ tree[j].name # "none" /\ tree[j].parent \in Enclosing(tree, i)
        /\ \A k \in Enclosing(tree, i) :
              tree[k].parent = tree[j].parent /\ tree[k].name # "none" => j < k}}

ReallyAccessed(tree) ==
    UNION {{<<tree[i].kind, "read", t>> : t \in {t \in tree[i].tables : t.qualified \/ t.name \notin Visible(tree, i)}}
            \cup (IF tree[i].kind = "select" THEN {} ELSE {<<tree[i].kind, "write", tree[i].target>>}) :
           i \in DOMAIN tree}

\* A name is used for a table where the visitor takes it for a CTE.
Shadowed(tree) ==
    \E i \in DOMAIN tree : \E t \in tree[i].tables :
        ~t.qualified /\ t.name \in CtesInScope(tree, i) \ Visible(tree, i)

Reported(k) == {d[1] : d \in {d \in sqlDiagnostics : d[2] = k}}

(***************************************************************************)
(* Every query is explained: once the loop is over, each call on a TypeORM *)
(* receiver has either one diagnostic or all of its accesses, and then     *)
(* exactly those the database makes (a CTE named like a table it reads     *)
(* excepted). A source is called unparsable only if it is.                 *)
(***************************************************************************)
EveryQueryIsExplained ==
    /\ sqlState = "done" =>
        /\ \A k \in DOMAIN candidates :
            LET c == candidates[k]
                real == {<<c.method, a[1], a[2], a[3]>> : a \in ReallyAccessed(c.statements)}
            IN  IF c.receiver = "ignored" THEN Reported(k) = {}
                ELSE IF Reported(k) # {} THEN Cardinality(Reported(k)) = 1
                ELSE ~Shadowed(c.statements) => real \subseteq sqlAccesses
        /\ \A access \in sqlAccesses : \E k \in DOMAIN candidates :
              /\ candidates[k].receiver = "resolved" /\ Reported(k) = {}
              /\ \E a \in ReallyAccessed(candidates[k].statements) :
                    access = <<candidates[k].method, a[1], a[2], a[3]>>
    /\ \A d \in sqlDiagnostics : d[1] = "PARSE_FAILED" => candidates[d[2]].malformed

=============================================================================
