---------------------------- MODULE HandlerTrace ----------------------------
(***************************************************************************)
(* buildInteractionHandlerTrace                                            *)
(* (src/src/tracing/interaction-handler-trace.ts): the walk of             *)
(* EndpointTrace rooted at the handler of an interaction. The report, the  *)
(* graph and the architecture overview show it beside the endpoint traces  *)
(* which cross into the same handler, so the two must tell one story. It   *)
(* is a second implementation of the walk, and differs from the first in   *)
(* five ways: it starts in the causal class of its channel, it follows     *)
(* calls before interactions, it enters a handler whole whatever branches  *)
(* the producer selects, it enters one of no causal class, and it keeps    *)
(* the order of the implementations.                                       *)
(*                                                                         *)
(* The document's root is the channel of the handler, its implementations  *)
(* are those of the handler, and matching is 0 for an unknown handler. A   *)
(* listener of unknown timing has no class, here as a root and behind an   *)
(* event, and is entered all the same.                                     *)
(***************************************************************************)
EXTENDS EndpointTrace

HandlerVerdict ==
    IF doc.resultState \in {"failed", "canceled"} THEN "analysis_failure"
    ELSE IF doc.matching = 0 THEN "not_found"
    ELSE "walk"

RefuseHandler ==
    /\ pc = "select" /\ doc.root # "endpoint"
    /\ HandlerVerdict # "walk"
    /\ pc' = HandlerVerdict
    /\ UNCHANGED <<doc, queue, cursor, seenStates, terminals, diagnostics>>

InitialCausalClass ==
    CASE doc.root = "queue" -> "distributed_conditional"
      [] doc.root = "async" -> "local_interaction_asynchronous"
      [] doc.root = "sync" -> "local_interaction_synchronous"
      [] OTHER -> NoClass

HandlerEntry(m) == [Entry(m) EXCEPT !.class = InitialCausalClass]

StartHandler ==
    /\ pc = "select" /\ doc.root # "endpoint"
    /\ HandlerVerdict = "walk"
    /\ Commit(FoldLeft(LAMBDA acc, m : Enqueue(acc, HandlerEntry(m)),
                       Accumulator, doc.implementations))
    /\ pc' = "walk"
    /\ UNCHANGED <<doc, cursor, terminals>>

\* A table without a class is published without one, a resource with that of
\* the kind of the handler.
PublishedClass(kind, class) ==
    IF kind = "table" \/ class # NoClass THEN class
    ELSE IF doc.root = "queue" THEN "distributed_conditional"
    ELSE "local_interaction_synchronous"

\* One turn of the loop: sections, terminals, calls, interactions.
VisitFromHandler ==
    /\ pc = "walk" /\ doc.root # "endpoint"
    /\ cursor <= Len(queue)
    /\ LET s == queue[cursor]
       IN  /\ Commit(Cross(FollowCalls(EnterSection(Accumulator, s), s), s))
           /\ terminals' = terminals \cup
                              {<<s.methodId, kind, PublishedClass(kind, s.class)>> :
                                  f \in TableAccesses(s), kind \in AccessKinds}
    /\ cursor' = cursor + 1
    /\ UNCHANGED <<doc, pc>>

TracesNext == Next \/ RefuseHandler \/ StartHandler \/ VisitFromHandler

TracesSpec == Init /\ [][TracesNext]_vars

=============================================================================
