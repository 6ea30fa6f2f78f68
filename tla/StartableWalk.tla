----------------------------- MODULE StartableWalk -----------------------------
(***************************************************************************)
(* The loop of startable_limited (transfer/queue/mod.rs) as the code runs  *)
(* it: a heap holds the lowest queued id of every session that is not at   *)
(* its cap; the lowest head is popped, replaced by its session's next id,  *)
(* and picked unless its destination is busy.  The module relates the loop *)
(* to IsStartable, the declarative form the engine's steps are built on.   *)
(***************************************************************************)
EXTENDS QueueSpec

(* The heap and the iterators before the first pop *)
WalkStart(q) ==
    LET open == {s \in Sessions : q.queuedBySession[s] # {}
                                    /\ ~Capped(q, s, Cardinality(InSession(q, q.running, s)))}
    IN  [heads |-> {Min(q.queuedBySession[s]) : s \in open},
         rest |-> [s \in Sessions |->
                     IF s \in open THEN q.queuedBySession[s] \ {Min(q.queuedBySession[s])} ELSE {}],
         busy |-> DestinationsOf(q, q.running),
         picked |-> {}]

(* mutant: a session's cap is not reached by what was picked before *)
WalkTurnOverCap(q, w) ==
    LET id == Min(w.heads)
        s == q.jobs[id].session
        next == IF w.rest[s] = {} THEN {} ELSE {Min(w.rest[s])}
        free == Destination(q.jobs[id]) \notin w.busy
    IN  [heads |-> (w.heads \ {id}) \cup next,
         rest |-> [w.rest EXCEPT ![s] = @ \ next],
         busy |-> w.busy \cup {Destination(q.jobs[id])},
         picked |-> IF free THEN w.picked \cup {id} ELSE w.picked]

(* One turn of the loop: pop the lowest head *)
WalkTurn(q, w) ==
    LET id == Min(w.heads)
        s == q.jobs[id].session
        next == IF w.rest[s] = {} THEN {} ELSE {Min(w.rest[s])}
        capped == Capped(q, s, Cardinality(InSession(q, q.running \cup w.picked, s)))
        free == Destination(q.jobs[id]) \notin w.busy
    IN  IF capped
        THEN [w EXCEPT !.heads = @ \ {id}]
        ELSE [heads |-> (w.heads \ {id}) \cup next,
              rest |-> [w.rest EXCEPT ![s] = @ \ next],
              busy |-> w.busy \cup {Destination(q.jobs[id])},
              picked |-> IF free THEN w.picked \cup {id} ELSE w.picked]

(* The loop ends when the slots are full or the heap is empty *)
Walk(q) ==
    LET w[k \in 0..Cardinality(q.queued)] ==
          IF k = 0 THEN WalkStart(q)
          ELSE IF w[k - 1].heads = {} \/ Cardinality(w[k - 1].picked) >= FreeSlots(q) THEN w[k - 1]
          ELSE WalkTurn(q, w[k - 1])
    IN  w[Cardinality(q.queued)].picked

(* startable_limited: in every reachable queue the loop returns the one    *)
(* set of jobs that IsStartable describes.                                 *)
WalkPicksStartable ==
    {S \in SUBSET transfers.queued : IsStartable(transfers, S)} = {Walk(transfers)}
=================================================================================
