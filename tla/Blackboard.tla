----------------------------- MODULE Blackboard -----------------------------
(***************************************************************************)
(* The L2 blackboard (src/src/memory/l2_blackboard.rs): a concurrent cache *)
(* of nodes, the Oxigraph mirror that SPARQL queries read, and the bounded *)
(* FIFO outbox with its single worker between the two.  A write draws a    *)
(* generation, enqueues the mirror command and updates the cache in steps  *)
(* that share no lock; a delete also waits for the worker behind a         *)
(* barrier.  Callers are agents, the scheduler and event consumers.        *)
(*                                                                         *)
(* A document is known by the generation its write draws.  What a line is  *)
(* worth against L0 (dirty, MESI state) is the subject of MemoryTiers.     *)
(***************************************************************************)
EXTENDS Naturals, Sequences, FiniteSets

CONSTANTS
  Procs,        \* concurrent callers
  Nodes,        \* node IRIs, all of them below one task
  Graphs,       \* named graphs, the default graph among them
  Keys,         \* keys of the role, cycle and type indices
  Calls,        \* the API calls made: [kind: {"write", "delete"}, todo: Seq(item)]
  QueueCap,     \* queue_capacity of with_store_and_queue_capacity
  MaxBytes,     \* max_bytes, 0 for unlimited
  Wrap,         \* 2^64: the counters are AtomicU64
  MaxCalls,     \* bound on API calls
  MaxFailures   \* bound on failures of store.update

\* One node of a call: a write names the document's graph, index key and size
\* and whether build_triples finds nothing in it; a delete only uses the node.
Item == [node : Nodes, graph : Graphs, key : Keys, size : 1..Wrap - 1, blank : BOOLEAN]

ASSUME BlackboardAssumption ==
  /\ QueueCap \in Nat /\ MaxBytes \in Nat /\ Wrap \in Nat \ {0}
  /\ MaxCalls \in Nat /\ MaxFailures \in Nat
  /\ Calls \subseteq [kind : {"write", "delete"}, todo : Seq(Item) \ {<<>>}]

VARIABLES
  versions,     \* sync_versions
  cache,        \* node_cache: the line of a node, or NoLine
  index,        \* the secondary indices: the nodes listed under a key
  nodeCount, totalBytes,
  queue,        \* the outbox, at most Cap commands
  errors,       \* nodes of the worker's pending error list
  mirror,       \* per node and graph the generation whose triples it holds, or 0
  worker,       \* "running" or "exited"
  op,           \* per caller, the call in progress
  teardown,     \* Drop for Blackboard: "no", "signalled", "unsignalled" or "done"
  calls, failures,  \* the two bounds
  \* History, per node: the graph of its newest generation and all it was written to;
  \* whether the update of that generation was dropped; whether calls met on the node
  \* since a write that met none; whether calls ever met on it, an update ever timed
  \* out, a delete gave up half-way, or its error was handed to a caller working on
  \* another node.  And whether any two calls overlapped.
  target, homes, dropped, disputed, raced, lapsed, leaked, misreported, overlapped

outbox == <<queue, errors, mirror, worker>>
counters == <<nodeCount, totalBytes>>
history == <<target, homes, dropped, disputed, raced, lapsed, leaked, misreported, overlapped>>
vars == <<versions, cache, index, counters, outbox, op, teardown, calls, failures, history>>

NoLine == [gen |-> 0, graph |-> "none", key |-> "none", size |-> 0]
Idle == [kind |-> "none", at |-> "idle", todo |-> <<>>, gen |-> 0, old |-> NoLine, ok |-> TRUE]

Line == [gen : Nat, graph : Graphs, key : Keys, size : 1..Wrap - 1] \union {NoLine}

Cap == IF QueueCap = 0 THEN 1 ELSE QueueCap
\* Mutant: one command more than the channel holds.
RoomForOneMore == Len(queue) <= Cap
Room == Len(queue) < Cap
NodesOf(s) == {s[i].node : i \in DOMAIN s}
Active(p) == NodesOf(op[p].todo)
Now(p) == Head(op[p].todo)

Init ==
  /\ versions = [n \in Nodes |-> [gen |-> 0, tomb |-> FALSE]]
  /\ cache = [n \in Nodes |-> NoLine]
  /\ index = [k \in Keys |-> {}]
  /\ nodeCount = 0 /\ totalBytes = 0
  /\ queue = <<>> /\ errors = {} /\ worker = "running"
  /\ mirror = [n \in Nodes |-> [g \in Graphs |-> 0]]
  /\ op = [p \in Procs |-> Idle]
  /\ teardown = "no" /\ calls = 0 /\ failures = 0
  /\ target = [n \in Nodes |-> "none"] /\ homes = [n \in Nodes |-> {}]
  /\ dropped = {} /\ disputed = {} /\ raced = {} /\ lapsed = {} /\ leaked = {}
  /\ misreported = {} /\ overlapped = FALSE

(***************************************************************************)
(* A call starts.  ensure_capacity_for projects total_bytes over all items *)
(* of a write, replacing what is cached or staged before; a refused call   *)
(* changes nothing and is no step.  The test is not repeated later.        *)
(***************************************************************************)
SatSub(a, b) == IF a < b THEN 0 ELSE a - b
Staged(so_far, i) ==
  [total |-> SatSub(so_far.total, so_far.sizes[i.node]) + i.size,
   sizes |-> [so_far.sizes EXCEPT ![i.node] = i.size]]
Projected(todo) ==
  LET after[k \in 0..Len(todo)] ==
        IF k = 0 THEN [total |-> totalBytes, sizes |-> [n \in Nodes |-> cache[n].size]]
        ELSE Staged(after[k - 1], todo[k])
  IN  after[Len(todo)].total
HasCapacity(todo) == MaxBytes = 0 \/ Projected(todo) <= MaxBytes

\* The nodes of a call another call is working on.
Met(c) == UNION {NodesOf(c.todo) \intersect Active(q) : q \in Procs}

Begin(p, c) ==
  /\ op[p].at = "idle" /\ teardown = "no" /\ calls < MaxCalls
  /\ c.kind = "write" => HasCapacity(c.todo)
  /\ calls' = calls + 1
  /\ op' = [op EXCEPT ![p] = [Idle EXCEPT !.kind = c.kind, !.todo = c.todo,
                                          !.at = IF c.kind = "write" THEN "draw" ELSE "remove"]]
  /\ raced' = raced \union Met(c) /\ disputed' = disputed \union Met(c)
  /\ overlapped' = (overlapped \/ \E q \in Procs: op[q].at # "idle")
  /\ UNCHANGED <<versions, cache, index, counters, outbox, teardown, failures,
                 target, homes, dropped, lapsed, leaked, misreported>>

\* The op record once its first item is finished: the next one, or the call returns.
AfterItem(o) ==
  IF Len(o.todo) = 1 THEN Idle
  ELSE [Idle EXCEPT !.kind = o.kind, !.todo = Tail(o.todo),
                    !.at = IF o.kind = "write" THEN "draw" ELSE "remove"]

(***************************************************************************)
(* next_generation and enqueue_sync_command, for upserts and tombstones.   *)
(* A send that finds the queue full for 250 ms fails: a write or a batch   *)
(* returns the error, release_subtree goes on with the next node.  The     *)
(* generation stays drawn.                                                 *)
(***************************************************************************)
GraphOf(p) == IF op[p].kind = "write" THEN Now(p).graph ELSE op[p].old.graph

Draw(p) ==
  /\ op[p].at = "draw"
  /\ LET n == Now(p).node
         g == versions[n].gen + 1
     IN /\ versions' = [versions EXCEPT ![n] = [gen |-> g, tomb |-> op[p].kind = "delete"]]
        /\ op' = [op EXCEPT ![p].gen = g, ![p].at = "send"]
        /\ target' = [target EXCEPT ![n] = GraphOf(p)]
        /\ dropped' = dropped \ {n}
        /\ disputed' = IF op[p].kind = "write" /\ \A q \in Procs \ {p}: n \notin Active(q)
                       THEN disputed \ {n} ELSE disputed
  /\ UNCHANGED <<cache, index, counters, outbox, teardown, calls, failures,
                 homes, raced, lapsed, leaked, misreported, overlapped>>

Command(p) ==
  [type |-> op[p].kind, node |-> Now(p).node, gen |-> op[p].gen, graph |-> GraphOf(p),
   blank |-> op[p].kind = "write" /\ Now(p).blank]

Send(p) ==
  /\ op[p].at = "send" /\ Room
  /\ queue' = Append(queue, Command(p))
  /\ op' = [op EXCEPT ![p].at = IF op[p].kind = "write" THEN "look" ELSE "unlink"]
  /\ homes' = IF op[p].kind = "write"
              THEN [homes EXCEPT ![Now(p).node] = @ \union {Now(p).graph}] ELSE homes
  /\ UNCHANGED <<versions, cache, index, counters, errors, mirror, worker, teardown, calls,
                 failures, target, dropped, disputed, raced, lapsed, leaked, misreported, overlapped>>

TimeOut(p) ==
  /\ op[p].at = "send" /\ ~Room
  /\ lapsed' = lapsed \union {Now(p).node}
  /\ dropped' = IF op[p].gen = versions[Now(p).node].gen
                THEN dropped \union {Now(p).node} ELSE dropped
  /\ leaked' = IF op[p].kind = "delete" THEN leaked \union {Now(p).node} ELSE leaked
  /\ op' = [op EXCEPT ![p] = IF @.kind = "write" THEN Idle ELSE AfterItem(@)]
  /\ UNCHANGED <<versions, cache, index, counters, outbox, teardown, calls, failures,
                 target, homes, disputed, raced, misreported, overlapped>>

(***************************************************************************)
(* upsert_cached_node: the previous line is read and unlinked from the     *)
(* indices, then the new one inserted, indexed and counted by what was     *)
(* read.  The counters are atomics of their own, added to with the insert  *)
(* here because no step reads them together with the cache.                *)
(***************************************************************************)
Unlisted(n, line) == IF line = NoLine THEN index ELSE [index EXCEPT ![line.key] = @ \ {n}]

\* Mutant: the old memberships stay.
LookOnly(p) ==
  /\ op[p].at = "look"
  /\ op' = [op EXCEPT ![p].old = cache[Now(p).node], ![p].at = "put"]
  /\ UNCHANGED <<versions, cache, index, counters, outbox, teardown, calls, failures, history>>
Look(p) ==
  /\ op[p].at = "look"
  /\ op' = [op EXCEPT ![p].old = cache[Now(p).node], ![p].at = "put"]
  /\ index' = Unlisted(Now(p).node, cache[Now(p).node])
  /\ UNCHANGED <<versions, cache, counters, outbox, teardown, calls, failures, history>>

Sub64(a, b) == (a + Wrap - b) % Wrap
Add64(a, b) == (a + b) % Wrap
Count(old, size) ==
  /\ nodeCount' = IF old = NoLine THEN Add64(nodeCount, 1) ELSE nodeCount
  /\ totalBytes' = IF size >= old.size THEN Add64(totalBytes, size - old.size)
                                       ELSE Sub64(totalBytes, old.size - size)

Put(p) ==
  /\ op[p].at = "put"
  /\ LET i == Now(p)
     IN /\ cache' = [cache EXCEPT ![i.node] = [gen |-> op[p].gen, graph |-> i.graph,
                                               key |-> i.key, size |-> i.size]]
        /\ index' = [index EXCEPT ![i.key] = @ \union {i.node}]
        /\ Count(op[p].old, i.size)
  /\ op' = [op EXCEPT ![p] = AfterItem(@)]
  /\ UNCHANGED <<versions, outbox, teardown, calls, failures, history>>

(***************************************************************************)
(* delete_node, and release_subtree which calls it for every node of the   *)
(* subtree and ignores errors: the cache entry goes first, then the        *)
(* tombstone is drawn and enqueued, the counters and indices follow, and a *)
(* barrier waits for the worker (a blocking send, then the reply).         *)
(***************************************************************************)
Uncache(p) ==
  /\ op[p].at = "remove"
  /\ LET n == Now(p).node
     IN IF cache[n] = NoLine
        THEN op' = [op EXCEPT ![p] = AfterItem(@)] /\ UNCHANGED cache
        ELSE op' = [op EXCEPT ![p].old = cache[n], ![p].at = "draw"]
             /\ cache' = [cache EXCEPT ![n] = NoLine]
  /\ UNCHANGED <<versions, index, counters, outbox, teardown, calls, failures, history>>

Unlink(p) ==
  /\ op[p].at = "unlink"
  /\ nodeCount' = Sub64(nodeCount, 1) /\ totalBytes' = Sub64(totalBytes, op[p].old.size)
  /\ index' = Unlisted(Now(p).node, op[p].old)
  /\ op' = [op EXCEPT ![p].at = "barrier"]
  /\ UNCHANGED <<versions, cache, outbox, teardown, calls, failures, history>>

\* Mutant: the delete returns without waiting.
ReturnAtOnce(p) ==
  /\ op[p].at = "barrier"
  /\ op' = [op EXCEPT ![p].at = "returned"]
  /\ UNCHANGED <<versions, cache, index, counters, outbox, teardown, calls, failures, history>>
SendBarrier(p) ==
  /\ op[p].at = "barrier" /\ Room
  /\ queue' = Append(queue, [type |-> "barrier", by |-> p])
  /\ op' = [op EXCEPT ![p].at = "await"]
  /\ UNCHANGED <<versions, cache, index, counters, errors, mirror, worker, teardown, calls,
                 failures, history>>

Return(p) ==
  /\ op[p].at = "returned"
  /\ op' = [op EXCEPT ![p] = AfterItem(@)]
  /\ UNCHANGED <<versions, cache, index, counters, outbox, teardown, calls, failures, history>>

(***************************************************************************)
(* The worker thread.  A command is applied only while it is the newest of *)
(* its node; a failed update is remembered and the worker goes on.  An     *)
(* upsert replaces the node's triples in its own graph only.               *)
(***************************************************************************)
\* Mutant: the generation is not compared.
AnyGeneration(c) == versions[c.node].tomb = (c.type = "delete")
Current(c) == versions[c.node] = [gen |-> c.gen, tomb |-> c.type = "delete"]
Applied(c) ==
  [mirror EXCEPT ![c.node][c.graph] = IF c.type = "delete" THEN 0 ELSE IF c.blank THEN @ ELSE c.gen]

Apply ==
  /\ worker = "running" /\ queue # <<>>
  /\ LET c == Head(queue)
     IN /\ c.type \in {"write", "delete"}
        /\ mirror' = IF Current(c) THEN Applied(c) ELSE mirror
        /\ dropped' = IF Current(c) /\ c.blank THEN dropped \union {c.node} ELSE dropped
  /\ queue' = Tail(queue)
  /\ UNCHANGED <<versions, cache, index, counters, errors, worker, op, teardown, calls, failures,
                 target, homes, disputed, raced, lapsed, leaked, misreported, overlapped>>

ApplyFails ==
  /\ worker = "running" /\ queue # <<>> /\ failures < MaxFailures
  /\ LET c == Head(queue)
     IN /\ c.type \in {"write", "delete"} /\ Current(c) /\ ~c.blank
        /\ errors' = errors \union {c.node}
        /\ dropped' = dropped \union {c.node}
  /\ failures' = failures + 1
  /\ queue' = Tail(queue)
  /\ UNCHANGED <<versions, cache, index, counters, mirror, worker, op, teardown, calls,
                 target, homes, disputed, raced, lapsed, leaked, misreported, overlapped>>

\* Mutant: with failures pending, the worker keeps its answer.
AnswerIfClean ==
  /\ worker = "running" /\ queue # <<>> /\ Head(queue).type = "barrier"
  /\ LET p == Head(queue).by
     IN /\ op' = IF errors = {} THEN [op EXCEPT ![p].at = "returned"] ELSE op
        /\ misreported' = misreported
  /\ errors' = errors /\ queue' = Tail(queue)
  /\ UNCHANGED <<versions, cache, index, counters, mirror, worker, teardown, calls, failures,
                 target, homes, dropped, disputed, raced, lapsed, leaked, overlapped>>
\* A barrier takes the errors of every caller since the last barrier.
AnswerBarrier ==
  /\ worker = "running" /\ queue # <<>> /\ Head(queue).type = "barrier"
  /\ LET p == Head(queue).by
     IN /\ op' = [op EXCEPT ![p].at = "returned", ![p].ok = (errors = {})]
        /\ misreported' = misreported \union (errors \ {Now(p).node})
  /\ errors' = {} /\ queue' = Tail(queue)
  /\ UNCHANGED <<versions, cache, index, counters, mirror, worker, teardown, calls, failures,
                 target, homes, dropped, disputed, raced, lapsed, leaked, overlapped>>

Shutdown ==
  /\ worker = "running" /\ queue # <<>> /\ Head(queue).type = "shutdown"
  /\ worker' = "exited" /\ queue' = Tail(queue)
  /\ UNCHANGED <<versions, cache, index, counters, errors, mirror, op, teardown, calls, failures, history>>

(***************************************************************************)
(* Drop for Blackboard, when the last Arc goes and so no call is running:  *)
(* the shutdown is only tried, then the worker is joined, while the sender *)
(* that keeps the worker in recv still exists.                             *)
(***************************************************************************)
DropBegins ==
  /\ teardown = "no" /\ \A p \in Procs: op[p].at = "idle"
  /\ teardown' = IF Room THEN "signalled" ELSE "unsignalled"
  /\ queue' = IF Room THEN Append(queue, [type |-> "shutdown"]) ELSE queue
  /\ UNCHANGED <<versions, cache, index, counters, errors, mirror, worker, op, calls, failures, history>>

DropJoins ==
  /\ teardown \in {"signalled", "unsignalled"} /\ worker = "exited"
  /\ teardown' = "done"
  /\ UNCHANGED <<versions, cache, index, counters, outbox, op, calls, failures, history>>

Work == Apply \/ ApplyFails \/ AnswerBarrier \/ Shutdown
Step(p) ==
  \/ Draw(p) \/ Send(p) \/ TimeOut(p) \/ Look(p) \/ Put(p)
  \/ Uncache(p) \/ Unlink(p) \/ SendBarrier(p) \/ Return(p)

Next ==
  \/ \E p \in Procs: Step(p) \/ \E c \in Calls: Begin(p, c)
  \/ Work \/ DropBegins \/ DropJoins

Spec == Init /\ [][Next]_vars

\* The worker is a thread of its own, callers are running code; calls and drops
\* need not come.
Fairness == WF_vars(Work) /\ WF_vars(DropJoins) /\ \A p \in Procs: WF_vars(Step(p))
FairSpec == Spec /\ Fairness

(***************************************************************************)
(* Properties.                                                             *)
(***************************************************************************)
Commands ==
  [type : {"write", "delete"}, node : Nodes, gen : Nat, graph : Graphs, blank : BOOLEAN]
    \union [type : {"barrier"}, by : Procs] \union [type : {"shutdown"}]

TypeOK ==
  /\ versions \in [Nodes -> [gen : Nat, tomb : BOOLEAN]]
  /\ cache \in [Nodes -> Line]
  /\ index \in [Keys -> SUBSET Nodes]
  /\ nodeCount \in 0..Wrap - 1 /\ totalBytes \in 0..Wrap - 1
  /\ queue \in Seq(Commands) /\ Len(queue) <= Cap
  /\ errors \subseteq Nodes
  /\ mirror \in [Nodes -> [Graphs -> Nat]]
  /\ worker \in {"running", "exited"}
  /\ op \in [Procs -> [kind : {"none", "write", "delete"},
                       at : {"idle", "draw", "send", "look", "put", "remove", "unlink",
                             "barrier", "await", "returned"},
                       todo : Seq(Item), gen : Nat, old : Line, ok : BOOLEAN]]
  /\ teardown \in {"no", "signalled", "unsignalled", "done"}
  /\ target \in [Nodes -> Graphs \union {"none"}] /\ homes \in [Nodes -> SUBSET Graphs]
  /\ dropped \subseteq Nodes /\ disputed \subseteq Nodes /\ raced \subseteq Nodes
  /\ lapsed \subseteq Nodes /\ leaked \subseteq Nodes /\ misreported \subseteq Nodes
  /\ overlapped \in BOOLEAN

\* No command of the node is queued or about to be.
Drained(n) ==
  /\ \A i \in DOMAIN queue: queue[i].type \in {"write", "delete"} => queue[i].node # n
  /\ \A p \in Procs: op[p].at = "send" => Now(p).node # n
Untouched(n) == \A p \in Procs: n \notin Active(p)

Exposed(n) == {g \in Graphs : mirror[n][g] # 0}
\* A write with another graph leaves the triples of the old one where they are, and a
\* delete removes those of one graph: sync_to_oxigraph_sync and delete_from_oxigraph
\* touch the graph of the document at hand only.
LeftBehind(n) == homes[n] \ {target[n]}

\* However the steps of concurrent writers and deleters of a node interleave, once its
\* commands are worked off the graph its newest generation is for holds that generation,
\* or nothing if it is a tombstone, and every other graph at most an older one that was
\* written there.  The exception is a newest update that timed out, failed or had nothing
\* to write; it ends with the next one drawn.  (The cache may be left by an older writer.)
MirrorNewest ==
  \A n \in Nodes: Drained(n) /\ n \notin dropped =>
    /\ versions[n].gen > 0 =>
         mirror[n][target[n]] = IF versions[n].tomb THEN 0 ELSE versions[n].gen
    /\ \A g \in Exposed(n) \ {target[n]}: g \in homes[n] /\ mirror[n][g] < versions[n].gen

\* The cache and the mirror agree on a node nobody works on: a cached document is in its
\* graph, of a deleted one nothing is left but in graphs it was moved away from.  Two
\* exceptions: calls met on the node, which may leave an older writer's line in the cache
\* until a write that meets no other; or the newest update was dropped, until the next.
MirrorAgrees ==
  \A n \in Nodes: Drained(n) /\ Untouched(n) /\ n \notin disputed \union dropped =>
    IF cache[n] = NoLine THEN Exposed(n) \subseteq LeftBehind(n)
    ELSE cache[n].graph = target[n] /\ mirror[n][cache[n].graph] = cache[n].gen

\* What sync_to_oxigraph_sync makes of concurrent calls: the newest state of a
\* node, and the cached one where calls do not overlap.
MirrorFollows == MirrorNewest /\ MirrorAgrees

\* When delete_node returns success neither the cache nor the graph the node was last
\* written to exposes it, unless calls met on the node since a write that met none, or
\* another caller's barrier took its error.  The comment there promises more, "both cache
\* and Oxigraph must no longer expose the node": that is so of a node written to one graph
\* only, of others the old graphs keep what was written to them.
DeleteCompletes ==
  \A p \in Procs: op[p].at = "returned" /\ op[p].ok =>
    LET n == Now(p).node
    IN \/ n \in disputed \union misreported
       \/ cache[n] = NoLine /\ Exposed(n) \subseteq LeftBehind(n)

Live == {n \in Nodes: cache[n] # NoLine}
Bytes(lines, S) ==
  LET sum[T \in SUBSET S] ==
        IF T = {} THEN 0 ELSE LET n == CHOOSE n \in T : TRUE IN lines[n].size + sum[T \ {n}]
  IN  sum[S]
\* When no call runs the counters are those of the cache, if no node was worked on
\* by two calls at a time and no delete gave up half-way.
CountersExact ==
  (\A p \in Procs: op[p].at = "idle") /\ raced = {} /\ leaked = {} =>
    nodeCount = Cardinality(Live) /\ totalBytes = Bytes(cache, Live)

\* A node nobody works on is listed under the key of its line and no other, under
\* the same conditions: updates and deletes leave no old membership behind.
IndexExact ==
  \A n \in Nodes: Untouched(n) /\ n \notin raced \union leaked =>
    {k \in Keys: n \in index[k]} = IF cache[n] = NoLine THEN {} ELSE {cache[n].key}

\* Between calls the cache is within the configured capacity, if no call overlapped
\* another and none was cut short.  (Within a batch it may exceed it, and stays so when
\* the batch ends with an error: the test looks at what all of it would come to.)
CapacityHeld ==
  MaxBytes > 0 /\ ~overlapped /\ lapsed = {} /\ (\A p \in Procs: op[p].at = "idle") =>
    totalBytes <= MaxBytes

\* The bookkeeping beside the cache (counters, index, capacity) is right.
BookkeepingExact == CountersExact /\ IndexExact /\ CapacityHeld

\* Every call returns, however full the outbox is.
CallsReturn == \A p \in Procs: op[p].at # "idle" ~> op[p].at = "idle"

\* Drop returns when the shutdown command found room in the queue.
SignalledDropReturns == teardown = "signalled" ~> teardown = "done"

\* No caller, and no drop that could signal the worker, waits for ever.
CallsEnd == CallsReturn /\ SignalledDropReturns

\* The comment of Drop for Blackboard: "Drop must not deadlock while a bounded
\* worker queue is saturated."  Checked to fail: without room the worker is never
\* told to leave.
DropNeverDeadlocks == teardown \in {"signalled", "unsignalled"} ~> teardown = "done"
=============================================================================
