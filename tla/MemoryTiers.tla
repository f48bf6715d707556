---------------------------- MODULE MemoryTiers -----------------------------
(***************************************************************************)
(* The documents of one task in the L2 cache (src/src/memory/              *)
(* l2_blackboard.rs) and in the L0 store (l0_store.rs), and everything     *)
(* that moves them between the two: the write hook and the read repair of  *)
(* the consistency engine (consistency_engine.rs), the flush and release   *)
(* of a completed task (scheduler.rs), the eviction of clean lines on an   *)
(* invalidation event (src/src/api/grpc/server.rs) and a restart, which    *)
(* keeps L0 only.                                                          *)
(*                                                                         *)
(* Generations are per tier: L2 counts its writes since the process        *)
(* started, L0 the changes of its entry.  The graph mirror is the subject  *)
(* of Blackboard; here enqueueing a mirror command may fail.               *)
(***************************************************************************)
EXTENDS Naturals, FiniteSets

CONSTANTS
  Procs,        \* agents, the scheduler, event consumers
  Nodes,        \* the IRIs of one task, used by both tiers
  MaxDocs,      \* bound on documents written
  MaxCalls,     \* bound on calls
  MaxFailures,  \* bound on failed mirror commands and L0 transactions
  MaxRestarts   \* bound on restarts

ASSUME MemoryTiersAssumption ==
  MaxDocs \in Nat /\ MaxCalls \in Nat /\ MaxFailures \in Nat /\ MaxRestarts \in Nat

VARIABLES
  versions,     \* sync_versions: the generation drawn last
  l2,           \* node_cache: a line or NoLine
  tree,         \* node_iris of the task in task_tree
  l0,           \* the L0 entry: document and generation, 0 for none
  op,           \* per process, the call in progress
  docs, calls, failures, restarts,   \* the bounds; docs also names documents
  \* History: nodes two calls worked on at a time; nodes last written to L2 with a
  \* generation that L0 had reached; the document each node owes its writers;
  \* nodes whose write hook failed.
  raced, behind, owed, unhooked

tiers == <<versions, l2, tree, l0>>
bounds == <<docs, calls, failures, restarts>>
history == <<raced, behind, owed, unhooked>>
vars == <<tiers, op, bounds, history>>

\* durable: durability_class is not ephemeral; critical: a tag among critical_tags.
NoDoc == [id |-> 0, durable |-> FALSE, critical |-> FALSE]
Doc == [id : 1..MaxDocs, durable : BOOLEAN, critical : BOOLEAN]
\* backed (history): the line was dirty once or came from L0.
NoLine == [doc |-> NoDoc, gen |-> 0, dirty |-> FALSE, state |-> "Shared", backed |-> FALSE]
Line == [doc : Doc, gen : Nat, dirty : BOOLEAN, state : {"Modified", "Shared", "Invalid"},
         backed : BOOLEAN] \union {NoLine}
NoEntry == [doc |-> NoDoc, gen |-> 0]
\* nodes: what the call may work on; rest: what a loop of it still has to do.
Idle == [kind |-> "none", at |-> "idle", nodes |-> {}, rest |-> {}, doc |-> NoDoc, gen |-> 0,
         canon |-> 0, update |-> FALSE]

Init ==
  /\ versions = [n \in Nodes |-> 0]
  /\ l2 = [n \in Nodes |-> NoLine] /\ tree = {}
  /\ l0 = [n \in Nodes |-> NoEntry]
  /\ op = [p \in Procs |-> Idle]
  /\ docs = 0 /\ calls = 0 /\ failures = 0 /\ restarts = 0
  /\ raced = {} /\ behind = {} /\ owed = [n \in Nodes |-> NoDoc] /\ unhooked = {}

Cached(n) == l2[n] # NoLine
Works(p, n) == op[p].at # "idle" /\ n \in op[p].nodes
Untouched(n) == \A p \in Procs: ~Works(p, n)

\* A call of a kind over some nodes starts at a point of its code.
Start(p, kind, at, nodes, doc) ==
  /\ op[p].at = "idle" /\ calls < MaxCalls
  /\ calls' = calls + 1
  /\ op' = [op EXCEPT ![p] = [Idle EXCEPT !.kind = kind, !.at = at, !.nodes = nodes, !.rest = nodes,
                                          !.doc = doc]]
  /\ raced' = raced \union {n \in nodes: ~Untouched(n)}
To(p, at) == op' = [op EXCEPT ![p].at = at]
Done(p) == op' = [op EXCEPT ![p] = Idle]
Node(p) == CHOOSE n \in op[p].nodes: TRUE

(***************************************************************************)
(* L0: normalize_lifecycle chooses the generation in the transaction that  *)
(* writes the entry.                                                       *)
(***************************************************************************)
Max2(a, b) == IF a >= b THEN a ELSE b
\* Mutant: a first entry has the generation asked for.
L0AsRequested(n, doc, requested) == Max2(IF l0[n].doc # doc THEN l0[n].gen ELSE 0, requested)
L0Generation(n, doc, requested) ==
  Max2(IF l0[n].gen = 0 THEN 1 ELSE IF l0[n].doc # doc THEN l0[n].gen + 1 ELSE l0[n].gen, requested)

\* flush_node_to_l0, under the lock of the cache entry.
Flush(n) ==
  IF Cached(n)
  THEN /\ l0' = [l0 EXCEPT ![n] = [doc |-> l2[n].doc, gen |-> L0Generation(n, l2[n].doc, l2[n].gen)]]
       /\ l2' = [l2 EXCEPT ![n].dirty = FALSE, ![n].state = "Shared"]
  ELSE UNCHANGED <<l0, l2>>

(***************************************************************************)
(* write_node, and the same steps below write_node_from_l0: draw the       *)
(* generation and enqueue, read the previous line, insert the new one, run *)
(* the write hook of the consistency engine, which persists the line the   *)
(* cache then holds if the tags are critical and ignores an error.         *)
(***************************************************************************)
BeginWrite(p, n, durable, critical) ==
  /\ docs < MaxDocs
  /\ docs' = docs + 1
  /\ Start(p, "write", "draw", {n}, [id |-> docs + 1, durable |-> durable, critical |-> critical])
  /\ UNCHANGED <<tiers, failures, restarts, behind, owed, unhooked>>

Draw(p) ==
  /\ op[p].at = "draw"
  /\ LET n == Node(p)
     IN /\ versions' = [versions EXCEPT ![n] = @ + 1]
        /\ op' = [op EXCEPT ![p].gen = versions[n] + 1, ![p].at = "look"]
  /\ UNCHANGED <<l2, tree, l0, bounds, history>>

EnqueueFails(p) ==
  /\ op[p].at = "draw" /\ failures < MaxFailures
  /\ failures' = failures + 1
  /\ versions' = [versions EXCEPT ![Node(p)] = @ + 1]
  /\ Done(p)
  /\ UNCHANGED <<l2, tree, l0, docs, calls, restarts, history>>

Look(p) ==
  /\ op[p].at = "look"
  /\ op' = [op EXCEPT ![p].update = Cached(Node(p)), ![p].at = "put"]
  /\ UNCHANGED <<tiers, bounds, history>>

DirtyAfter(o) == o.update \/ o.doc.durable
Put(p) ==
  /\ op[p].at = "put"
  /\ LET n == Node(p)
         dirty == DirtyAfter(op[p])
     IN /\ l2' = [l2 EXCEPT ![n] = [doc |-> op[p].doc, gen |-> op[p].gen, dirty |-> dirty,
                                    state |-> IF dirty THEN "Modified" ELSE "Shared",
                                    backed |-> dirty \/ op[p].kind = "read" \/ op[p].update]]
        /\ tree' = tree \union {n}
        /\ IF op[p].kind = "write"
           THEN /\ behind' = IF op[p].gen <= l0[n].gen THEN behind \union {n} ELSE behind \ {n}
                /\ owed' = [owed EXCEPT ![n] = IF dirty THEN op[p].doc ELSE NoDoc]
           ELSE UNCHANGED <<behind, owed>>
  /\ To(p, "hook")
  /\ UNCHANGED <<versions, l0, bounds, raced, unhooked>>

AfterHook(p) == IF op[p].kind = "read" THEN To(p, "finish") ELSE Done(p)

Hook(p) ==
  /\ op[p].at = "hook"
  /\ IF op[p].doc.critical THEN Flush(Node(p)) ELSE UNCHANGED <<l2, l0>>
  /\ AfterHook(p)
  /\ UNCHANGED <<versions, tree, bounds, history>>

HookFails(p) ==
  /\ op[p].at = "hook" /\ op[p].doc.critical /\ failures < MaxFailures
  /\ failures' = failures + 1
  /\ unhooked' = unhooked \union {Node(p)}
  /\ AfterHook(p)
  /\ UNCHANGED <<tiers, docs, calls, restarts, raced, behind, owed>>

(***************************************************************************)
(* on_l2_read, for every node of a context request: a line that is Invalid *)
(* or has a smaller generation than the L0 entry is reloaded, dirty or     *)
(* not.  The entry is read in a step of its own.  write_node_from_l0 sets  *)
(* the generation back, writes, and then marks whatever line there is as   *)
(* the clean copy of the entry.                                            *)
(***************************************************************************)
Stale(n) == Cached(n) /\ (l2[n].state = "Invalid" \/ l0[n].gen > l2[n].gen)
BeginRead(p, n) ==
  /\ Stale(n)
  /\ Start(p, "read", "fetch", {n}, NoDoc)
  /\ UNCHANGED <<tiers, docs, failures, restarts, behind, owed, unhooked>>

Fetch(p) ==
  /\ op[p].at = "fetch"
  /\ LET n == Node(p)
     IN IF l0[n] = NoEntry
        THEN Done(p) /\ UNCHANGED versions
        ELSE /\ versions' = [versions EXCEPT ![n] = l0[n].gen - 1]
             /\ op' = [op EXCEPT ![p].doc = l0[n].doc, ![p].canon = l0[n].gen, ![p].at = "draw"]
  /\ UNCHANGED <<l2, tree, l0, bounds, history>>

\* Mutant: the reloaded line stays a modified one.
FinishDirty(p) ==
  /\ op[p].at = "finish"
  /\ Done(p)
  /\ UNCHANGED <<tiers, bounds, history>>
Finish(p) ==
  /\ op[p].at = "finish"
  /\ LET n == Node(p)
     IN l2' = IF Cached(n) THEN [l2 EXCEPT ![n].gen = op[p].canon, ![n].dirty = FALSE, ![n].state = "Shared"]
              ELSE l2
  /\ Done(p)
  /\ UNCHANGED <<versions, tree, l0, bounds, history>>

(***************************************************************************)
(* Lines leave L2: evict_stale_l2_line looks at the dirty flag and then    *)
(* deletes the node; the workspace monitor deletes nodes outright.         *)
(***************************************************************************)
BeginEvict(p, n) ==
  /\ Cached(n) /\ ~l2[n].dirty
  /\ Start(p, "evict", "remove", {n}, NoDoc)
  /\ UNCHANGED <<tiers, docs, failures, restarts, behind, owed, unhooked>>

BeginDelete(p, n) ==
  /\ Cached(n)
  /\ Start(p, "delete", "remove", {n}, NoDoc)
  /\ owed' = [owed EXCEPT ![n] = NoDoc]
  /\ UNCHANGED <<tiers, docs, failures, restarts, behind, unhooked>>

Deleted(n) ==
  /\ l2' = [l2 EXCEPT ![n] = NoLine]
  /\ versions' = IF Cached(n) THEN [versions EXCEPT ![n] = @ + 1] ELSE versions
Remove(p) ==
  /\ op[p].at = "remove"
  /\ Deleted(Node(p))
  /\ Done(p)
  /\ UNCHANGED <<tree, l0, bounds, history>>

(***************************************************************************)
(* on_task_complete: the dirty lines are collected and flushed one by one; *)
(* an error ends the call, else the subtree is released line by line.      *)
(***************************************************************************)
BeginComplete(p) ==
  /\ tree # {} /\ op[p].at = "idle" /\ calls < MaxCalls
  /\ calls' = calls + 1
  /\ op' = [op EXCEPT ![p] = [Idle EXCEPT !.kind = "complete", !.at = "flush", !.nodes = Nodes,
                                          !.rest = {n \in Nodes: l2[n].dirty}]]
  /\ raced' = raced \union {n \in Nodes: ~Untouched(n)}
  /\ UNCHANGED <<tiers, docs, failures, restarts, behind, owed, unhooked>>

FlushOne(p, n) ==
  /\ op[p].at = "flush" /\ n \in op[p].rest
  /\ Flush(n)
  /\ op' = [op EXCEPT ![p].rest = @ \ {n}]
  /\ UNCHANGED <<versions, tree, bounds, history>>

\* Mutant: a failed flush does not keep the subtree from its release.
FlushErrorIgnored(p) ==
  /\ op[p].at = "flush" /\ op[p].rest # {} /\ failures < MaxFailures
  /\ failures' = failures + 1
  /\ op' = [op EXCEPT ![p].rest = tree, ![p].at = "release"]
  /\ UNCHANGED <<tiers, docs, calls, restarts, history>>
FlushFails(p) ==
  /\ op[p].at = "flush" /\ op[p].rest # {} /\ failures < MaxFailures
  /\ failures' = failures + 1
  /\ Done(p)
  /\ UNCHANGED <<tiers, docs, calls, restarts, history>>

Gather(p) ==
  /\ op[p].at = "flush" /\ op[p].rest = {}
  /\ op' = [op EXCEPT ![p].rest = tree, ![p].at = "release"]
  /\ UNCHANGED <<tiers, bounds, history>>

ReleaseOne(p, n) ==
  /\ op[p].at = "release" /\ n \in op[p].rest
  /\ Deleted(n)
  /\ op' = [op EXCEPT ![p].rest = @ \ {n}]
  /\ UNCHANGED <<tree, l0, bounds, history>>

Released(p) ==
  /\ op[p].at = "release" /\ op[p].rest = {}
  /\ tree' = {}
  /\ Done(p)
  /\ UNCHANGED <<versions, l2, l0, bounds, history>>

(***************************************************************************)
(* L0 is also written directly, with notice to the consistency engine      *)
(* (archive_to_l0, then on_l0_update) or without (store of MemoryManager). *)
(***************************************************************************)
Store(p, n, notice) ==
  /\ docs < MaxDocs
  /\ docs' = docs + 1
  /\ LET doc == [id |-> docs + 1, durable |-> TRUE, critical |-> FALSE]
     IN /\ Start(p, "store", IF notice THEN "notify" ELSE "stored", {n}, doc)
        /\ l0' = [l0 EXCEPT ![n] = [doc |-> doc, gen |-> L0Generation(n, doc, 0)]]
        /\ owed' = [owed EXCEPT ![n] = IF l2[n].dirty THEN NoDoc ELSE doc]
  /\ UNCHANGED <<versions, l2, tree, failures, restarts, behind, unhooked>>

\* Mutant: the generations are not compared.
InvalidateAlways(n) == Cached(n)
Older(n) == Cached(n) /\ l2[n].gen < l0[n].gen
Notify(p) ==
  /\ op[p].at = "notify"
  /\ l2' = IF Older(Node(p)) THEN [l2 EXCEPT ![Node(p)].state = "Invalid"] ELSE l2
  /\ Done(p)
  /\ UNCHANGED <<versions, tree, l0, bounds, history>>

Stored(p) == op[p].at = "stored" /\ Done(p) /\ UNCHANGED <<tiers, bounds, history>>

\* The process stops and starts again: only L0 is durable.
Restart ==
  /\ restarts < MaxRestarts
  /\ restarts' = restarts + 1
  /\ versions' = [n \in Nodes |-> 0] /\ l2' = [n \in Nodes |-> NoLine] /\ tree' = {}
  /\ op' = [p \in Procs |-> Idle]
  /\ raced' = {} /\ behind' = {} /\ unhooked' = {}
  /\ owed' = [n \in Nodes |-> l0[n].doc]
  /\ UNCHANGED <<l0, docs, calls, failures>>

Call(p) ==
  \/ \E n \in Nodes:
       \/ \E durable, critical \in BOOLEAN: BeginWrite(p, n, durable, critical)
       \/ BeginRead(p, n) \/ BeginEvict(p, n) \/ BeginDelete(p, n)
       \/ \E notice \in BOOLEAN: Store(p, n, notice)
  \/ BeginComplete(p)

Step(p) ==
  \/ Draw(p) \/ EnqueueFails(p) \/ Look(p) \/ Put(p) \/ Hook(p) \/ HookFails(p)
  \/ Fetch(p) \/ Finish(p) \/ Remove(p)
  \/ (\E n \in Nodes: FlushOne(p, n)) \/ FlushFails(p) \/ Gather(p)
  \/ (\E n \in Nodes: ReleaseOne(p, n)) \/ Released(p)
  \/ Notify(p) \/ Stored(p)

Next == (\E p \in Procs: Call(p) \/ Step(p)) \/ Restart
Spec == Init /\ [][Next]_vars

(***************************************************************************)
(* Properties.                                                             *)
(***************************************************************************)
TypeOK ==
  /\ versions \in [Nodes -> Nat]
  /\ l2 \in [Nodes -> Line] /\ tree \subseteq Nodes
  /\ l0 \in [Nodes -> [doc : Doc, gen : Nat \ {0}] \union {NoEntry}]
  /\ op \in [Procs -> [kind : {"none", "write", "read", "evict", "delete", "complete", "store"},
                       at : {"idle", "draw", "look", "put", "hook", "fetch", "finish", "remove",
                             "flush", "release", "notify", "stored"},
                       nodes : SUBSET Nodes, rest : SUBSET Nodes, doc : Doc \union {NoDoc},
                       gen : Nat, canon : Nat, update : BOOLEAN]]
  /\ docs \in 0..MaxDocs /\ calls \in 0..MaxCalls
  /\ failures \in 0..MaxFailures /\ restarts \in 0..MaxRestarts
  /\ raced \subseteq Nodes /\ behind \subseteq Nodes /\ unhooked \subseteq Nodes
  /\ owed \in [Nodes -> Doc \union {NoDoc}]

\* The newest document written to L2 that is durable or an update, or written to L0
\* over a clean line, is in one of the two tiers whenever no call works on its node,
\* through flushes, failures, evictions, reloads, releases and restarts: unless it
\* was deleted, calls for the node overlapped, or it was written to L2 with a
\* generation that L0 had reached.
DurableKept ==
  \A n \in Nodes: Untouched(n) /\ n \notin raced \union behind =>
    owed[n] \in {NoDoc, l2[n].doc, l0[n].doc}

\* What may be dropped without a flush is worth nothing: a clean line that was
\* dirty once or came from L0 is in L0, or L0 is newer.
CleanIsBacked ==
  \A n \in Nodes: Untouched(n) /\ n \notin raced /\ ~l2[n].dirty /\ l2[n].backed =>
    l0[n].doc = l2[n].doc \/ l0[n].gen > l2[n].gen

\* A critical document is in L0 from the moment its write returned, so a restart
\* cannot lose it, unless the error of its write hook was ignored or the node raced.
CriticalInL0 ==
  \A n \in Nodes: Untouched(n) /\ n \notin raced \union unhooked /\ owed[n].critical =>
    l0[n].doc = owed[n]

\* Eviction, flush, hook and release lose no document that L2 owed to L0.
NothingLost == DurableKept /\ CleanIsBacked /\ CriticalInL0

\* Only a line older than L0's entry is ever Invalid: the reload it forces never
\* replaces a line by what it already was, whatever runs concurrently.
InvalidMeansOlder == \A n \in Nodes: l2[n].state = "Invalid" => l0[n].gen > l2[n].gen

\* A reload that did not race leaves the clean, valid copy of the L0 entry.
ReloadRepairs ==
  [][\A p \in Procs: op[p].at = "finish" /\ op'[p].at = "idle" /\ restarts' = restarts =>
       \A n \in op[p].nodes \ raced:
         /\ l2'[n].doc = l0[n].doc /\ l2'[n].gen = l0[n].gen
         /\ ~l2'[n].dirty /\ l2'[n].state = "Shared"]_vars
=============================================================================
