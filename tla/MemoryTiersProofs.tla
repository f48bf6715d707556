-------------------------- MODULE MemoryTiersProofs --------------------------
(***************************************************************************)
(* Theorems about MemoryTiers, for any processes, nodes and bounds: the    *)
(* types of its variables; a line of L2 is only invalid when L0 has a      *)
(* newer generation; no document is lost between the tiers; and a reload   *)
(* leaves the copy of the L0 entry.                                        *)
(***************************************************************************)
EXTENDS MemoryTiers, TLAPS

(***************************************************************************)
(* The invariant.  Beyond the types, a call that works on one node has     *)
(* one, and a call that is going to write a line has a document.           *)
(***************************************************************************)
Kinds == {"none", "write", "read", "evict", "delete", "complete", "store"}
Places == {"idle", "draw", "look", "put", "hook", "fetch", "finish", "remove",
           "flush", "release", "notify", "stored"}
Call0 == [kind : Kinds, at : Places, nodes : SUBSET Nodes, rest : SUBSET Nodes,
          doc : Doc \union {NoDoc}, gen : Nat, canon : Nat, update : BOOLEAN]

CallSound(o) ==
  /\ o.at \in {"draw", "look", "put", "hook", "fetch", "finish", "remove", "notify", "stored"}
       => o.nodes # {}
  /\ o.at \in {"draw", "look", "put"} => o.doc \in Doc

CallsSound == \A p \in Procs : CallSound(op[p])
Inv == TypeOK /\ CallsSound

\* The node of a call that works on one.
LEMMA NodeOfCall ==
  ASSUME Inv, NEW p \in Procs,
         op[p].at \in {"draw", "look", "put", "hook", "fetch", "finish", "remove", "notify", "stored"}
  PROVE  Node(p) \in op[p].nodes /\ Node(p) \in Nodes
  <1>1. op[p].nodes # {} /\ op[p].nodes \subseteq Nodes
    BY DEF Inv, CallsSound, CallSound, TypeOK
  <1>2. Node(p) \in op[p].nodes
    BY <1>1 DEF Node
  <1> QED
    BY <1>1, <1>2

\* What Flush and Store write: a generation that is positive and not below the old.
LEMMA GenerationGrows ==
  ASSUME TypeOK, NEW n \in Nodes, NEW doc, NEW requested \in Nat
  PROVE  /\ L0Generation(n, doc, requested) \in Nat \ {0}
         /\ L0Generation(n, doc, requested) >= l0[n].gen
  <1>1. l0[n].gen \in Nat
    BY DEF TypeOK, NoEntry
  <1> QED
    BY <1>1 DEF L0Generation, Max2

\* A cached line is a full one.
LEMMA CachedLine ==
  ASSUME TypeOK, NEW n \in Nodes, Cached(n)
  PROVE  l2[n] \in [doc : Doc, gen : Nat, dirty : BOOLEAN,
                    state : {"Modified", "Shared", "Invalid"}, backed : BOOLEAN]
  BY DEF TypeOK, Line, Cached

\* Flushing keeps both tiers typed.
LEMMA FlushTyped ==
  ASSUME Inv, NEW n \in Nodes, Flush(n)
  PROVE  /\ l2' \in [Nodes -> Line]
         /\ l0' \in [Nodes -> [doc : Doc, gen : Nat \ {0}] \union {NoEntry}]
  <1>1. CASE Cached(n)
    <2>1. l2[n] \in [doc : Doc, gen : Nat, dirty : BOOLEAN,
                     state : {"Modified", "Shared", "Invalid"}, backed : BOOLEAN]
      BY <1>1, CachedLine DEF Inv
    <2>2. PICK g : g = L0Generation(n, l2[n].doc, l2[n].gen)
      OBVIOUS
    <2>3. g \in Nat \ {0}
      BY <2>1, <2>2, GenerationGrows DEF Inv
    <2>4. l0' = [l0 EXCEPT ![n] = [doc |-> l2[n].doc, gen |-> g]]
      BY <1>1, <2>2 DEF Flush
    <2>5. l0' \in [Nodes -> [doc : Doc, gen : Nat \ {0}] \union {NoEntry}]
      BY <2>1, <2>3, <2>4 DEF Inv, TypeOK
    <2>6. l2' = [l2 EXCEPT ![n].dirty = FALSE, ![n].state = "Shared"]
      BY <1>1 DEF Flush
    <2>7. l2' \in [Nodes -> Line]
      BY <2>1, <2>6 DEF Inv, TypeOK, Line
    <2> QED
      BY <2>5, <2>7
  <1>2. CASE ~Cached(n)
    BY <1>2 DEF Flush, Inv, TypeOK
  <1> QED
    BY <1>1, <1>2

\* Starting a call keeps the calls typed and sound.
LEMMA StartTyped ==
  ASSUME Inv, NEW p \in Procs, NEW kind \in Kinds, NEW at \in Places,
         NEW nodes \in SUBSET Nodes, NEW doc \in Doc \union {NoDoc},
         Start(p, kind, at, nodes, doc),
         nodes # {}, at \in {"draw", "look", "put"} => doc \in Doc
  PROVE  /\ op' \in [Procs -> Call0]
         /\ calls' \in 0..MaxCalls /\ raced' \subseteq Nodes
         /\ \A q \in Procs : CallSound(op'[q])
  <1>1. PICK o : o = [Idle EXCEPT !.kind = kind, !.at = at, !.nodes = nodes, !.rest = nodes,
                                  !.doc = doc]
    OBVIOUS
  <1>2. /\ op' = [op EXCEPT ![p] = o]
        /\ o \in Call0 /\ o.at = at /\ o.nodes = nodes /\ o.doc = doc
    BY <1>1 DEF Start, Idle, Call0
  <1>3. op \in [Procs -> Call0]
    BY DEF Inv, TypeOK, Call0, Kinds, Places
  <1>4. op' \in [Procs -> Call0]
    BY <1>2, <1>3 DEF Call0
  <1>5. \A q \in Procs : CallSound(op'[q])
    BY <1>2, <1>3 DEF CallSound, Inv, CallsSound
  <1>6. calls' \in 0..MaxCalls /\ raced' \subseteq Nodes
    BY MemoryTiersAssumption DEF Start, Inv, TypeOK
  <1> QED
    BY <1>4, <1>5, <1>6

\* Moving a call on, and ending it.
LEMMA ToTyped ==
  ASSUME Inv, NEW p \in Procs, NEW at \in Places, To(p, at),
         at \in {"draw", "look", "put", "hook", "fetch", "finish", "remove", "notify", "stored"}
           => op[p].nodes # {},
         at \in {"draw", "look", "put"} => op[p].doc \in Doc
  PROVE  op' \in [Procs -> Call0] /\ \A q \in Procs : CallSound(op'[q])
  <1>1. op \in [Procs -> Call0]
    BY DEF Inv, TypeOK, Call0, Kinds, Places
  <1> QED
    BY <1>1 DEF To, Call0, CallSound, Inv, CallsSound

\* A call that ends is idle.
LEMMA DoneTyped ==
  ASSUME Inv, NEW p \in Procs, Done(p)
  PROVE  op' \in [Procs -> Call0] /\ \A q \in Procs : CallSound(op'[q])
  <1>1. op \in [Procs -> Call0]
    BY DEF Inv, TypeOK, Call0, Kinds, Places
  <1>2. Idle \in Call0 /\ Idle.at = "idle"
    BY DEF Idle, Call0, Kinds, Places, NoDoc
  <1> QED
    BY <1>1, <1>2 DEF Done, CallSound, Inv, CallsSound

Durable0 == [Nodes -> [doc : Doc, gen : Nat \ {0}] \union {NoEntry}]

\* The parts of the invariant in the next state, as the steps below establish them.
LEMMA Assemble ==
  ASSUME versions' \in [Nodes -> Nat], l2' \in [Nodes -> Line], tree' \subseteq Nodes,
         l0' \in Durable0,
         op' \in [Procs -> Call0], \A q \in Procs : CallSound(op'[q]),
         docs' \in 0..MaxDocs, calls' \in 0..MaxCalls, failures' \in 0..MaxFailures,
         restarts' \in 0..MaxRestarts,
         raced' \subseteq Nodes, behind' \subseteq Nodes, unhooked' \subseteq Nodes,
         owed' \in [Nodes -> Doc \union {NoDoc}]
  PROVE  Inv'
  BY DEF Inv, TypeOK, CallsSound, Durable0, Call0, Kinds, Places

\* The parts of the invariant, by name.
LEMMA Parts ==
  ASSUME Inv
  PROVE  /\ versions \in [Nodes -> Nat] /\ l2 \in [Nodes -> Line] /\ tree \subseteq Nodes
         /\ l0 \in Durable0
         /\ op \in [Procs -> Call0] /\ \A q \in Procs : CallSound(op[q])
         /\ docs \in 0..MaxDocs /\ calls \in 0..MaxCalls /\ failures \in 0..MaxFailures
         /\ restarts \in 0..MaxRestarts
         /\ raced \subseteq Nodes /\ behind \subseteq Nodes /\ unhooked \subseteq Nodes
         /\ owed \in [Nodes -> Doc \union {NoDoc}]
  BY DEF Inv, TypeOK, CallsSound, Durable0, Call0, Kinds, Places

\* The invariant holds at first.
LEMMA InitInv == Init => Inv
  <1> SUFFICES ASSUME Init PROVE Inv
    OBVIOUS
  <1>1. Idle \in Call0 /\ Idle.at = "idle"
    BY DEF Idle, Call0, Kinds, Places, NoDoc
  <1>2. TypeOK
    BY <1>1, MemoryTiersAssumption, SMTT(60)
    DEF Init, TypeOK, Call0, Kinds, Places, Line, NoLine, NoEntry
  <1>3. CallsSound
    BY <1>1 DEF Init, CallsSound, CallSound
  <1> QED
    BY <1>2, <1>3 DEF Inv

\* The calls that begin.
LEMMA CallKeepsInv ==
  ASSUME Inv, NEW p \in Procs, Call(p)
  PROVE  Inv'
  <1> USE MemoryTiersAssumption
  <1>1. ASSUME NEW n \in Nodes, NEW durable \in BOOLEAN, NEW critical \in BOOLEAN,
               BeginWrite(p, n, durable, critical)
        PROVE  Inv'
    <2>1. PICK doc : doc = [id |-> docs + 1, durable |-> durable, critical |-> critical]
      OBVIOUS
    <2>2. doc \in Doc /\ docs' \in 0..MaxDocs
      BY <1>1, <2>1, Parts DEF BeginWrite, Doc
    <2>3. Start(p, "write", "draw", {n}, doc)
      BY <1>1, <2>1 DEF BeginWrite
    <2>4. /\ op' \in [Procs -> Call0] /\ \A q \in Procs : CallSound(op'[q])
          /\ calls' \in 0..MaxCalls /\ raced' \subseteq Nodes
      BY <2>2, <2>3, StartTyped DEF Kinds, Places
    <2> QED
      BY <1>1, <2>2, <2>4, Parts, Assemble DEF BeginWrite, tiers
  <1>2. ASSUME NEW n \in Nodes, BeginRead(p, n) PROVE Inv'
    <2>1. Start(p, "read", "fetch", {n}, NoDoc)
      BY <1>2 DEF BeginRead
    <2>2. /\ op' \in [Procs -> Call0] /\ \A q \in Procs : CallSound(op'[q])
          /\ calls' \in 0..MaxCalls /\ raced' \subseteq Nodes
      BY <2>1, StartTyped DEF Kinds, Places
    <2> QED
      BY <1>2, <2>2, Parts, Assemble DEF BeginRead, tiers
  <1>3. ASSUME NEW n \in Nodes, BeginEvict(p, n) PROVE Inv'
    <2>1. Start(p, "evict", "remove", {n}, NoDoc)
      BY <1>3 DEF BeginEvict
    <2>2. /\ op' \in [Procs -> Call0] /\ \A q \in Procs : CallSound(op'[q])
          /\ calls' \in 0..MaxCalls /\ raced' \subseteq Nodes
      BY <2>1, StartTyped DEF Kinds, Places
    <2> QED
      BY <1>3, <2>2, Parts, Assemble DEF BeginEvict, tiers
  <1>4. ASSUME NEW n \in Nodes, BeginDelete(p, n) PROVE Inv'
    <2>1. Start(p, "delete", "remove", {n}, NoDoc)
      BY <1>4 DEF BeginDelete
    <2>2. /\ op' \in [Procs -> Call0] /\ \A q \in Procs : CallSound(op'[q])
          /\ calls' \in 0..MaxCalls /\ raced' \subseteq Nodes
      BY <2>1, StartTyped DEF Kinds, Places
    <2>3. owed' \in [Nodes -> Doc \union {NoDoc}]
      BY <1>4, Parts DEF BeginDelete
    <2> QED
      BY <1>4, <2>2, <2>3, Parts, Assemble DEF BeginDelete, tiers
  <1>5. ASSUME NEW n \in Nodes, NEW notice \in BOOLEAN, Store(p, n, notice) PROVE Inv'
    <2>1. PICK doc : doc = [id |-> docs + 1, durable |-> TRUE, critical |-> FALSE]
      OBVIOUS
    <2>2. doc \in Doc /\ docs' \in 0..MaxDocs
      BY <1>5, <2>1, Parts DEF Store, Doc
    <2>3. PICK at : at = IF notice THEN "notify" ELSE "stored"
      OBVIOUS
    <2>4. Start(p, "store", at, {n}, doc)
      BY <1>5, <2>1, <2>3 DEF Store
    <2>5. /\ op' \in [Procs -> Call0] /\ \A q \in Procs : CallSound(op'[q])
          /\ calls' \in 0..MaxCalls /\ raced' \subseteq Nodes
      BY <2>2, <2>3, <2>4, StartTyped DEF Kinds, Places
    <2>6. PICK g : g = L0Generation(n, doc, 0)
      OBVIOUS
    <2>7. g \in Nat \ {0}
      BY <2>6, GenerationGrows DEF Inv
    <2>8. l0' = [l0 EXCEPT ![n] = [doc |-> doc, gen |-> g]]
      BY <1>5, <2>1, <2>6 DEF Store
    <2>9. l0' \in Durable0
      BY <2>2, <2>7, <2>8, Parts DEF Durable0
    <2>10. owed' \in [Nodes -> Doc \union {NoDoc}]
      BY <1>5, <2>1, <2>2, Parts DEF Store
    <2> QED
      BY <1>5, <2>2, <2>5, <2>9, <2>10, Parts, Assemble DEF Store
  <1>6. CASE BeginComplete(p)
    <2>1. PICK o : o = [Idle EXCEPT !.kind = "complete", !.at = "flush", !.nodes = Nodes,
                                    !.rest = {n \in Nodes: l2[n].dirty}]
      OBVIOUS
    <2>2. op' = [op EXCEPT ![p] = o] /\ o \in Call0 /\ o.at = "flush"
      BY <1>6, <2>1 DEF BeginComplete, Idle, Call0, Kinds, Places
    <2>3. op' \in [Procs -> Call0] /\ \A q \in Procs : CallSound(op'[q])
      BY <2>2, Parts DEF CallSound
    <2>4. calls' \in 0..MaxCalls /\ raced' \subseteq Nodes
      BY <1>6, Parts DEF BeginComplete
    <2> QED
      BY <1>6, <2>3, <2>4, Parts, Assemble DEF BeginComplete, tiers
  <1> QED
    BY <1>1, <1>2, <1>3, <1>4, <1>5, <1>6 DEF Call

\* A call replaced by a sound one.
LEMMA Replaced ==
  ASSUME Inv, NEW p \in Procs, NEW o \in Call0, CallSound(o), op' = [op EXCEPT ![p] = o]
  PROVE  op' \in [Procs -> Call0] /\ \A q \in Procs : CallSound(op'[q])
  BY Parts

\* The steps of a write, which are also those of a reload.
LEMMA WriteKeepsInv ==
  ASSUME Inv, NEW p \in Procs,
         Draw(p) \/ EnqueueFails(p) \/ Look(p) \/ Put(p) \/ Hook(p) \/ HookFails(p)
  PROVE  Inv'
  <1> USE MemoryTiersAssumption
  <1>1. CASE Draw(p)
    <2>1. Node(p) \in Nodes /\ op[p].nodes # {} /\ op[p].doc \in Doc
      BY <1>1, NodeOfCall DEF Draw, Inv, CallsSound, CallSound
    <2>2. PICK g \in Nat : g = versions[Node(p)] + 1
      BY <2>1, Parts
    <2>3. PICK o : o = [op[p] EXCEPT !.gen = g, !.at = "look"]
      OBVIOUS
    <2>4. op' \in [Procs -> Call0] /\ \A q \in Procs : CallSound(op'[q])
      <3>1. op' = [op EXCEPT ![p] = o]
        BY <1>1, <2>2, <2>3, Parts DEF Draw
      <3>2. o \in Call0 /\ CallSound(o)
        BY <2>1, <2>2, <2>3, Parts DEF Call0, Places, CallSound
      <3> QED
        BY <3>1, <3>2, Replaced
    <2>5. versions' \in [Nodes -> Nat]
      BY <1>1, <2>1, Parts DEF Draw
    <2> QED
      BY <1>1, <2>4, <2>5, Parts, Assemble DEF Draw, bounds, history
  <1>2. CASE EnqueueFails(p)
    <2>1. op' \in [Procs -> Call0] /\ \A q \in Procs : CallSound(op'[q])
      BY <1>2, DoneTyped DEF EnqueueFails
    <2>2. Node(p) \in Nodes
      BY <1>2, NodeOfCall DEF EnqueueFails
    <2>3. versions' \in [Nodes -> Nat] /\ failures' \in 0..MaxFailures
      BY <1>2, <2>2, Parts DEF EnqueueFails
    <2> QED
      BY <1>2, <2>1, <2>3, Parts, Assemble DEF EnqueueFails, history
  <1>3. CASE Look(p)
    <2>1. op[p].nodes # {} /\ op[p].doc \in Doc
      BY <1>3 DEF Look, Inv, CallsSound, CallSound
    <2>2. PICK u \in BOOLEAN : u = Cached(Node(p))
      BY DEF Cached
    <2>3. PICK o : o = [op[p] EXCEPT !.update = u, !.at = "put"]
      OBVIOUS
    <2>4. op' \in [Procs -> Call0] /\ \A q \in Procs : CallSound(op'[q])
      <3>1. op' = [op EXCEPT ![p] = o]
        BY <1>3, <2>2, <2>3, Parts DEF Look
      <3>2. o \in Call0 /\ CallSound(o)
        BY <2>1, <2>2, <2>3, Parts DEF Call0, Places, CallSound
      <3> QED
        BY <3>1, <3>2, Replaced
    <2> QED
      BY <1>3, <2>4, Parts, Assemble DEF Look, tiers, bounds, history
  <1>4. CASE Put(p)
    <2>1. /\ Node(p) \in Nodes /\ op[p].nodes # {}
          /\ op[p].doc \in Doc /\ op[p].gen \in Nat /\ op[p].update \in BOOLEAN
      BY <1>4, NodeOfCall, Parts DEF Put, CallSound, Call0
    <2>2. op' \in [Procs -> Call0] /\ \A q \in Procs : CallSound(op'[q])
      BY <1>4, <2>1, ToTyped DEF Put, Places
    <2>3. PICK dirty \in BOOLEAN : dirty = DirtyAfter(op[p])
      BY <2>1 DEF DirtyAfter, Doc
    <2>4. PICK line : line = [doc |-> op[p].doc, gen |-> op[p].gen, dirty |-> dirty,
                              state |-> IF dirty THEN "Modified" ELSE "Shared",
                              backed |-> dirty \/ op[p].kind = "read" \/ op[p].update]
      OBVIOUS
    <2>5. l2' = [l2 EXCEPT ![Node(p)] = line]
      BY <1>4, <2>3, <2>4 DEF Put
    <2>6. (dirty \/ op[p].kind = "read" \/ op[p].update) \in BOOLEAN
      OBVIOUS
    <2>7. line \in Line
      BY <2>1, <2>4, <2>6 DEF Line
    <2>8. l2' \in [Nodes -> Line]
      BY <2>5, <2>7, Parts
    <2>9. owed' \in [Nodes -> Doc \union {NoDoc}] /\ behind' \subseteq Nodes /\ tree' \subseteq Nodes
      BY <1>4, <2>1, Parts DEF Put
    <2> QED
      BY <1>4, <2>2, <2>8, <2>9, Parts, Assemble DEF Put, bounds
  <1>5. CASE Hook(p)
    <2>1. Node(p) \in Nodes /\ op[p].nodes # {}
      BY <1>5, NodeOfCall DEF Hook, Inv, CallsSound, CallSound
    <2>2. op' \in [Procs -> Call0] /\ \A q \in Procs : CallSound(op'[q])
      BY <1>5, <2>1, ToTyped, DoneTyped DEF Hook, AfterHook, Places
    <2>3. l2' \in [Nodes -> Line] /\ l0' \in Durable0
      BY <1>5, <2>1, FlushTyped, Parts DEF Hook, Durable0
    <2> QED
      BY <1>5, <2>2, <2>3, Parts, Assemble DEF Hook, bounds, history
  <1>6. CASE HookFails(p)
    <2>1. Node(p) \in Nodes /\ op[p].nodes # {}
      BY <1>6, NodeOfCall DEF HookFails, Inv, CallsSound, CallSound
    <2>2. op' \in [Procs -> Call0] /\ \A q \in Procs : CallSound(op'[q])
      BY <1>6, <2>1, ToTyped, DoneTyped DEF HookFails, AfterHook, Places
    <2>3. failures' \in 0..MaxFailures /\ unhooked' \subseteq Nodes
      BY <1>6, <2>1, Parts DEF HookFails
    <2> QED
      BY <1>6, <2>2, <2>3, Parts, Assemble DEF HookFails, tiers
  <1> QED
    BY <1>1, <1>2, <1>3, <1>4, <1>5, <1>6

\* Taking a line out of L2 keeps L2 typed.
LEMMA DeletedTyped ==
  ASSUME Inv, NEW n \in Nodes, Deleted(n)
  PROVE  versions' \in [Nodes -> Nat] /\ l2' \in [Nodes -> Line]
  BY Parts DEF Deleted, Line

\* The other steps.
LEMMA StepKeepsInv ==
  ASSUME Inv, NEW p \in Procs, Step(p)
  PROVE  Inv'
  <1> USE MemoryTiersAssumption
  <1>1. CASE Fetch(p)
    <2>1. PICK n \in Nodes : n = Node(p) /\ op[p].nodes # {}
      BY <1>1, NodeOfCall DEF Fetch, Inv, CallsSound, CallSound
    <2>2. CASE l0[n] = NoEntry
      <3>1. op' \in [Procs -> Call0] /\ \A q \in Procs : CallSound(op'[q])
        BY <1>1, <2>1, <2>2, DoneTyped DEF Fetch
      <3> QED
        BY <1>1, <2>1, <2>2, <3>1, Parts, Assemble DEF Fetch, bounds, history
    <2>3. CASE l0[n] # NoEntry
      <3>1. l0[n].doc \in Doc /\ l0[n].gen \in Nat \ {0}
        BY <2>3, Parts DEF Durable0
      <3>2. PICK o : o = [op[p] EXCEPT !.doc = l0[n].doc, !.canon = l0[n].gen, !.at = "draw"]
        OBVIOUS
      <3>3. op' \in [Procs -> Call0] /\ \A q \in Procs : CallSound(op'[q])
        <4>1. op' = [op EXCEPT ![p] = o]
          BY <1>1, <2>1, <2>3, <3>2, Parts DEF Fetch
        <4>2. op[p] \in Call0 /\ op[p].nodes # {}
          BY <2>1, Parts
        <4>3. o \in Call0 /\ o.at = "draw"
          BY <3>1, <3>2, <4>2 DEF Call0, Places
        <4>4. o.nodes # {} /\ o.doc \in Doc
          BY <3>1, <3>2, <4>2 DEF Call0
        <4> QED
          BY <4>1, <4>3, <4>4, Replaced DEF CallSound
      <3>4. versions' \in [Nodes -> Nat]
        BY <1>1, <2>1, <2>3, <3>1, Parts DEF Fetch
      <3> QED
        BY <1>1, <3>3, <3>4, Parts, Assemble DEF Fetch, bounds, history
    <2> QED
      BY <2>2, <2>3
  <1>2. CASE Finish(p)
    <2>1. PICK n \in Nodes : n = Node(p)
      BY <1>2, NodeOfCall DEF Finish
    <2>2. op' \in [Procs -> Call0] /\ \A q \in Procs : CallSound(op'[q])
      BY <1>2, DoneTyped DEF Finish
    <2>3. op[p].canon \in Nat
      BY Parts DEF Call0
    <2>4. l2' \in [Nodes -> Line]
      <3>1. CASE Cached(n)
        <4>1. l2[n] \in [doc : Doc, gen : Nat, dirty : BOOLEAN,
                          state : {"Modified", "Shared", "Invalid"}, backed : BOOLEAN]
          BY <3>1, CachedLine DEF Inv
        <4>2. l2' = [l2 EXCEPT ![n].gen = op[p].canon, ![n].dirty = FALSE, ![n].state = "Shared"]
          BY <1>2, <2>1, <3>1 DEF Finish
        <4> QED
          BY <2>3, <4>1, <4>2, Parts DEF Line
      <3>2. CASE ~Cached(n)
        BY <1>2, <2>1, <3>2, Parts DEF Finish
      <3> QED
        BY <3>1, <3>2
    <2> QED
      BY <1>2, <2>2, <2>4, Parts, Assemble DEF Finish, bounds, history
  <1>3. CASE Remove(p)
    <2>1. Node(p) \in Nodes
      BY <1>3, NodeOfCall DEF Remove
    <2>2. op' \in [Procs -> Call0] /\ \A q \in Procs : CallSound(op'[q])
      BY <1>3, DoneTyped DEF Remove
    <2>3. versions' \in [Nodes -> Nat] /\ l2' \in [Nodes -> Line]
      BY <1>3, <2>1, DeletedTyped DEF Remove
    <2> QED
      BY <1>3, <2>2, <2>3, Parts, Assemble DEF Remove, bounds, history
  <1>4. ASSUME NEW n \in Nodes, FlushOne(p, n) PROVE Inv'
    <2>1. op' = [op EXCEPT ![p].rest = @ \ {n}] /\ op[p].at = "flush"
      BY <1>4 DEF FlushOne
    <2>2. op' \in [Procs -> Call0] /\ \A q \in Procs : CallSound(op'[q])
      BY <2>1, Parts DEF Call0, CallSound
    <2>3. l2' \in [Nodes -> Line] /\ l0' \in Durable0
      BY <1>4, FlushTyped DEF FlushOne, Durable0
    <2> QED
      BY <1>4, <2>2, <2>3, Parts, Assemble DEF FlushOne, bounds, history
  <1>5. CASE FlushFails(p)
    <2>1. op' \in [Procs -> Call0] /\ \A q \in Procs : CallSound(op'[q])
      BY <1>5, DoneTyped DEF FlushFails
    <2>2. failures' \in 0..MaxFailures
      BY <1>5, Parts DEF FlushFails
    <2> QED
      BY <1>5, <2>1, <2>2, Parts, Assemble DEF FlushFails, tiers, history
  <1>6. CASE Gather(p)
    <2>1. PICK o : o = [op[p] EXCEPT !.rest = tree, !.at = "release"]
      OBVIOUS
    <2>2. op' \in [Procs -> Call0] /\ \A q \in Procs : CallSound(op'[q])
      <3>1. op' = [op EXCEPT ![p] = o]
        BY <1>6, <2>1, Parts DEF Gather
      <3>2. o \in Call0 /\ CallSound(o)
        BY <2>1, Parts DEF Call0, Places, CallSound
      <3> QED
        BY <3>1, <3>2, Replaced
    <2> QED
      BY <1>6, <2>2, Parts, Assemble DEF Gather, tiers, bounds, history
  <1>7. ASSUME NEW n \in Nodes, ReleaseOne(p, n) PROVE Inv'
    <2>1. op' = [op EXCEPT ![p].rest = @ \ {n}] /\ op[p].at = "release"
      BY <1>7 DEF ReleaseOne
    <2>2. op' \in [Procs -> Call0] /\ \A q \in Procs : CallSound(op'[q])
      BY <2>1, Parts DEF Call0, CallSound
    <2>3. versions' \in [Nodes -> Nat] /\ l2' \in [Nodes -> Line]
      BY <1>7, DeletedTyped DEF ReleaseOne
    <2> QED
      BY <1>7, <2>2, <2>3, Parts, Assemble DEF ReleaseOne, bounds, history
  <1>8. CASE Released(p)
    <2>1. op' \in [Procs -> Call0] /\ \A q \in Procs : CallSound(op'[q])
      BY <1>8, DoneTyped DEF Released
    <2> QED
      BY <1>8, <2>1, Parts, Assemble DEF Released, bounds, history
  <1>9. CASE Notify(p)
    <2>1. PICK n \in Nodes : n = Node(p)
      BY <1>9, NodeOfCall DEF Notify
    <2>2. op' \in [Procs -> Call0] /\ \A q \in Procs : CallSound(op'[q])
      BY <1>9, DoneTyped DEF Notify
    <2>3. l2' \in [Nodes -> Line]
      <3>1. CASE Older(n)
        <4>1. l2[n] \in [doc : Doc, gen : Nat, dirty : BOOLEAN,
                          state : {"Modified", "Shared", "Invalid"}, backed : BOOLEAN]
          BY <3>1, CachedLine DEF Inv, Older
        <4>2. l2' = [l2 EXCEPT ![n].state = "Invalid"]
          BY <1>9, <2>1, <3>1 DEF Notify
        <4> QED
          BY <4>1, <4>2, Parts DEF Line
      <3>2. CASE ~Older(n)
        BY <1>9, <2>1, <3>2, Parts DEF Notify
      <3> QED
        BY <3>1, <3>2
    <2> QED
      BY <1>9, <2>2, <2>3, Parts, Assemble DEF Notify, bounds, history
  <1>10. CASE Stored(p)
    <2>1. op' \in [Procs -> Call0] /\ \A q \in Procs : CallSound(op'[q])
      BY <1>10, DoneTyped DEF Stored
    <2> QED
      BY <1>10, <2>1, Parts, Assemble DEF Stored, tiers, bounds, history
  <1> QED
    BY <1>1, <1>2, <1>3, <1>4, <1>5, <1>6, <1>7, <1>8, <1>9, <1>10, WriteKeepsInv DEF Step

\* Every step keeps the invariant.
LEMMA NextKeepsInv == Inv /\ [Next]_vars => Inv'
  <1> SUFFICES ASSUME Inv, [Next]_vars PROVE Inv'
    OBVIOUS
  <1> USE MemoryTiersAssumption
  <1>1. ASSUME NEW p \in Procs, Call(p) \/ Step(p) PROVE Inv'
    BY <1>1, CallKeepsInv, StepKeepsInv
  <1>2. CASE Restart
    <2>1. Idle \in Call0 /\ Idle.at = "idle"
      BY DEF Idle, Call0, Kinds, Places, NoDoc
    <2>2. op' \in [Procs -> Call0] /\ \A q \in Procs : CallSound(op'[q])
      BY <1>2, <2>1 DEF Restart, CallSound
    <2>3. versions' \in [Nodes -> Nat] /\ l2' \in [Nodes -> Line] /\ restarts' \in 0..MaxRestarts
      BY <1>2, Parts DEF Restart, Line
    <2>4. owed' \in [Nodes -> Doc \union {NoDoc}]
      BY <1>2, Parts DEF Restart, Durable0, NoEntry
    <2> QED
      BY <1>2, <2>2, <2>3, <2>4, Parts, Assemble DEF Restart
  <1>3. CASE UNCHANGED vars
    BY <1>3, Parts, Assemble DEF vars, tiers, bounds, history
  <1> QED
    BY <1>1, <1>2, <1>3 DEF Next

\* The variables of the tiers, the calls and the history keep their types, for any
\* number of processes and nodes and whatever fails or restarts.
THEOREM TypeCorrect == Spec => []TypeOK
  <1>1. Inv => TypeOK
    BY DEF Inv
  <1> QED
    BY InitInv, NextKeepsInv, <1>1, PTL DEF Spec

\* One step keeps InvalidMeansOlder.  L0's generation never falls; only Notify sets
\* Invalid, and it has compared; whatever sets another generation sets the state.
LEMMA NextKeepsOlder ==
  ASSUME Inv, InvalidMeansOlder, [Next]_vars
  PROVE  InvalidMeansOlder'
  <1> USE MemoryTiersAssumption
  <1>0. SUFFICES ASSUME NEW n \in Nodes, l2'[n].state = "Invalid"
                 PROVE  l0'[n].gen > l2'[n].gen
    BY DEF InvalidMeansOlder
  <1>1. /\ l2[n] \in Line /\ l0[n].gen \in Nat
        /\ l2[n].state = "Invalid" => l0[n].gen > l2[n].gen
    BY Parts DEF InvalidMeansOlder, Durable0, NoEntry
  <1>2. CASE l2' = l2 /\ l0' = l0
    BY <1>0, <1>1, <1>2
  <1>3. ASSUME NEW m \in Nodes, Flush(m) PROVE l0'[n].gen > l2'[n].gen
    <2>1. CASE ~Cached(m)
      BY <1>2, <1>3, <2>1 DEF Flush
    <2>2. CASE Cached(m)
      <3>1. PICK g : g = L0Generation(m, l2[m].doc, l2[m].gen)
        OBVIOUS
      <3>2. /\ l0' = [l0 EXCEPT ![m] = [doc |-> l2[m].doc, gen |-> g]]
            /\ l2' = [l2 EXCEPT ![m].dirty = FALSE, ![m].state = "Shared"]
        BY <1>3, <2>2, <3>1 DEF Flush
      <3>3. m # n
        <4>1. l2[m] \in [doc : Doc, gen : Nat, dirty : BOOLEAN,
                          state : {"Modified", "Shared", "Invalid"}, backed : BOOLEAN]
          BY <2>2, CachedLine DEF Inv
        <4> QED
          BY <1>0, <3>2, <4>1, Parts
      <3> QED
        BY <1>0, <1>1, <3>2, <3>3, Parts
    <2> QED
      BY <2>1, <2>2
  <1>4. ASSUME NEW m \in Nodes, Deleted(m), l0' = l0 PROVE l0'[n].gen > l2'[n].gen
    <2>1. m # n
      BY <1>0, <1>4, Parts DEF Deleted, NoLine
    <2> QED
      BY <1>0, <1>1, <1>4, <2>1, Parts DEF Deleted
  <1>5. ASSUME NEW p \in Procs, Put(p) PROVE l0'[n].gen > l2'[n].gen
    <2>1. PICK m \in Nodes : m = Node(p)
      BY <1>5, NodeOfCall DEF Put
    <2>2. m # n
      BY <1>0, <1>5, <2>1, Parts DEF Put
    <2> QED
      BY <1>0, <1>1, <1>5, <2>1, <2>2, Parts DEF Put
  <1>6. ASSUME NEW p \in Procs, Finish(p) PROVE l0'[n].gen > l2'[n].gen
    <2>1. PICK m \in Nodes : m = Node(p)
      BY <1>6, NodeOfCall DEF Finish
    <2>2. CASE ~Cached(m)
      BY <1>2, <1>6, <2>1, <2>2 DEF Finish
    <2>3. CASE Cached(m)
      <3>1. l2' = [l2 EXCEPT ![m].gen = op[p].canon, ![m].dirty = FALSE, ![m].state = "Shared"]
            /\ l0' = l0
        BY <1>6, <2>1, <2>3 DEF Finish
      <3>2. m # n
        BY <1>0, <2>3, <3>1, Parts, CachedLine DEF Inv
      <3> QED
        BY <1>0, <1>1, <3>1, <3>2, Parts
    <2> QED
      BY <2>2, <2>3
  <1>7. ASSUME NEW p \in Procs, NEW m \in Nodes, NEW notice \in BOOLEAN, Store(p, m, notice)
        PROVE  l0'[n].gen > l2'[n].gen
    <2>1. PICK doc : doc = [id |-> docs + 1, durable |-> TRUE, critical |-> FALSE]
      OBVIOUS
    <2>2. PICK g : g = L0Generation(m, doc, 0)
      OBVIOUS
    <2>3. g \in Nat /\ g >= l0[m].gen
      BY <2>2, GenerationGrows DEF Inv
    <2>4. l0' = [l0 EXCEPT ![m] = [doc |-> doc, gen |-> g]] /\ l2' = l2
      BY <1>7, <2>1, <2>2 DEF Store
    <2>5. l0'[n].gen \in Nat /\ l0'[n].gen >= l0[n].gen
      BY <1>1, <2>3, <2>4, Parts DEF Durable0
    <2>6. l2[n].gen \in Nat
      BY <1>1 DEF Line, NoLine
    <2> QED
      BY <1>0, <1>1, <2>4, <2>5, <2>6
  <1>8. ASSUME NEW p \in Procs, Notify(p) PROVE l0'[n].gen > l2'[n].gen
    <2>1. PICK m \in Nodes : m = Node(p)
      BY <1>8, NodeOfCall DEF Notify
    <2>2. CASE ~Older(m)
      BY <1>2, <1>8, <2>1, <2>2 DEF Notify
    <2>3. CASE Older(m)
      <3>1. l2' = [l2 EXCEPT ![m].state = "Invalid"] /\ l0' = l0
        BY <1>8, <2>1, <2>3 DEF Notify
      <3>2. CASE m = n
        <4>1. l0[n].gen > l2[n].gen
          BY <1>1, <2>3, <3>2 DEF Older, Line, NoLine
        <4>2. l2'[n].gen = l2[n].gen
          BY <3>1, <3>2, <2>3, CachedLine, Parts DEF Inv, Older
        <4> QED
          BY <3>1, <4>1, <4>2
      <3>3. CASE m # n
        BY <1>0, <1>1, <3>1, <3>3, Parts
      <3> QED
        BY <3>2, <3>3
    <2> QED
      BY <2>2, <2>3
  <1>9. ASSUME NEW p \in Procs, Call(p) PROVE l0'[n].gen > l2'[n].gen
    BY <1>2, <1>7, <1>9 DEF Call, BeginWrite, BeginRead, BeginEvict, BeginDelete, BeginComplete, tiers
  <1>10. ASSUME NEW p \in Procs, Step(p) PROVE l0'[n].gen > l2'[n].gen
    <2>1. CASE Hook(p)
      <3>1. PICK m \in Nodes : m = Node(p)
        BY <2>1, NodeOfCall DEF Hook
      <3> QED
        BY <1>2, <1>3, <2>1, <3>1 DEF Hook
    <2>2. CASE Remove(p)
      <3>1. PICK m \in Nodes : m = Node(p)
        BY <2>2, NodeOfCall DEF Remove
      <3> QED
        BY <1>4, <2>2, <3>1 DEF Remove
    <2>3. ASSUME NEW m \in Nodes, FlushOne(p, m) PROVE l0'[n].gen > l2'[n].gen
      BY <1>3, <2>3 DEF FlushOne
    <2>4. ASSUME NEW m \in Nodes, ReleaseOne(p, m) PROVE l0'[n].gen > l2'[n].gen
      BY <1>4, <2>4 DEF ReleaseOne
    <2>5. CASE Draw(p) \/ EnqueueFails(p) \/ Look(p) \/ HookFails(p) \/ Fetch(p) \/ FlushFails(p)
               \/ Gather(p) \/ Released(p) \/ Stored(p)
      BY <1>2, <2>5 DEF Draw, EnqueueFails, Look, HookFails, Fetch, FlushFails, Gather, Released,
                        Stored, tiers
    <2> QED
      BY <1>5, <1>6, <1>8, <1>10, <2>1, <2>2, <2>3, <2>4, <2>5 DEF Step
  <1>11. CASE Restart
    BY <1>0, <1>11 DEF Restart, NoLine
  <1>12. CASE UNCHANGED vars
    BY <1>2, <1>12 DEF vars, tiers
  <1> QED
    BY <1>9, <1>10, <1>11, <1>12 DEF Next

\* A line is invalid only while L0 has a newer generation, whatever writers, readers,
\* evictions, flushes and restarts do in between.
THEOREM InvalidIsOlder == Spec => []InvalidMeansOlder
  <1>1. Init => InvalidMeansOlder
    BY DEF Init, InvalidMeansOlder, NoLine
  <1>2. Inv /\ InvalidMeansOlder /\ [Next]_vars => InvalidMeansOlder'
    BY NextKeepsOlder
  <1> QED
    BY <1>1, <1>2, InitInv, NextKeepsInv, PTL DEF Spec

(***************************************************************************)
(* Nothing is lost.  The invariant is one of a node that has not raced: at *)
(* most one call works on it, so it is either settled or where that call   *)
(* has left it.                                                            *)
(***************************************************************************)
OneNode == {"draw", "look", "put", "hook", "fetch", "finish", "remove", "notify", "stored"}
KindsAt(at) ==
  CASE at \in {"draw", "look", "put", "hook"} -> {"write", "read"}
    [] at \in {"fetch", "finish"}             -> {"read"}
    [] at = "remove"                          -> {"evict", "delete"}
    [] at \in {"notify", "stored"}            -> {"store"}
    [] at \in {"flush", "release"}            -> {"complete"}
    [] OTHER                                  -> {"none"}

\* A call works on one node, or it completes the task and works on all.
CallShape(o) ==
  /\ o.kind \in KindsAt(o.at)
  /\ o.at \in OneNode => \E n \in Nodes : o.nodes = {n}
  /\ o.at \in {"flush", "release"} => o.nodes = Nodes
Shaped == \A p \in Procs : CallShape(op[p])

\* A document is known by its number, so a new one is nowhere yet.
Fresh ==
  /\ \A n \in Nodes : l2[n].doc.id <= docs /\ l0[n].doc.id <= docs
  /\ \A p \in Procs : op[p].doc.id <= docs

\* What is owed is in L0, or in a dirty line that L0 has not reached.
InL0(n) == owed[n] \in {NoDoc, l0[n].doc}
Owing(n) ==
  n \notin behind => InL0(n) \/ (owed[n] = l2[n].doc /\ l2[n].dirty /\ l0[n].gen < l2[n].gen)
Backed(n) ==
  ~l2[n].dirty /\ l2[n].backed =>
    (l0[n].doc = l2[n].doc /\ l0[n].gen >= l2[n].gen) \/ l0[n].gen > l2[n].gen
Critical(n) == n \notin unhooked /\ owed[n].critical => l0[n].doc = owed[n]
DirtyIsOwed(n) == l2[n].dirty => owed[n] \in {NoDoc, l2[n].doc}
Settled(n) == Owing(n) /\ Backed(n) /\ Critical(n) /\ DirtyIsOwed(n)

\* The steps of a reload after it read the entry.
Reloading(p, n) ==
  /\ n \notin behind => InL0(n)
  /\ Critical(n)
  /\ op[p].doc = l0[n].doc /\ op[p].canon = l0[n].gen /\ l0[n].gen > 0
  /\ op[p].at = "draw" => Settled(n) /\ versions[n] = op[p].canon - 1
  /\ op[p].at \in {"look", "put"} => Settled(n) /\ op[p].gen = op[p].canon
  /\ op[p].at \in {"hook", "finish"} =>
       Cached(n) /\ l2[n].doc = op[p].doc /\ l2[n].gen = op[p].canon

\* Where a call has left the node it works on.
Stage(p, n) ==
  /\ op[p].kind = "write" =>
       IF op[p].at = "hook"
       THEN /\ Owing(n) /\ Backed(n) /\ DirtyIsOwed(n)
            /\ Cached(n) /\ l2[n].doc = op[p].doc /\ owed[n] \in {NoDoc, op[p].doc}
            /\ ~op[p].doc.critical => Critical(n)
       ELSE Settled(n)
  /\ op[p].kind = "read" =>
       IF op[p].at = "fetch" THEN Settled(n) /\ (n \notin behind => InL0(n)) ELSE Reloading(p, n)
  /\ op[p].kind = "evict" => Settled(n) /\ ~l2[n].dirty
  /\ op[p].kind = "delete" => Settled(n) /\ owed[n] = NoDoc
  /\ op[p].kind = "store" => Settled(n)
  /\ op[p].kind = "complete" =>
       Settled(n) /\ (l2[n].dirty <=> op[p].at = "flush" /\ n \in op[p].rest)

Kept(n) ==
  n \notin raced =>
    /\ \A p, q \in Procs : Works(p, n) /\ Works(q, n) => p = q
    /\ Untouched(n) => Settled(n)
    /\ \A p \in Procs : Works(p, n) => Stage(p, n)
KeptInv == Inv /\ InvalidMeansOlder /\ Shaped /\ Fresh /\ \A n \in Nodes : Kept(n)

\* What the types say of one node.
LEMMA NodeTypes ==
  ASSUME Inv, NEW n \in Nodes
  PROVE  /\ l2[n].gen \in Nat /\ l0[n].gen \in Nat /\ versions[n] \in Nat
         /\ l2[n].dirty \in BOOLEAN /\ l2[n].backed \in BOOLEAN
         /\ l2[n].doc \in Doc \union {NoDoc} /\ l0[n].doc \in Doc \union {NoDoc}
         /\ owed[n] \in Doc \union {NoDoc}
         /\ Cached(n) <=> l2[n].doc # NoDoc
         /\ ~Cached(n) => ~l2[n].dirty /\ ~l2[n].backed
         /\ l0[n] = NoEntry <=> l0[n].gen = 0
         /\ l0[n] # NoEntry => l0[n].doc \in Doc
  <1>1. l2[n] \in Line /\ versions[n] \in Nat /\ owed[n] \in Doc \union {NoDoc}
    BY Parts
  <1>2. l0[n] \in [doc : Doc, gen : Nat \ {0}] \union {NoEntry}
    BY Parts DEF Durable0
  <1>3. NoDoc \notin Doc
    BY DEF NoDoc, Doc
  <1>4. \/ ~Cached(n) /\ l2[n] = NoLine
        \/ Cached(n) /\ l2[n] \in [doc : Doc, gen : Nat, dirty : BOOLEAN,
                                   state : {"Modified", "Shared", "Invalid"}, backed : BOOLEAN]
    BY <1>1 DEF Line, Cached
  <1>5. /\ l2[n].gen \in Nat /\ l2[n].dirty \in BOOLEAN /\ l2[n].backed \in BOOLEAN
        /\ l2[n].doc \in Doc \union {NoDoc} /\ (Cached(n) <=> l2[n].doc # NoDoc)
        /\ ~Cached(n) => ~l2[n].dirty /\ ~l2[n].backed
    <2>1. CASE ~Cached(n) /\ l2[n] = NoLine
      BY <2>1 DEF NoLine
    <2>2. CASE Cached(n) /\ l2[n] \in [doc : Doc, gen : Nat, dirty : BOOLEAN,
                                     state : {"Modified", "Shared", "Invalid"}, backed : BOOLEAN]
      <3>1. l2[n].doc \in Doc
        BY <2>2
      <3>2. l2[n].doc # NoDoc
        BY <1>3, <3>1
      <3> QED BY <2>2, <3>1, <3>2
    <2> QED BY <1>4, <2>1, <2>2
  <1>6. /\ l0[n].gen \in Nat /\ l0[n].doc \in Doc \union {NoDoc}
        /\ l0[n] = NoEntry <=> l0[n].gen = 0
        /\ l0[n] # NoEntry => l0[n].doc \in Doc
    BY <1>2 DEF NoEntry
  <1> QED BY <1>1, <1>5, <1>6

\* The number of a document tells it from no document.
LEMMA DocFacts ==
  /\ NoDoc.id = 0 /\ ~NoDoc.critical /\ NoDoc \notin Doc
  /\ \A d \in Doc : d.id \in Nat /\ d.id > 0 /\ d.critical \in BOOLEAN /\ d.durable \in BOOLEAN
  BY MemoryTiersAssumption DEF NoDoc, Doc

\* What a flush of a cached line does.
LEMMA FlushFacts ==
  ASSUME Inv, NEW m \in Nodes, Flush(m), Cached(m)
  PROVE  /\ \A k \in Nodes \ {m} : l2'[k] = l2[k] /\ l0'[k] = l0[k]
         /\ l0'[m].doc = l2[m].doc /\ l0'[m].gen \in Nat /\ l0'[m].gen >= l2[m].gen
         /\ l0[m].doc = l2[m].doc /\ l0[m].gen = l2[m].gen /\ l0[m].gen > 0
              => l0'[m].gen = l0[m].gen
         /\ l2'[m].doc = l2[m].doc /\ l2'[m].gen = l2[m].gen
         /\ ~l2'[m].dirty /\ l2'[m] # NoLine
  <1>1. PICK g : g = L0Generation(m, l2[m].doc, l2[m].gen)
    OBVIOUS
  <1>2. /\ l0' = [l0 EXCEPT ![m] = [doc |-> l2[m].doc, gen |-> g]]
        /\ l2' = [l2 EXCEPT ![m].dirty = FALSE, ![m].state = "Shared"]
    BY <1>1 DEF Flush
  <1>3. l0[m].gen \in Nat /\ l2[m].gen \in Nat
    BY NodeTypes
  <1>4. g \in Nat /\ g >= l2[m].gen
        /\ (l0[m].doc = l2[m].doc /\ l0[m].gen = l2[m].gen /\ l0[m].gen > 0 => g = l0[m].gen)
    BY <1>1, <1>3 DEF L0Generation, Max2
  <1>5. l2[m] \in [doc : Doc, gen : Nat, dirty : BOOLEAN,
                   state : {"Modified", "Shared", "Invalid"}, backed : BOOLEAN]
    BY CachedLine DEF Inv
  <1>6. /\ \A k \in Nodes \ {m} : l2'[k] = l2[k] /\ l0'[k] = l0[k]
        /\ l0'[m] = [doc |-> l2[m].doc, gen |-> g]
        /\ l2'[m] = [l2[m] EXCEPT !.dirty = FALSE, !.state = "Shared"]
    BY <1>2, Parts DEF Durable0
  <1>7. /\ l2'[m].doc = l2[m].doc /\ l2'[m].gen = l2[m].gen /\ ~l2'[m].dirty
    BY <1>5, <1>6
  <1>8. l2'[m] # NoLine
    <2>1. l2[m].doc # NoDoc
      BY <1>5, DocFacts
    <2> QED BY <1>7, <2>1 DEF NoLine
  <1> QED BY <1>4, <1>6, <1>7, <1>8

(***************************************************************************)
(* How an invariant of one node is kept by a step of one call.             *)
(***************************************************************************)
Same(n) ==
  /\ l2'[n] = l2[n] /\ l0'[n] = l0[n] /\ versions'[n] = versions[n] /\ owed'[n] = owed[n]
  /\ (n \in behind' <=> n \in behind) /\ (n \in unhooked' <=> n \in unhooked)

\* A node that a step leaves alone is settled as before.
LEMMA SameSettled ==
  ASSUME NEW n, Same(n)
  PROVE  /\ Settled(n)' <=> Settled(n)
         /\ (n \notin behind => InL0(n))' <=> (n \notin behind => InL0(n))
         /\ Critical(n)' <=> Critical(n)
         /\ Owing(n)' <=> Owing(n)
         /\ Backed(n)' <=> Backed(n)
         /\ DirtyIsOwed(n)' <=> DirtyIsOwed(n)
         /\ Cached(n)' <=> Cached(n)
  BY DEF Same, Settled, Owing, Backed, Critical, DirtyIsOwed, InL0, Cached

\* So is the point a call on it has reached.
LEMMA SameStage ==
  ASSUME NEW n, Same(n), NEW q, op'[q] = op[q]
  PROVE  Stage(q, n)' <=> Stage(q, n)
  <1>1. Reloading(q, n)' <=> Reloading(q, n)
    BY SameSettled DEF Reloading, Same
  <1> QED BY <1>1, SameSettled DEF Stage, Same

\* A step of another node's call.
LEMMA KeptElse ==
  ASSUME NEW p, NEW n \in Nodes, Kept(n), Same(n), n \in raced => n \in raced',
         ~Works(p, n), ~Works(p, n)', \A q \in Procs \ {p} : op'[q] = op[q]
  PROVE  Kept(n)'
  <1>1. \A q \in Procs : /\ Works(q, n)' <=> Works(q, n)
                         /\ Works(q, n) => op'[q] = op[q]
    BY DEF Works
  <1>2. Untouched(n)' <=> Untouched(n)
    BY <1>1 DEF Untouched
  <1>3. \A q \in Procs : Works(q, n) => (Stage(q, n)' <=> Stage(q, n))
    BY <1>1, SameStage
  <1> QED BY <1>1, <1>2, <1>3, SameSettled DEF Kept

\* A step of the call that works on the node.
LEMMA KeptMoves ==
  ASSUME NEW p \in Procs, NEW n \in Nodes, Kept(n), n \in raced => n \in raced', Works(p, n),
         \A q \in Procs \ {p} : op'[q] = op[q],
         op'[p].at = "idle" \/ n \in op'[p].nodes,
         n \notin raced => IF op'[p].at = "idle" THEN Settled(n)' ELSE Stage(p, n)'
  PROVE  Kept(n)'
  <1> SUFFICES ASSUME n \notin raced' PROVE Kept(n)'
    BY DEF Kept
  <1>1. n \notin raced /\ \A q \in Procs : Works(q, n) => q = p
    BY DEF Kept
  <1>2. \A q \in Procs : Works(q, n)' => q = p
    BY <1>1 DEF Works
  <1>3. Untouched(n)' => op'[p].at = "idle"
    BY DEF Untouched, Works
  <1>4. Works(p, n)' => op'[p].at # "idle"
    BY DEF Works
  <1> QED BY <1>1, <1>2, <1>3, <1>4 DEF Kept

\* A call that begins.
LEMMA KeptStarts ==
  ASSUME NEW p \in Procs, NEW n \in Nodes, Kept(n),
         n \in raced \/ ~Untouched(n) => n \in raced',
         op[p].at = "idle", \A q \in Procs \ {p} : op'[q] = op[q],
         Works(p, n)', n \notin raced /\ Settled(n) => Stage(p, n)'
  PROVE  Kept(n)'
  <1> SUFFICES ASSUME n \notin raced' PROVE Kept(n)'
    BY DEF Kept
  <1>1. n \notin raced /\ Untouched(n) /\ Settled(n)
    BY DEF Kept
  <1>2. \A q \in Procs : Works(q, n)' => q = p
    BY <1>1 DEF Works, Untouched
  <1>3. ~Untouched(n)'
    BY DEF Untouched
  <1> QED BY <1>1, <1>2, <1>3 DEF Kept

\* The node of a call that works on one.
LEMMA OneNodeCall ==
  ASSUME Inv, Shaped, NEW p \in Procs, op[p].at \in OneNode
  PROVE  \E n \in Nodes : /\ op[p].nodes = {n} /\ Node(p) = n /\ Works(p, n)
                          /\ \A k : Works(p, k) => k = n
  <1>1. PICK n \in Nodes : op[p].nodes = {n}
    BY DEF Shaped, CallShape
  <1>2. Node(p) = n
    BY <1>1 DEF Node
  <1>3. op[p].at # "idle"
    BY DEF OneNode
  <1> QED BY <1>1, <1>2, <1>3 DEF Works

\* What a step of a call on one node has to show.
LEMMA OneNodeStep ==
  ASSUME Inv, \A k \in Nodes : Kept(k), NEW p \in Procs, NEW n \in Nodes,
         op[p].nodes = {n}, op[p].at # "idle", UNCHANGED raced,
         \A k \in Nodes \ {n} : Same(k),
         \A q \in Procs \ {p} : op'[q] = op[q],
         op'[p].at = "idle" \/ op'[p].nodes = {n},
         n \notin raced => IF op'[p].at = "idle" THEN Settled(n)' ELSE Stage(p, n)'
  PROVE  \A k \in Nodes : Kept(k)'
  <1>1. Kept(n)'
    BY KeptMoves DEF Works
  <1>2. ASSUME NEW k \in Nodes \ {n} PROVE Kept(k)'
    BY <1>2, KeptElse DEF Works
  <1> QED BY <1>1, <1>2

(***************************************************************************)
(* Shapes of calls, and documents that are new.                            *)
(***************************************************************************)
\* A call moved on keeps its shape if its kind goes with its new point.
LEMMA ShapeMoves ==
  ASSUME Inv, Shaped, NEW p \in Procs,
         \A q \in Procs \ {p} : op'[q] = op[q],
         CallShape(op'[p])
  PROVE  Shaped'
  BY DEF Shaped

\* An idle call has a shape.
LEMMA IdleShape == CallShape(Idle)
  BY DEF CallShape, Idle, KindsAt, OneNode

\* Starting a call, what the others do not notice.
LEMMA StartFacts ==
  ASSUME Inv, NEW p \in Procs, NEW kind, NEW at, NEW nodes, NEW doc, Start(p, kind, at, nodes, doc)
  PROVE  /\ op[p].at = "idle" /\ \A q \in Procs \ {p} : op'[q] = op[q]
         /\ op'[p].kind = kind /\ op'[p].at = at /\ op'[p].nodes = nodes /\ op'[p].doc = doc
         /\ op'[p].rest = nodes
         /\ raced' = raced \union {n \in nodes : ~Untouched(n)}
  <1>1. PICK o : o = [Idle EXCEPT !.kind = kind, !.at = at, !.nodes = nodes, !.rest = nodes,
                                  !.doc = doc]
    OBVIOUS
  <1>2. o.kind = kind /\ o.at = at /\ o.nodes = nodes /\ o.doc = doc /\ o.rest = nodes
    BY <1>1 DEF Idle
  <1>3. op' = [op EXCEPT ![p] = o]
    BY <1>1 DEF Start
  <1>4. op'[p] = o /\ \A q \in Procs \ {p} : op'[q] = op[q]
    BY <1>3, Parts
  <1> QED BY <1>2, <1>4 DEF Start

\* Completing starts a call over all nodes.
LEMMA CompleteFacts ==
  ASSUME Inv, NEW p \in Procs, BeginComplete(p)
  PROVE  /\ op[p].at = "idle" /\ \A q \in Procs \ {p} : op'[q] = op[q]
         /\ op'[p].kind = "complete" /\ op'[p].at = "flush" /\ op'[p].nodes = Nodes
         /\ op'[p].rest = {n \in Nodes : l2[n].dirty} /\ op'[p].doc = NoDoc
         /\ raced' = raced \union {n \in Nodes : ~Untouched(n)}
  <1>1. PICK o : o = [Idle EXCEPT !.kind = "complete", !.at = "flush", !.nodes = Nodes,
                                  !.rest = {n \in Nodes: l2[n].dirty}]
    OBVIOUS
  <1>2. /\ o.kind = "complete" /\ o.at = "flush" /\ o.nodes = Nodes /\ o.doc = NoDoc
        /\ o.rest = {n \in Nodes : l2[n].dirty}
    BY <1>1 DEF Idle
  <1>3. op' = [op EXCEPT ![p] = o]
    BY <1>1 DEF BeginComplete
  <1>4. op'[p] = o /\ \A q \in Procs \ {p} : op'[q] = op[q]
    BY <1>3, Parts
  <1> QED BY <1>2, <1>4 DEF BeginComplete

\* Moving on and ending leave the rest of the call, and the other calls.
LEMMA MoveFacts ==
  ASSUME Inv, NEW p \in Procs
  PROVE  /\ \A at : To(p, at) =>
              /\ \A q \in Procs \ {p} : op'[q] = op[q]
              /\ op'[p].at = at
              /\ op'[p].kind = op[p].kind /\ op'[p].nodes = op[p].nodes /\ op'[p].rest = op[p].rest
              /\ op'[p].doc = op[p].doc /\ op'[p].gen = op[p].gen /\ op'[p].canon = op[p].canon
         /\ Done(p) => op'[p] = Idle /\ \A q \in Procs \ {p} : op'[q] = op[q]
  <1>1. op[p] \in Call0
    BY Parts
  <1>2. ASSUME NEW at, To(p, at)
        PROVE  /\ \A q \in Procs \ {p} : op'[q] = op[q]
               /\ op'[p].at = at
               /\ op'[p].kind = op[p].kind /\ op'[p].nodes = op[p].nodes /\ op'[p].rest = op[p].rest
               /\ op'[p].doc = op[p].doc /\ op'[p].gen = op[p].gen /\ op'[p].canon = op[p].canon
    <2>1. op' = [op EXCEPT ![p] = [op[p] EXCEPT !.at = at]]
      BY <1>2 DEF To
    <2> QED BY <1>1, <2>1, Parts DEF Call0
  <1>3. Done(p) => op'[p] = Idle /\ \A q \in Procs \ {p} : op'[q] = op[q]
    BY Parts DEF Done
  <1> QED BY <1>2, <1>3

\* The fields a step of a call changes.
LEMMA DrawFacts ==
  ASSUME Inv, NEW p \in Procs, NEW n \in Nodes, Node(p) = n, Draw(p)
  PROVE  /\ \A q \in Procs \ {p} : op'[q] = op[q]
         /\ op'[p].at = "look" /\ op'[p].gen = versions[n] + 1
         /\ op'[p].kind = op[p].kind /\ op'[p].nodes = op[p].nodes
         /\ op'[p].doc = op[p].doc /\ op'[p].canon = op[p].canon
  <1>1. op[p] \in Call0
    BY Parts
  <1>2. PICK g : g = versions[n] + 1
    OBVIOUS
  <1>3. op' = [op EXCEPT ![p] = [op[p] EXCEPT !.gen = g, !.at = "look"]]
    BY <1>2 DEF Draw
  <1> QED BY <1>1, <1>2, <1>3, Parts DEF Call0

\* Looking only records whether a line is there.
LEMMA LookFacts ==
  ASSUME Inv, NEW p \in Procs, Look(p)
  PROVE  /\ \A q \in Procs \ {p} : op'[q] = op[q]
         /\ op'[p].at = "put" /\ op'[p].gen = op[p].gen
         /\ op'[p].kind = op[p].kind /\ op'[p].nodes = op[p].nodes
         /\ op'[p].doc = op[p].doc /\ op'[p].canon = op[p].canon
  <1>1. op[p] \in Call0
    BY Parts
  <1>2. PICK u : u = Cached(Node(p))
    OBVIOUS
  <1>3. op' = [op EXCEPT ![p] = [op[p] EXCEPT !.update = u, !.at = "put"]]
    BY <1>2 DEF Look
  <1> QED BY <1>1, <1>3, Parts DEF Call0

\* Reading an L0 entry records it.
LEMMA FetchFacts ==
  ASSUME Inv, NEW p \in Procs, NEW n \in Nodes, Node(p) = n, Fetch(p), l0[n] # NoEntry
  PROVE  /\ \A q \in Procs \ {p} : op'[q] = op[q]
         /\ op'[p].at = "draw" /\ op'[p].doc = l0[n].doc /\ op'[p].canon = l0[n].gen
         /\ op'[p].kind = op[p].kind /\ op'[p].nodes = op[p].nodes
  <1>1. op[p] \in Call0
    BY Parts
  <1>2. op' = [op EXCEPT ![p] = [op[p] EXCEPT !.doc = l0[n].doc, !.canon = l0[n].gen, !.at = "draw"]]
    BY DEF Fetch
  <1>3. op'[p] = [op[p] EXCEPT !.doc = l0[n].doc, !.canon = l0[n].gen, !.at = "draw"]
        /\ \A q \in Procs \ {p} : op'[q] = op[q]
    BY <1>2, Parts
  <1> QED BY <1>1, <1>3 DEF Call0

\* A loop that is done with one node.
LEMMA RestFacts ==
  ASSUME Inv, NEW p \in Procs, NEW m, op' = [op EXCEPT ![p].rest = @ \ {m}]
  PROVE  /\ \A q \in Procs \ {p} : op'[q] = op[q]
         /\ op'[p].rest = op[p].rest \ {m}
         /\ op'[p].at = op[p].at /\ op'[p].kind = op[p].kind /\ op'[p].nodes = op[p].nodes
         /\ op'[p].doc = op[p].doc
  <1>1. op[p] \in Call0
    BY Parts
  <1>2. op'[p] = [op[p] EXCEPT !.rest = @ \ {m}] /\ \A q \in Procs \ {p} : op'[q] = op[q]
    BY Parts
  <1> QED BY <1>1, <1>2 DEF Call0

\* The release of the subtree begins.
LEMMA GatherFacts ==
  ASSUME Inv, NEW p \in Procs, Gather(p)
  PROVE  /\ \A q \in Procs \ {p} : op'[q] = op[q]
         /\ op'[p].at = "release" /\ op'[p].kind = op[p].kind /\ op'[p].nodes = op[p].nodes
         /\ op'[p].doc = op[p].doc
  <1>1. op[p] \in Call0
    BY Parts
  <1>2. op' = [op EXCEPT ![p] = [op[p] EXCEPT !.rest = tree, !.at = "release"]]
    BY DEF Gather
  <1>3. op'[p] = [op[p] EXCEPT !.rest = tree, !.at = "release"] /\ \A q \in Procs \ {p} : op'[q] = op[q]
    BY <1>2, Parts
  <1> QED BY <1>1, <1>3 DEF Call0

\* What the steps do to the tiers.
LEMMA DeletedFacts ==
  ASSUME Inv, NEW n \in Nodes, Deleted(n)
  PROVE  l2'[n] = NoLine
         /\ \A k \in Nodes \ {n} : l2'[k] = l2[k] /\ versions'[k] = versions[k]
  BY Parts DEF Deleted

\* The new line, and what is owed after it.
LEMMA PutFacts ==
  ASSUME Inv, NEW p \in Procs, NEW n \in Nodes, Node(p) = n, Put(p)
  PROVE  /\ \A k \in Nodes \ {n} : l2'[k] = l2[k] /\ owed'[k] = owed[k]
                                   /\ (k \in behind' <=> k \in behind)
         /\ l2'[n].doc = op[p].doc /\ l2'[n].gen = op[p].gen
         /\ l2'[n].dirty <=> DirtyAfter(op[p])
         /\ l2'[n].backed <=> DirtyAfter(op[p]) \/ op[p].kind = "read" \/ op[p].update
         /\ op[p].kind = "write" =>
              /\ n \in behind' <=> op[p].gen <= l0[n].gen
              /\ owed'[n] = IF DirtyAfter(op[p]) THEN op[p].doc ELSE NoDoc
         /\ op[p].kind # "write" => UNCHANGED <<behind, owed>>
         /\ UNCHANGED <<versions, l0, docs, raced, unhooked>> /\ To(p, "hook")
  <1>1. PICK line : line = [doc |-> op[p].doc, gen |-> op[p].gen, dirty |-> DirtyAfter(op[p]),
                            state |-> IF DirtyAfter(op[p]) THEN "Modified" ELSE "Shared",
                            backed |-> DirtyAfter(op[p]) \/ op[p].kind = "read" \/ op[p].update]
    OBVIOUS
  <1>2. /\ line.doc = op[p].doc /\ line.gen = op[p].gen
        /\ line.dirty <=> DirtyAfter(op[p])
        /\ line.backed <=> DirtyAfter(op[p]) \/ op[p].kind = "read" \/ op[p].update
    BY <1>1
  <1>3. l2' = [l2 EXCEPT ![n] = line]
    BY <1>1 DEF Put
  <1>4. l2'[n] = line /\ \A k \in Nodes \ {n} : l2'[k] = l2[k]
    BY <1>3, Parts
  <1>5. /\ op[p].kind = "write" =>
             /\ behind' = IF op[p].gen <= l0[n].gen THEN behind \union {n} ELSE behind \ {n}
             /\ owed' = [owed EXCEPT ![n] = IF DirtyAfter(op[p]) THEN op[p].doc ELSE NoDoc]
        /\ op[p].kind # "write" => UNCHANGED <<behind, owed>>
        /\ UNCHANGED <<versions, l0, docs, raced, unhooked>> /\ To(p, "hook")
    BY DEF Put, bounds
  <1>6. op[p].kind = "write" =>
          /\ owed'[n] = IF DirtyAfter(op[p]) THEN op[p].doc ELSE NoDoc
          /\ \A k \in Nodes \ {n} : owed'[k] = owed[k]
    BY <1>5, Parts
  <1> QED BY <1>2, <1>4, <1>5, <1>6

\* The reloaded line becomes the clean copy of the entry.
LEMMA FinishFacts ==
  ASSUME Inv, NEW p \in Procs, NEW n \in Nodes, Node(p) = n, Finish(p)
  PROVE  /\ \A k \in Nodes \ {n} : l2'[k] = l2[k]
         /\ Cached(n) => /\ l2'[n].doc = l2[n].doc /\ l2'[n].gen = op[p].canon /\ ~l2'[n].dirty
                         /\ l2'[n].state = "Shared"
         /\ ~Cached(n) => l2'[n] = l2[n]
         /\ UNCHANGED <<versions, l0, docs, history>> /\ Done(p)
  <1>1. UNCHANGED <<versions, l0, docs, history>> /\ Done(p)
    BY DEF Finish, bounds
  <1>2. CASE ~Cached(n)
    BY <1>1, <1>2 DEF Finish
  <1>3. CASE Cached(n)
    <2>1. l2' = [l2 EXCEPT ![n].gen = op[p].canon, ![n].dirty = FALSE, ![n].state = "Shared"]
      BY <1>3 DEF Finish
    <2>2. l2[n] \in [doc : Doc, gen : Nat, dirty : BOOLEAN,
                     state : {"Modified", "Shared", "Invalid"}, backed : BOOLEAN]
      BY <1>3, CachedLine DEF Inv
    <2>3. l2'[n] = [l2[n] EXCEPT !.gen = op[p].canon, !.dirty = FALSE, !.state = "Shared"]
          /\ \A k \in Nodes \ {n} : l2'[k] = l2[k]
      BY <2>1, Parts
    <2> QED BY <1>1, <1>3, <2>2, <2>3
  <1> QED BY <1>2, <1>3

\* Neither a notice nor an eviction changes what the line holds.
LEMMA NotifyFacts ==
  ASSUME Inv, NEW p \in Procs, NEW n \in Nodes, Node(p) = n, Notify(p)
  PROVE  /\ \A k \in Nodes \ {n} : l2'[k] = l2[k]
         /\ l2'[n].doc = l2[n].doc /\ l2'[n].gen = l2[n].gen /\ (l2'[n].dirty <=> l2[n].dirty)
         /\ l2'[n].backed <=> l2[n].backed
         /\ UNCHANGED <<versions, l0, docs, history>> /\ Done(p)
  <1>1. UNCHANGED <<versions, l0, docs, history>> /\ Done(p)
    BY DEF Notify, bounds
  <1>2. CASE ~Older(n)
    BY <1>1, <1>2 DEF Notify
  <1>3. CASE Older(n)
    <2>1. l2' = [l2 EXCEPT ![n].state = "Invalid"]
      BY <1>3 DEF Notify
    <2>2. l2[n] \in [doc : Doc, gen : Nat, dirty : BOOLEAN,
                     state : {"Modified", "Shared", "Invalid"}, backed : BOOLEAN]
      BY <1>3, CachedLine DEF Inv, Older
    <2>3. l2'[n] = [l2[n] EXCEPT !.state = "Invalid"] /\ \A k \in Nodes \ {n} : l2'[k] = l2[k]
      BY <2>1, Parts
    <2> QED BY <1>1, <2>2, <2>3
  <1> QED BY <1>2, <1>3

\* A direct write of L0 brings a document that is new, and so a newer generation.
LEMMA StoreFacts ==
  ASSUME Inv, Fresh, NEW p \in Procs, NEW n \in Nodes, NEW notice \in BOOLEAN, Store(p, n, notice)
  PROVE  /\ docs' = docs + 1 /\ UNCHANGED <<versions, l2, behind, unhooked>>
         /\ Start(p, "store", IF notice THEN "notify" ELSE "stored", {n}, l0'[n].doc)
         /\ \A k \in Nodes \ {n} : l0'[k] = l0[k] /\ owed'[k] = owed[k]
         /\ l0'[n].doc.id = docs' /\ ~l0'[n].doc.critical
         /\ l0'[n].gen \in Nat /\ l0'[n].gen > l0[n].gen
         /\ owed'[n] = IF l2[n].dirty THEN NoDoc ELSE l0'[n].doc
  <1>1. PICK doc : doc = [id |-> docs + 1, durable |-> TRUE, critical |-> FALSE]
    OBVIOUS
  <1>2. PICK g : g = L0Generation(n, doc, 0)
    OBVIOUS
  <1>3. doc.id = docs + 1 /\ ~doc.critical
    BY <1>1
  <1>4. l0[n].doc # doc
    <2>1. l0[n].doc.id <= docs /\ docs \in Nat /\ l0[n].doc.id \in Nat
      BY NodeTypes, DocFacts, Parts DEF Fresh
    <2> QED BY <1>3, <2>1
  <1>5. g \in Nat /\ g > l0[n].gen
    BY <1>2, <1>4, NodeTypes DEF L0Generation, Max2
  <1>6. /\ docs' = docs + 1
        /\ Start(p, "store", IF notice THEN "notify" ELSE "stored", {n}, doc)
        /\ l0' = [l0 EXCEPT ![n] = [doc |-> doc, gen |-> g]]
        /\ owed' = [owed EXCEPT ![n] = IF l2[n].dirty THEN NoDoc ELSE doc]
        /\ UNCHANGED <<versions, l2, behind, unhooked>>
    BY <1>1, <1>2 DEF Store
  <1>7. /\ l0'[n].doc = doc /\ l0'[n].gen = g
        /\ owed'[n] = IF l2[n].dirty THEN NoDoc ELSE doc
        /\ \A k \in Nodes \ {n} : l0'[k] = l0[k] /\ owed'[k] = owed[k]
    BY <1>6, Parts DEF Durable0
  <1> QED BY <1>3, <1>5, <1>6, <1>7

\* The documents that exist are numbered up to docs.
LEMMA FreshStep ==
  ASSUME Inv, Shaped, Fresh, [Next]_vars
  PROVE  Fresh'
  <1>1. docs \in Nat /\ NoDoc.id = 0
    BY Parts, DocFacts
  <1>2. ASSUME docs' = docs \/ docs' = docs + 1,
               \A n \in Nodes : l2'[n].doc.id <= docs' /\ l0'[n].doc.id <= docs',
               NEW p, op'[p].doc.id <= docs', \A q \in Procs \ {p} : op'[q] = op[q]
        PROVE  Fresh'
    <2>1. \A q \in Procs : op[q].doc.id \in Nat
      BY Parts, DocFacts DEF Call0
    <2> QED BY <1>1, <1>2, <2>1 DEF Fresh
  <1>3. \A n \in Nodes : l2[n].doc.id <= docs /\ l0[n].doc.id <= docs
                         /\ l2[n].doc.id \in Nat /\ l0[n].doc.id \in Nat
    BY NodeTypes, DocFacts DEF Fresh
  <1>4. \A q \in Procs : op[q].doc.id <= docs
    BY DEF Fresh
  <1>5. Idle.doc.id = 0
    BY <1>1 DEF Idle
  <1>6. ASSUME NEW p \in Procs, NEW n \in Nodes, NEW durable, NEW critical,
               BeginWrite(p, n, durable, critical)
        PROVE  Fresh'
    <2>1. PICK doc : doc = [id |-> docs + 1, durable |-> durable, critical |-> critical]
      OBVIOUS
    <2>2. doc.id = docs + 1 /\ docs' = docs + 1 /\ Start(p, "write", "draw", {n}, doc)
          /\ l2' = l2 /\ l0' = l0
      BY <1>6, <2>1 DEF BeginWrite, tiers
    <2>3. op'[p].doc.id = docs + 1 /\ \A q \in Procs \ {p} : op'[q] = op[q]
      BY <2>2, StartFacts
    <2> QED BY <1>1, <1>2, <1>3, <2>2, <2>3
  <1>7. ASSUME NEW p \in Procs, NEW n \in Nodes, NEW kind, NEW at, Start(p, kind, at, {n}, NoDoc),
               UNCHANGED <<l2, l0, docs>>
        PROVE  Fresh'
    BY <1>1, <1>2, <1>3, <1>7, StartFacts
  <1>8. ASSUME NEW p \in Procs, NEW n \in Nodes, NEW notice \in BOOLEAN, Store(p, n, notice)
        PROVE  Fresh'
    <2>1. docs' = docs + 1 /\ l2' = l2
          /\ \A k \in Nodes : l0'[k] = l0[k] \/ l0'[k].doc.id = docs'
      BY <1>8, StoreFacts
    <2>2. op'[p].doc.id = docs' /\ \A q \in Procs \ {p} : op'[q] = op[q]
      <3>1. Start(p, "store", IF notice THEN "notify" ELSE "stored", {n}, l0'[n].doc)
            /\ l0'[n].doc.id = docs'
        BY <1>8, StoreFacts
      <3> QED BY <3>1, StartFacts
    <2> QED BY <1>1, <1>2, <1>3, <2>1, <2>2
  <1>9. ASSUME NEW p \in Procs, BeginComplete(p) PROVE Fresh'
    <2>1. UNCHANGED <<l2, l0, docs>>
      BY <1>9 DEF BeginComplete, tiers
    <2>2. op'[p].doc = NoDoc /\ \A q \in Procs \ {p} : op'[q] = op[q]
      BY <1>9, CompleteFacts
    <2> QED BY <1>1, <1>2, <1>3, <2>1, <2>2
  <1>10. ASSUME NEW p \in Procs, Call(p) PROVE Fresh'
    BY <1>6, <1>7, <1>8, <1>9, <1>10 DEF Call, BeginRead, BeginEvict, BeginDelete, tiers
  <1>11. ASSUME NEW p \in Procs, UNCHANGED <<l2, l0, docs>>,
                op'[p].doc.id <= docs, \A q \in Procs \ {p} : op'[q] = op[q]
         PROVE  Fresh'
    BY <1>2, <1>3, <1>11
  <1>12. ASSUME NEW m \in Nodes, Flush(m)
         PROVE  \A n \in Nodes : l2'[n].doc.id <= docs /\ l0'[n].doc.id <= docs
    <2>1. CASE Cached(m)
      BY <1>3, <1>12, <2>1, FlushFacts
    <2>2. CASE ~Cached(m)
      BY <1>3, <1>12, <2>2 DEF Flush
    <2> QED BY <2>1, <2>2
  <1>13. ASSUME NEW p \in Procs, Step(p) PROVE Fresh'
    <2>1. CASE Draw(p)
      <3>1. PICK n \in Nodes : Node(p) = n
        BY <2>1, OneNodeCall DEF Draw, OneNode
      <3> QED BY <1>4, <1>11, <2>1, <3>1, DrawFacts DEF Draw, bounds
    <2>2. CASE Look(p)
      BY <1>4, <1>11, <2>2, LookFacts DEF Look, bounds, tiers
    <2>3. CASE Put(p)
      <3>1. PICK n \in Nodes : Node(p) = n
        BY <2>3, OneNodeCall DEF Put, OneNode
      <3>2. /\ \A k \in Nodes : l2'[k] = l2[k] \/ l2'[k].doc = op[p].doc
            /\ UNCHANGED <<l0, docs>> /\ To(p, "hook")
        BY <2>3, <3>1, PutFacts
      <3> QED BY <1>2, <1>3, <1>4, <3>2, MoveFacts
    <2>4. CASE Hook(p) \/ HookFails(p)
      <3>1. AfterHook(p) /\ docs' = docs
        BY <2>4 DEF Hook, HookFails, bounds
      <3>2. op'[p].doc.id <= docs /\ \A q \in Procs \ {p} : op'[q] = op[q]
        BY <1>1, <1>4, <1>5, <3>1, MoveFacts DEF AfterHook
      <3>3. PICK m \in Nodes : Node(p) = m
        BY <2>4, OneNodeCall DEF Hook, HookFails, OneNode
      <3>4. Flush(m) \/ UNCHANGED <<l2, l0>>
        BY <2>4, <3>3 DEF Hook, HookFails, tiers
      <3> QED BY <1>2, <1>3, <1>12, <3>1, <3>2, <3>4
    <2>5. CASE Fetch(p)
      <3>1. PICK n \in Nodes : Node(p) = n
        BY <2>5, OneNodeCall DEF Fetch, OneNode
      <3>2. UNCHANGED <<l2, l0, docs>>
        BY <2>5 DEF Fetch, bounds
      <3>3. CASE l0[n] = NoEntry
        BY <1>1, <1>5, <1>11, <2>5, <3>1, <3>2, <3>3, MoveFacts DEF Fetch
      <3>4. CASE l0[n] # NoEntry
        BY <1>3, <1>11, <2>5, <3>1, <3>2, <3>4, FetchFacts
      <3> QED BY <3>3, <3>4
    <2>6. ASSUME Done(p), UNCHANGED <<l0, docs>>, \A n \in Nodes : l2'[n].doc \in {l2[n].doc, NoDoc}
          PROVE  Fresh'
      BY <1>1, <1>2, <1>3, <1>5, <2>6, MoveFacts
    <2>7. CASE Finish(p)
      <3>1. PICK n \in Nodes : Node(p) = n
        BY <2>7, OneNodeCall DEF Finish, OneNode
      <3> QED BY <2>6, <2>7, <3>1, FinishFacts
    <2>8. CASE Remove(p)
      <3>1. PICK n \in Nodes : Node(p) = n
        BY <2>8, OneNodeCall DEF Remove, OneNode
      <3> QED BY <2>6, <2>8, <3>1, DeletedFacts DEF Remove, NoLine, bounds
    <2>9. CASE Notify(p)
      <3>1. PICK n \in Nodes : Node(p) = n
        BY <2>9, OneNodeCall DEF Notify, OneNode
      <3> QED BY <2>6, <2>9, <3>1, NotifyFacts
    <2>10. CASE EnqueueFails(p) \/ FlushFails(p) \/ Released(p) \/ Stored(p)
      BY <2>6, <2>10 DEF EnqueueFails, FlushFails, Released, Stored, tiers, bounds
    <2>11. ASSUME NEW m \in Nodes, FlushOne(p, m) PROVE Fresh'
      <3>1. Flush(m) /\ op' = [op EXCEPT ![p].rest = @ \ {m}] /\ docs' = docs
        BY <2>11 DEF FlushOne, bounds
      <3> QED BY <1>2, <1>4, <1>12, <3>1, RestFacts
    <2>12. ASSUME NEW m \in Nodes, ReleaseOne(p, m) PROVE Fresh'
      <3>1. Deleted(m) /\ op' = [op EXCEPT ![p].rest = @ \ {m}] /\ UNCHANGED <<docs, l0>>
        BY <2>12 DEF ReleaseOne, bounds
      <3>2. \A n \in Nodes : l2'[n].doc \in {l2[n].doc, NoDoc}
        BY <3>1, DeletedFacts DEF NoLine
      <3> QED BY <1>1, <1>2, <1>3, <1>4, <3>1, <3>2, RestFacts
    <2>13. CASE Gather(p)
      BY <1>4, <1>11, <2>13, GatherFacts DEF Gather, tiers, bounds
    <2> QED
      BY <1>13, <2>1, <2>2, <2>3, <2>4, <2>5, <2>7, <2>8, <2>9, <2>10, <2>11, <2>12, <2>13 DEF Step
  <1>14. CASE Restart
    <2>1. \A n \in Nodes : l2'[n].doc = NoDoc
      BY <1>14 DEF Restart, NoLine
    <2>2. \A q \in Procs : op'[q] = Idle
      BY <1>14 DEF Restart
    <2> QED BY <1>1, <1>3, <1>5, <1>14, <2>1, <2>2 DEF Restart, Fresh
  <1>15. CASE UNCHANGED vars
    BY <1>15 DEF vars, tiers, bounds, Fresh
  <1> QED BY <1>10, <1>13, <1>14, <1>15 DEF Next

\* A call stays on its nodes and keeps its kind.
LEMMA ShapedStep ==
  ASSUME Inv, Shaped, [Next]_vars
  PROVE  Shaped'
  <1>1. ASSUME NEW p \in Procs, \A q \in Procs \ {p} : op'[q] = op[q], CallShape(op'[p])
        PROVE  Shaped'
    BY <1>1, ShapeMoves
  <1>2. ASSUME NEW p \in Procs, Done(p) PROVE Shaped'
    BY <1>1, <1>2, MoveFacts, IdleShape
  <1>3. ASSUME NEW p \in Procs, NEW kind, NEW at, NEW n \in Nodes, NEW doc,
               Start(p, kind, at, {n}, doc), at \in OneNode, kind \in KindsAt(at)
        PROVE  Shaped'
    <2>1. /\ \A q \in Procs \ {p} : op'[q] = op[q]
          /\ op'[p].kind = kind /\ op'[p].at = at /\ op'[p].nodes = {n}
      BY <1>3, StartFacts
    <2> QED BY <1>1, <1>3, <2>1 DEF CallShape, OneNode
  <1>4. ASSUME NEW p \in Procs, op[p].at \in OneNode, op'[p].at \in OneNode,
               op'[p].kind = op[p].kind, op[p].kind \in KindsAt(op'[p].at),
               op'[p].nodes = op[p].nodes, \A q \in Procs \ {p} : op'[q] = op[q]
        PROVE  Shaped'
    <2>1. \E n \in Nodes : op'[p].nodes = {n}
      BY <1>4 DEF Shaped, CallShape
    <2> QED BY <1>1, <1>4, <2>1 DEF CallShape, OneNode
  <1>5. \A p \in Procs : op[p].kind \in KindsAt(op[p].at)
    BY DEF Shaped, CallShape
  <1>6. ASSUME NEW p \in Procs, Call(p) PROVE Shaped'
    <2>1. CASE BeginComplete(p)
      BY <1>1, <2>1, CompleteFacts DEF CallShape, OneNode, KindsAt
    <2>2. ASSUME NEW n \in Nodes, NEW durable, NEW critical, BeginWrite(p, n, durable, critical)
          PROVE  Shaped'
      BY <1>3, <2>2 DEF BeginWrite, OneNode, KindsAt
    <2>3. ASSUME NEW n \in Nodes, BeginRead(p, n) \/ BeginEvict(p, n) \/ BeginDelete(p, n)
          PROVE  Shaped'
      BY <1>3, <2>3 DEF BeginRead, BeginEvict, BeginDelete, OneNode, KindsAt
    <2>4. ASSUME NEW n \in Nodes, NEW notice \in BOOLEAN, Store(p, n, notice) PROVE Shaped'
      <3>1. PICK at : at = IF notice THEN "notify" ELSE "stored"
        OBVIOUS
      <3>2. \E doc : Start(p, "store", at, {n}, doc)
        BY <2>4, <3>1 DEF Store
      <3> QED BY <1>3, <3>1, <3>2 DEF OneNode, KindsAt
    <2> QED BY <1>6, <2>1, <2>2, <2>3, <2>4 DEF Call
  <1>7. ASSUME NEW p \in Procs, Step(p) PROVE Shaped'
    <2>1. CASE Draw(p)
      <3>1. PICK n \in Nodes : Node(p) = n
        BY <2>1, OneNodeCall DEF Draw, OneNode
      <3> QED BY <1>4, <1>5, <2>1, <3>1, DrawFacts DEF Draw, OneNode, KindsAt
    <2>2. CASE Look(p)
      BY <1>4, <1>5, <2>2, LookFacts DEF Look, OneNode, KindsAt
    <2>3. CASE Put(p)
      BY <1>4, <1>5, <2>3, MoveFacts DEF Put, OneNode, KindsAt
    <2>4. CASE Hook(p) \/ HookFails(p)
      <3>1. AfterHook(p) /\ op[p].at = "hook"
        BY <2>4 DEF Hook, HookFails
      <3>2. CASE op[p].kind = "read"
        BY <1>4, <3>1, <3>2, MoveFacts DEF AfterHook, OneNode, KindsAt
      <3>3. CASE op[p].kind # "read"
        BY <1>2, <3>1, <3>3 DEF AfterHook
      <3> QED BY <3>2, <3>3
    <2>5. CASE Fetch(p)
      <3>1. PICK n \in Nodes : Node(p) = n
        BY <2>5, OneNodeCall DEF Fetch, OneNode
      <3>2. CASE l0[n] = NoEntry
        BY <1>2, <2>5, <3>1, <3>2 DEF Fetch
      <3>3. CASE l0[n] # NoEntry
        <4>1. op[p].at = "fetch" BY <2>5 DEF Fetch
        <4>2. op[p].kind = "read" BY <1>5, <4>1 DEF KindsAt
        <4> QED BY <1>4, <2>5, <3>1, <3>3, <4>1, <4>2, FetchFacts DEF OneNode, KindsAt
      <3> QED BY <3>2, <3>3
    <2>6. CASE EnqueueFails(p) \/ Finish(p) \/ Remove(p) \/ FlushFails(p) \/ Released(p)
               \/ Notify(p) \/ Stored(p)
      BY <1>2, <2>6 DEF EnqueueFails, Finish, Remove, FlushFails, Released, Notify, Stored
    <2>7. ASSUME NEW m \in Nodes, FlushOne(p, m) \/ ReleaseOne(p, m) PROVE Shaped'
      <3>1. op' = [op EXCEPT ![p].rest = @ \ {m}]
        BY <2>7 DEF FlushOne, ReleaseOne
      <3>2. CallShape(op'[p])
        BY <3>1, RestFacts DEF Shaped, CallShape
      <3> QED BY <1>1, <3>1, <3>2, RestFacts
    <2>8. CASE Gather(p)
      <3>1. op[p].at = "flush" BY <2>8 DEF Gather
      <3>2. op[p].nodes = Nodes /\ op[p].kind = "complete"
        BY <3>1 DEF Shaped, CallShape, KindsAt
      <3>3. CallShape(op'[p])
        BY <2>8, <3>2, GatherFacts DEF CallShape, KindsAt, OneNode
      <3> QED BY <1>1, <2>8, <3>3, GatherFacts
    <2> QED BY <1>7, <2>1, <2>2, <2>3, <2>4, <2>5, <2>6, <2>7, <2>8 DEF Step
  <1>8. CASE Restart
    BY <1>8, IdleShape DEF Restart, Shaped
  <1>9. CASE UNCHANGED vars
    BY <1>9 DEF vars, Shaped
  <1> QED BY <1>6, <1>7, <1>8, <1>9 DEF Next

\* Calls that begin leave the node as it is, but for a direct write.
LEMMA KeptCall ==
  ASSUME KeptInv, NEW p \in Procs, Call(p)
  PROVE  \A k \in Nodes : Kept(k)'
  <1>1. Inv /\ InvalidMeansOlder /\ Shaped /\ Fresh /\ \A k \in Nodes : Kept(k)
    BY DEF KeptInv
  <1>2. ASSUME NEW n \in Nodes, NEW kind, NEW at, NEW doc, Start(p, kind, at, {n}, doc),
               at # "idle", \A k \in Nodes \ {n} : Same(k),
               n \notin raced /\ Settled(n) => Stage(p, n)'
        PROVE  \A k \in Nodes : Kept(k)'
    <2>1. /\ op[p].at = "idle" /\ \A q \in Procs \ {p} : op'[q] = op[q]
          /\ op'[p].kind = kind /\ op'[p].at = at /\ op'[p].nodes = {n}
          /\ raced' = raced \union {k \in {n} : ~Untouched(k)}
      BY <1>1, <1>2, StartFacts
    <2>2. Kept(n)'
      BY <1>1, <1>2, <2>1, KeptStarts DEF Works
    <2>3. ASSUME NEW k \in Nodes \ {n} PROVE Kept(k)'
      BY <1>1, <1>2, <2>1, <2>3, KeptElse DEF Works
    <2> QED BY <2>2, <2>3
  <1>3. ASSUME NEW n \in Nodes, NEW durable \in BOOLEAN, NEW critical \in BOOLEAN,
               BeginWrite(p, n, durable, critical)
        PROVE  \A k \in Nodes : Kept(k)'
    <2>1. PICK doc : doc = [id |-> docs + 1, durable |-> durable, critical |-> critical]
      OBVIOUS
    <2>2. Start(p, "write", "draw", {n}, doc) /\ \A k \in Nodes : Same(k)
      BY <1>3, <2>1 DEF BeginWrite, tiers, Same
    <2>3. op'[p].kind = "write" /\ op'[p].at = "draw"
      BY <1>1, <2>2, StartFacts
    <2>4. Settled(n) => Stage(p, n)'
      BY <2>2, <2>3, SameSettled DEF Stage
    <2> QED BY <1>2, <2>2, <2>4
  <1>4. ASSUME NEW n \in Nodes, BeginRead(p, n) PROVE \A k \in Nodes : Kept(k)'
    <2>1. Start(p, "read", "fetch", {n}, NoDoc) /\ Stale(n) /\ \A k \in Nodes : Same(k)
      BY <1>4 DEF BeginRead, tiers, Same
    <2>2. op'[p].kind = "read" /\ op'[p].at = "fetch"
      BY <1>1, <2>1, StartFacts
    <2>3. l0[n].gen > l2[n].gen
      BY <1>1, <2>1 DEF Stale, InvalidMeansOlder
    <2>4. Settled(n) => (n \notin behind => InL0(n))
      BY <1>1, <2>3, NodeTypes DEF Settled, Owing
    <2>5. Settled(n) => Stage(p, n)'
      BY <2>1, <2>2, <2>4, SameSettled DEF Stage
    <2> QED BY <1>2, <2>1, <2>5
  <1>5. ASSUME NEW n \in Nodes, BeginEvict(p, n) PROVE \A k \in Nodes : Kept(k)'
    <2>1. Start(p, "evict", "remove", {n}, NoDoc) /\ ~l2[n].dirty /\ \A k \in Nodes : Same(k)
      BY <1>5 DEF BeginEvict, tiers, Same
    <2>2. op'[p].kind = "evict" /\ op'[p].at = "remove"
      BY <1>1, <2>1, StartFacts
    <2>3. Settled(n) => Stage(p, n)'
      BY <2>1, <2>2, SameSettled DEF Stage, Same
    <2> QED BY <1>2, <2>1, <2>3
  <1>6. ASSUME NEW n \in Nodes, BeginDelete(p, n) PROVE \A k \in Nodes : Kept(k)'
    <2>1. /\ Start(p, "delete", "remove", {n}, NoDoc) /\ owed' = [owed EXCEPT ![n] = NoDoc]
          /\ UNCHANGED <<versions, l2, l0, behind, unhooked>>
      BY <1>6 DEF BeginDelete, tiers
    <2>2. op'[p].kind = "delete" /\ op'[p].at = "remove"
      BY <1>1, <2>1, StartFacts
    <2>3. owed'[n] = NoDoc /\ \A k \in Nodes \ {n} : Same(k)
      BY <1>1, <2>1, Parts DEF Same
    <2>4. Settled(n) => Settled(n)'
      BY <2>1, <2>3, DocFacts DEF Settled, Owing, InL0, Backed, Critical, DirtyIsOwed
    <2>5. Settled(n) => Stage(p, n)'
      BY <2>2, <2>3, <2>4 DEF Stage
    <2> QED BY <1>2, <2>1, <2>3, <2>5
  <1>7. ASSUME NEW n \in Nodes, NEW notice \in BOOLEAN, Store(p, n, notice)
        PROVE  \A k \in Nodes : Kept(k)'
    <2>1. PICK at : at = IF notice THEN "notify" ELSE "stored"
      OBVIOUS
    <2>2. /\ Start(p, "store", at, {n}, l0'[n].doc) /\ UNCHANGED <<versions, l2, behind, unhooked>>
          /\ \A k \in Nodes \ {n} : l0'[k] = l0[k] /\ owed'[k] = owed[k]
          /\ ~l0'[n].doc.critical /\ l0'[n].gen \in Nat /\ l0'[n].gen > l0[n].gen
          /\ owed'[n] = IF l2[n].dirty THEN NoDoc ELSE l0'[n].doc
      BY <1>1, <1>7, <2>1, StoreFacts
    <2>3. \A k \in Nodes \ {n} : Same(k)
      BY <2>2 DEF Same
    <2>4. \E doc : Start(p, "store", at, {n}, doc)
      BY <2>2
    <2>5. PICK doc : Start(p, "store", at, {n}, doc)
      BY <2>4
    <2>6. op'[p].kind = "store" /\ op'[p].at = at
      BY <1>1, <2>5, StartFacts
    <2>7. Settled(n) => Settled(n)'
      <3>1. owed'[n] \in {NoDoc, l0'[n].doc}
        BY <2>2
      <3>2. InL0(n)' /\ Owing(n)'
        BY <3>1 DEF InL0, Owing
      <3>3. Critical(n)'
        BY <2>2, DocFacts DEF Critical
      <3>4. DirtyIsOwed(n)'
        BY <2>2 DEF DirtyIsOwed
      <3>5. Backed(n) => Backed(n)'
        BY <1>1, <2>2, NodeTypes DEF Backed
      <3> QED BY <3>2, <3>3, <3>4, <3>5 DEF Settled
    <2>8. Settled(n) => Stage(p, n)'
      BY <2>6, <2>7 DEF Stage
    <2>9. at # "idle" BY <2>1
    <2> QED BY <1>2, <2>3, <2>5, <2>8, <2>9
  <1>8. CASE BeginComplete(p)
    <2>1. /\ op[p].at = "idle" /\ \A q \in Procs \ {p} : op'[q] = op[q]
          /\ op'[p].kind = "complete" /\ op'[p].at = "flush" /\ op'[p].nodes = Nodes
          /\ op'[p].rest = {n \in Nodes : l2[n].dirty}
          /\ raced' = raced \union {n \in Nodes : ~Untouched(n)}
      BY <1>1, <1>8, CompleteFacts
    <2>2. \A n \in Nodes : Same(n)
      BY <1>8 DEF BeginComplete, tiers, Same
    <2>3. ASSUME NEW n \in Nodes PROVE Kept(n)'
      <3>1. Settled(n) => Stage(p, n)'
        BY <2>1, <2>2, SameSettled DEF Stage, Same
      <3> QED BY <1>1, <2>1, <3>1, KeptStarts DEF Works
    <2> QED BY <2>3
  <1> QED BY <1>3, <1>4, <1>5, <1>6, <1>7, <1>8 DEF Call

\* The steps of a call on one node, and what is left for each to show.
LEMMA CallStepKeeps ==
  ASSUME KeptInv, NEW p \in Procs, NEW n \in Nodes,
         op[p].at \in OneNode, Node(p) = n, UNCHANGED raced,
         \A k \in Nodes \ {n} : Same(k),
         \A q \in Procs \ {p} : op'[q] = op[q],
         op'[p].at = "idle" \/ op'[p].nodes = op[p].nodes,
         n \notin raced /\ Stage(p, n) =>
           IF op'[p].at = "idle" THEN Settled(n)' ELSE Stage(p, n)'
  PROVE  \A k \in Nodes : Kept(k)'
  <1>1. Inv /\ Shaped /\ \A k \in Nodes : Kept(k)
    BY DEF KeptInv
  <1>2. op[p].nodes = {n} /\ Works(p, n)
    BY <1>1, OneNodeCall
  <1>3. n \notin raced => Stage(p, n)
    BY <1>1, <1>2 DEF Kept
  <1>4. op[p].at # "idle"
    BY DEF OneNode
  <1> QED BY <1>1, <1>2, <1>3, <1>4, OneNodeStep

\* Drawing, enqueueing and looking leave the tiers alone.
LEMMA KeptDraw ==
  ASSUME KeptInv, NEW p \in Procs, Draw(p) \/ EnqueueFails(p) \/ Look(p)
  PROVE  \A k \in Nodes : Kept(k)'
  <1>1. Inv /\ Shaped /\ op[p].at \in {"draw", "look"}
    BY DEF KeptInv, Draw, EnqueueFails, Look
  <1>2. PICK n \in Nodes : Node(p) = n
    BY <1>1, OneNodeCall DEF OneNode
  <1>3. op[p].kind \in {"write", "read"}
    BY <1>1 DEF Shaped, CallShape, KindsAt
  <1>4. /\ UNCHANGED <<l2, l0, owed, behind, unhooked, raced>>
        /\ \A k \in Nodes \ {n} : versions'[k] = versions[k]
    BY <1>1, <1>2, Parts DEF Draw, EnqueueFails, Look, history, tiers
  <1>5. \A k \in Nodes \ {n} : Same(k)
    BY <1>4 DEF Same
  <1>6. Stage(p, n) => Settled(n)
    BY <1>1, <1>3 DEF Stage, Reloading
  <1>7. /\ Settled(n)' <=> Settled(n)
        /\ InL0(n)' <=> InL0(n)
        /\ Critical(n)' <=> Critical(n)
        /\ Cached(n)' <=> Cached(n)
    BY <1>4 DEF Settled, Owing, InL0, Backed, Critical, DirtyIsOwed, Cached
  <1>8. CASE Draw(p)
    <2>1. op[p].at = "draw" /\ op'[p].at = "look" /\ op'[p].gen = versions[n] + 1
          /\ op'[p].kind = op[p].kind /\ op'[p].nodes = op[p].nodes
          /\ op'[p].doc = op[p].doc /\ op'[p].canon = op[p].canon
          /\ \A q \in Procs \ {p} : op'[q] = op[q]
      BY <1>1, <1>2, <1>8, DrawFacts DEF Draw
    <2>2. Stage(p, n) => Stage(p, n)'
      <3>1. CASE op[p].kind = "write"
        BY <1>6, <1>7, <2>1, <3>1 DEF Stage
      <3>2. CASE op[p].kind = "read"
        <4>1. Reloading(p, n) => Reloading(p, n)'
          BY <1>1, <1>4, <1>7, <2>1, NodeTypes DEF Reloading
        <4> QED BY <1>6, <1>7, <2>1, <3>2, <4>1 DEF Stage
      <3> QED BY <1>3, <3>1, <3>2
    <2> QED BY <1>1, <1>2, <1>4, <1>5, <2>1, <2>2, CallStepKeeps DEF OneNode
  <1>9. CASE EnqueueFails(p)
    <2>1. op'[p].at = "idle" /\ \A q \in Procs \ {p} : op'[q] = op[q]
      BY <1>1, <1>9, MoveFacts DEF EnqueueFails, Idle
    <2> QED BY <1>1, <1>2, <1>4, <1>5, <1>6, <1>7, <2>1, CallStepKeeps DEF OneNode
  <1>10. CASE Look(p)
    <2>1. op[p].at = "look" /\ op'[p].at = "put" /\ op'[p].gen = op[p].gen
          /\ op'[p].kind = op[p].kind /\ op'[p].nodes = op[p].nodes
          /\ op'[p].doc = op[p].doc /\ op'[p].canon = op[p].canon
          /\ \A q \in Procs \ {p} : op'[q] = op[q]
      BY <1>1, <1>10, LookFacts DEF Look
    <2>2. Stage(p, n) => Stage(p, n)'
      <3>1. CASE op[p].kind = "write"
        BY <1>6, <1>7, <2>1, <3>1 DEF Stage
      <3>2. CASE op[p].kind = "read"
        <4>1. Reloading(p, n) => Reloading(p, n)'
          BY <1>4, <1>7, <2>1 DEF Reloading
        <4> QED BY <1>6, <1>7, <2>1, <3>2, <4>1 DEF Stage
      <3> QED BY <1>3, <3>1, <3>2
    <2> QED BY <1>1, <1>2, <1>4, <1>5, <2>1, <2>2, CallStepKeeps DEF OneNode
  <1> QED BY <1>8, <1>9, <1>10

\* A line is inserted: it is owed if it is dirty, and L0 may have reached its
\* generation only if the node is behind.
LEMMA KeptPut ==
  ASSUME KeptInv, NEW p \in Procs, Put(p)
  PROVE  \A k \in Nodes : Kept(k)'
  <1>1. Inv /\ Shaped /\ op[p].at = "put"
    BY DEF KeptInv, Put
  <1>2. PICK n \in Nodes : Node(p) = n
    BY <1>1, OneNodeCall DEF OneNode
  <1>3. op[p].kind \in {"write", "read"}
    BY <1>1 DEF Shaped, CallShape, KindsAt
  <1>4. /\ \A k \in Nodes \ {n} : l2'[k] = l2[k] /\ owed'[k] = owed[k]
                                  /\ (k \in behind' <=> k \in behind)
        /\ l2'[n].doc = op[p].doc /\ l2'[n].gen = op[p].gen
        /\ l2'[n].dirty <=> DirtyAfter(op[p])
        /\ l2'[n].backed <=> DirtyAfter(op[p]) \/ op[p].kind = "read" \/ op[p].update
        /\ op[p].kind = "write" =>
             /\ n \in behind' <=> op[p].gen <= l0[n].gen
             /\ owed'[n] = IF DirtyAfter(op[p]) THEN op[p].doc ELSE NoDoc
        /\ op[p].kind # "write" => UNCHANGED <<behind, owed>>
        /\ UNCHANGED <<versions, l0, docs, raced, unhooked>> /\ To(p, "hook")
    BY <1>1, <1>2, PutFacts
  <1>5. \A k \in Nodes \ {n} : Same(k)
    BY <1>4 DEF Same
  <1>6. /\ \A q \in Procs \ {p} : op'[q] = op[q]
        /\ op'[p].at = "hook"
        /\ op'[p].kind = op[p].kind /\ op'[p].nodes = op[p].nodes
        /\ op'[p].doc = op[p].doc /\ op'[p].gen = op[p].gen /\ op'[p].canon = op[p].canon
    BY <1>1, <1>4, MoveFacts
  <1>7. op[p].doc \in Doc /\ op[p].gen \in Nat /\ l0[n].gen \in Nat /\ op[p].update \in BOOLEAN
    BY <1>1, Parts, NodeTypes DEF CallSound, Call0
  <1>8. Cached(n)'
    <2>1. l2'[n].doc # NoDoc
      BY <1>4, <1>7, DocFacts
    <2> QED BY <2>1 DEF Cached, NoLine
  <1>9. CASE op[p].kind = "write"
    <2>1. Owing(n)'
      BY <1>4, <1>7, <1>9 DEF Owing, InL0
    <2>2. Backed(n)'
      BY <1>4, <1>7, <1>9 DEF Backed, DirtyAfter
    <2>3. DirtyIsOwed(n)' /\ owed'[n] \in {NoDoc, op'[p].doc}
      BY <1>4, <1>6, <1>9 DEF DirtyIsOwed
    <2>4. ~op'[p].doc.critical => Critical(n)'
      BY <1>6, <2>3, DocFacts DEF Critical
    <2>5. Stage(p, n)'
      BY <1>4, <1>6, <1>8, <1>9, <2>1, <2>2, <2>3, <2>4 DEF Stage
    <2> QED BY <1>1, <1>2, <1>4, <1>5, <1>6, <2>5, CallStepKeeps DEF OneNode
  <1>10. CASE op[p].kind = "read"
    <2>1. Stage(p, n) => Reloading(p, n)
      BY <1>1, <1>10 DEF Stage
    <2>2. Reloading(p, n) => Reloading(p, n)'
      BY <1>1, <1>4, <1>6, <1>8, <1>10 DEF Reloading, InL0, Critical
    <2>3. Stage(p, n) => Stage(p, n)'
      BY <1>6, <1>10, <2>1, <2>2 DEF Stage
    <2> QED BY <1>1, <1>2, <1>4, <1>5, <1>6, <2>3, CallStepKeeps DEF OneNode
  <1> QED BY <1>3, <1>9, <1>10

\* A flush settles a node whose line is what is owed, or of which nothing is owed.
LEMMA FlushSettles ==
  ASSUME Inv, NEW n \in Nodes, Flush(n), Cached(n), owed[n] \in {NoDoc, l2[n].doc},
         owed'[n] = owed[n]
  PROVE  Settled(n)' /\ ~l2'[n].dirty /\ Cached(n)'
  <1>1. /\ l0'[n].doc = l2[n].doc /\ l0'[n].gen >= l2[n].gen
        /\ l2'[n].doc = l2[n].doc /\ l2'[n].gen = l2[n].gen
        /\ ~l2'[n].dirty /\ l2'[n] # NoLine
    BY FlushFacts
  <1>2. owed'[n] \in {NoDoc, l0'[n].doc}
    BY <1>1
  <1>3. Owing(n)' /\ Critical(n)'
    BY <1>2, DocFacts DEF Owing, InL0, Critical
  <1>4. Backed(n)' /\ DirtyIsOwed(n)'
    BY <1>1 DEF Backed, DirtyIsOwed
  <1> QED BY <1>1, <1>3, <1>4 DEF Settled, Cached

\* The hook persists a critical line and otherwise nothing.
LEMMA KeptHook ==
  ASSUME KeptInv, NEW p \in Procs, Hook(p) \/ HookFails(p)
  PROVE  \A k \in Nodes : Kept(k)'
  <1>1. Inv /\ Shaped /\ op[p].at = "hook" /\ AfterHook(p)
        /\ UNCHANGED <<versions, owed, behind, raced>>
    BY DEF KeptInv, Hook, HookFails, tiers, history
  <1>2. PICK n \in Nodes : Node(p) = n
    BY <1>1, OneNodeCall DEF OneNode
  <1>3. op[p].kind \in {"write", "read"}
    BY <1>1 DEF Shaped, CallShape, KindsAt
  <1>4. /\ \A q \in Procs \ {p} : op'[q] = op[q]
        /\ op[p].kind = "write" => op'[p].at = "idle"
        /\ op[p].kind = "read" =>
             /\ op'[p].at = "finish" /\ op'[p].kind = "read" /\ op'[p].nodes = op[p].nodes
             /\ op'[p].doc = op[p].doc /\ op'[p].canon = op[p].canon
    BY <1>1, MoveFacts DEF AfterHook, Idle
  <1>5. CASE Hook(p) /\ op[p].doc.critical /\ Cached(n)
    <2>1. Flush(n) /\ unhooked' = unhooked
      BY <1>2, <1>5 DEF Hook, history
    <2>2. \A k \in Nodes \ {n} : Same(k)
      BY <1>1, <1>5, <2>1, FlushFacts DEF Same
    <2>3. CASE op[p].kind = "write"
      <3>1. Stage(p, n) => owed[n] \in {NoDoc, l2[n].doc}
        BY <1>1, <2>3 DEF Stage
      <3>2. Stage(p, n) => Settled(n)'
        BY <1>1, <1>5, <2>1, <3>1, FlushSettles
      <3> QED BY <1>1, <1>2, <1>4, <2>2, <2>3, <3>2, CallStepKeeps DEF OneNode
    <2>4. CASE op[p].kind = "read"
      <3>1. Stage(p, n) => Reloading(p, n)
        BY <1>1, <2>4 DEF Stage
      <3>2. ASSUME Reloading(p, n) PROVE Reloading(p, n)'
        <4>1. l2[n].doc = l0[n].doc /\ l2[n].gen = l0[n].gen /\ l0[n].gen > 0
          BY <1>1, <3>2 DEF Reloading
        <4>2. /\ l0'[n].doc = l0[n].doc /\ l0'[n].gen = l0[n].gen
              /\ l2'[n].doc = l2[n].doc /\ l2'[n].gen = l2[n].gen /\ l2'[n] # NoLine
          BY <1>1, <1>5, <2>1, <4>1, FlushFacts
        <4>3. /\ InL0(n)' <=> InL0(n)
              /\ Critical(n)' <=> Critical(n)
          BY <1>1, <2>1, <4>2 DEF InL0, Critical
        <4> QED BY <1>1, <1>4, <2>4, <3>2, <4>1, <4>2, <4>3 DEF Reloading, Cached
      <3>3. Stage(p, n) => Stage(p, n)'
        BY <1>4, <2>4, <3>1, <3>2 DEF Stage
      <3> QED BY <1>1, <1>2, <1>4, <2>2, <2>4, <3>3, CallStepKeeps DEF OneNode
    <2> QED BY <1>3, <2>3, <2>4
  <1>6. CASE UNCHANGED <<l2, l0>> /\ (~op[p].doc.critical \/ n \in unhooked')
             /\ unhooked \subseteq unhooked' /\ unhooked' \subseteq unhooked \union {n}
    <2>1. \A k \in Nodes \ {n} : Same(k)
      BY <1>1, <1>6 DEF Same
    <2>2. /\ Owing(n)' <=> Owing(n)
          /\ Backed(n)' <=> Backed(n)
          /\ DirtyIsOwed(n)' <=> DirtyIsOwed(n)
          /\ InL0(n)' <=> InL0(n)
          /\ Cached(n)' <=> Cached(n)
          /\ Critical(n) => Critical(n)'
          /\ n \in unhooked' => Critical(n)'
      BY <1>1, <1>6 DEF Owing, Backed, DirtyIsOwed, InL0, Cached, Critical
    <2>3. CASE op[p].kind = "write"
      <3>1. Stage(p, n) => Settled(n)'
        BY <1>1, <1>6, <2>2, <2>3 DEF Stage, Settled
      <3> QED BY <1>1, <1>2, <1>4, <2>1, <2>3, <3>1, CallStepKeeps DEF OneNode
    <2>4. CASE op[p].kind = "read"
      <3>1. Stage(p, n) => Reloading(p, n)
        BY <1>1, <2>4 DEF Stage
      <3>2. Reloading(p, n) => Reloading(p, n)'
        BY <1>1, <1>4, <1>6, <2>2, <2>4 DEF Reloading
      <3>3. Stage(p, n) => Stage(p, n)'
        BY <1>4, <2>4, <3>1, <3>2 DEF Stage
      <3> QED BY <1>1, <1>2, <1>4, <2>1, <2>4, <3>3, CallStepKeeps DEF OneNode
    <2> QED BY <1>3, <2>3, <2>4
  <1>7. CASE Hook(p) /\ op[p].doc.critical /\ ~Cached(n)
    <2>1. UNCHANGED <<l2, l0, unhooked>>
      BY <1>2, <1>7 DEF Hook, Flush, history
    <2>2. \A k \in Nodes \ {n} : Same(k)
      BY <1>1, <2>1 DEF Same
    <2>3. ~Stage(p, n)
      BY <1>1, <1>3, <1>7 DEF Stage, Reloading
    <2> QED BY <1>1, <1>2, <1>3, <1>4, <2>2, <2>3, CallStepKeeps DEF OneNode
  <1>8. CASE Hook(p) /\ ~op[p].doc.critical
    BY <1>2, <1>6, <1>8 DEF Hook, history
  <1>9. CASE HookFails(p)
    BY <1>2, <1>6, <1>9 DEF HookFails, tiers
  <1> QED BY <1>5, <1>7, <1>8, <1>9

\* A reload reads the entry: it holds what is owed.
LEMMA KeptFetch ==
  ASSUME KeptInv, NEW p \in Procs, Fetch(p)
  PROVE  \A k \in Nodes : Kept(k)'
  <1>1. Inv /\ Shaped /\ op[p].at = "fetch"
    BY DEF KeptInv, Fetch
  <1>2. PICK n \in Nodes : Node(p) = n
    BY <1>1, OneNodeCall DEF OneNode
  <1>3. op[p].kind = "read"
    BY <1>1 DEF Shaped, CallShape, KindsAt
  <1>4. /\ UNCHANGED <<l2, l0, owed, behind, unhooked, raced>>
        /\ \A k \in Nodes \ {n} : versions'[k] = versions[k]
        /\ l0[n] # NoEntry => versions'[n] = l0[n].gen - 1
    BY <1>1, <1>2, Parts DEF Fetch, history
  <1>5. \A k \in Nodes \ {n} : Same(k)
    BY <1>4 DEF Same
  <1>6. Stage(p, n) => Settled(n) /\ (n \notin behind => InL0(n))
    BY <1>1, <1>3 DEF Stage
  <1>7. /\ Settled(n)' <=> Settled(n)
        /\ InL0(n)' <=> InL0(n)
        /\ Critical(n)' <=> Critical(n)
    BY <1>4 DEF Settled, Owing, InL0, Backed, Critical, DirtyIsOwed
  <1>8. CASE l0[n] = NoEntry
    <2>1. op'[p].at = "idle" /\ \A q \in Procs \ {p} : op'[q] = op[q]
      BY <1>1, <1>2, <1>8, MoveFacts DEF Fetch, Idle
    <2> QED BY <1>1, <1>2, <1>4, <1>5, <1>6, <1>7, <2>1, CallStepKeeps DEF OneNode
  <1>9. CASE l0[n] # NoEntry
    <2>1. /\ \A q \in Procs \ {p} : op'[q] = op[q]
          /\ op'[p].at = "draw" /\ op'[p].doc = l0[n].doc /\ op'[p].canon = l0[n].gen
          /\ op'[p].kind = "read" /\ op'[p].nodes = op[p].nodes
      BY <1>1, <1>2, <1>3, <1>9, FetchFacts
    <2>2. l0[n].gen \in Nat /\ l0[n].gen > 0
      BY <1>1, <1>9, NodeTypes
    <2>3. Stage(p, n) => Reloading(p, n)'
      BY <1>4, <1>6, <1>7, <1>9, <2>1, <2>2 DEF Reloading, Settled
    <2>4. Stage(p, n) => Stage(p, n)'
      BY <2>1, <2>3 DEF Stage
    <2> QED BY <1>1, <1>2, <1>4, <1>5, <2>1, <2>4, CallStepKeeps DEF OneNode
  <1> QED BY <1>8, <1>9

\* A reload ends with the clean copy of the entry.
LEMMA KeptFinish ==
  ASSUME KeptInv, NEW p \in Procs, Finish(p)
  PROVE  \A k \in Nodes : Kept(k)'
  <1>1. Inv /\ Shaped /\ op[p].at = "finish"
    BY DEF KeptInv, Finish
  <1>2. PICK n \in Nodes : Node(p) = n
    BY <1>1, OneNodeCall DEF OneNode
  <1>3. op[p].kind = "read"
    BY <1>1 DEF Shaped, CallShape, KindsAt
  <1>4. /\ \A k \in Nodes \ {n} : l2'[k] = l2[k]
        /\ Cached(n) => l2'[n].doc = l2[n].doc /\ l2'[n].gen = op[p].canon /\ ~l2'[n].dirty
        /\ UNCHANGED <<versions, l0, history>> /\ Done(p)
    BY <1>1, <1>2, FinishFacts
  <1>5. \A k \in Nodes \ {n} : Same(k)
    BY <1>4 DEF Same, history
  <1>6. op'[p].at = "idle" /\ \A q \in Procs \ {p} : op'[q] = op[q]
    BY <1>1, <1>4, MoveFacts DEF Idle
  <1>7. ASSUME Stage(p, n) PROVE Settled(n)'
    <2>1. Reloading(p, n) /\ Cached(n)
      BY <1>1, <1>3, <1>7 DEF Stage, Reloading
    <2>2. l2'[n].doc = l0[n].doc /\ l2'[n].gen = l0[n].gen /\ ~l2'[n].dirty /\ l0[n].gen \in Nat
      BY <1>1, <1>4, <2>1, NodeTypes DEF Reloading
    <2>3. Owing(n)' /\ Critical(n)'
      BY <1>4, <2>1 DEF Reloading, Owing, InL0, Critical, history
    <2>4. Backed(n)' /\ DirtyIsOwed(n)'
      BY <1>4, <2>2 DEF Backed, DirtyIsOwed
    <2> QED BY <2>3, <2>4 DEF Settled
  <1> QED BY <1>1, <1>2, <1>4, <1>5, <1>6, <1>7, CallStepKeeps DEF OneNode, history

\* A line that is dropped clean leaves what is owed in L0.
LEMMA DropSettles ==
  ASSUME Inv, NEW n \in Nodes, Settled(n), ~l2[n].dirty \/ owed[n] = NoDoc,
         l2'[n] = NoLine, l0'[n] = l0[n], owed'[n] = owed[n],
         n \in behind' <=> n \in behind, n \in unhooked' <=> n \in unhooked
  PROVE  Settled(n)'
  <1>1. n \notin behind => InL0(n)
    BY DEF Settled, Owing, InL0
  <1>2. Owing(n)' /\ Critical(n)'
    BY <1>1 DEF Settled, Owing, InL0, Critical
  <1>3. Backed(n)' /\ DirtyIsOwed(n)'
    BY DEF Backed, DirtyIsOwed, NoLine
  <1> QED BY <1>2, <1>3 DEF Settled

\* An eviction drops a clean line, a deletion one of which nothing is owed.
LEMMA KeptRemove ==
  ASSUME KeptInv, NEW p \in Procs, Remove(p)
  PROVE  \A k \in Nodes : Kept(k)'
  <1>1. Inv /\ Shaped /\ op[p].at = "remove" /\ Done(p) /\ UNCHANGED <<l0, history>>
    BY DEF KeptInv, Remove
  <1>2. PICK n \in Nodes : Node(p) = n
    BY <1>1, OneNodeCall DEF OneNode
  <1>3. op[p].kind \in {"evict", "delete"}
    BY <1>1 DEF Shaped, CallShape, KindsAt
  <1>4. l2'[n] = NoLine /\ \A k \in Nodes \ {n} : l2'[k] = l2[k] /\ versions'[k] = versions[k]
    BY <1>1, <1>2, DeletedFacts DEF Remove
  <1>5. \A k \in Nodes \ {n} : Same(k)
    BY <1>1, <1>4 DEF Same, history
  <1>6. op'[p].at = "idle" /\ \A q \in Procs \ {p} : op'[q] = op[q]
    BY <1>1, MoveFacts DEF Idle
  <1>7. Stage(p, n) => Settled(n) /\ (~l2[n].dirty \/ owed[n] = NoDoc)
    BY <1>3 DEF Stage
  <1>8. Stage(p, n) => Settled(n)'
    BY <1>1, <1>4, <1>7, DropSettles DEF history
  <1> QED BY <1>1, <1>2, <1>5, <1>6, <1>8, CallStepKeeps DEF OneNode, history

\* A notice changes the state of a line, and the notice of a direct write ends it.
LEMMA KeptNotice ==
  ASSUME KeptInv, NEW p \in Procs, Notify(p) \/ Stored(p)
  PROVE  \A k \in Nodes : Kept(k)'
  <1>1. Inv /\ Shaped /\ op[p].at \in {"notify", "stored"} /\ Done(p)
        /\ UNCHANGED <<versions, l0, history>>
    BY DEF KeptInv, Notify, Stored, tiers
  <1>2. PICK n \in Nodes : Node(p) = n
    BY <1>1, OneNodeCall DEF OneNode
  <1>3. op[p].kind = "store"
    BY <1>1 DEF Shaped, CallShape, KindsAt
  <1>4. /\ \A k \in Nodes \ {n} : l2'[k] = l2[k]
        /\ l2'[n].doc = l2[n].doc /\ l2'[n].gen = l2[n].gen /\ (l2'[n].dirty <=> l2[n].dirty)
        /\ l2'[n].backed <=> l2[n].backed
    <2>1. CASE Notify(p) BY <1>1, <1>2, <2>1, NotifyFacts
    <2>2. CASE Stored(p) BY <2>2 DEF Stored, tiers
    <2> QED BY <2>1, <2>2
  <1>5. \A k \in Nodes \ {n} : Same(k)
    BY <1>1, <1>4 DEF Same, history
  <1>6. op'[p].at = "idle" /\ \A q \in Procs \ {p} : op'[q] = op[q]
    BY <1>1, MoveFacts DEF Idle
  <1>7. Settled(n) => Settled(n)'
    BY <1>1, <1>4 DEF history, Settled, Owing, InL0, Backed, Critical, DirtyIsOwed
  <1>8. Stage(p, n) => Settled(n)'
    BY <1>3, <1>7 DEF Stage
  <1> QED BY <1>1, <1>2, <1>5, <1>6, <1>8, CallStepKeeps DEF OneNode, history

\* A step of the completion works on every node.
LEMMA AllNodesStep ==
  ASSUME KeptInv, NEW p \in Procs, op[p].at \in {"flush", "release"}, UNCHANGED raced,
         \A q \in Procs \ {p} : op'[q] = op[q],
         op'[p].at = "idle" \/ op'[p].nodes = op[p].nodes,
         \A n \in Nodes : n \notin raced /\ Stage(p, n) =>
           IF op'[p].at = "idle" THEN Settled(n)' ELSE Stage(p, n)'
  PROVE  \A k \in Nodes : Kept(k)'
  <1>1. op[p].nodes = Nodes /\ \A k \in Nodes : Kept(k)
    BY DEF KeptInv, Shaped, CallShape
  <1>2. \A k \in Nodes : Works(p, k) /\ (k \notin raced => Stage(p, k))
    BY <1>1 DEF Kept, Works
  <1>3. ASSUME NEW k \in Nodes PROVE Kept(k)'
    BY <1>1, <1>2, KeptMoves
  <1> QED BY <1>3

\* The completion flushes the dirty lines, which hold what is owed, and releases them.
LEMMA KeptComplete ==
  ASSUME KeptInv, NEW p \in Procs,
         \/ \E m \in Nodes : FlushOne(p, m) \/ ReleaseOne(p, m)
         \/ FlushFails(p) \/ Gather(p) \/ Released(p)
  PROVE  \A k \in Nodes : Kept(k)'
  <1>1. Inv /\ Shaped /\ op[p].at \in {"flush", "release"} /\ UNCHANGED history
    BY DEF KeptInv, FlushOne, ReleaseOne, FlushFails, Gather, Released
  <1>2. op[p].kind = "complete" /\ UNCHANGED raced
    BY <1>1 DEF Shaped, CallShape, KindsAt, history
  <1>3. \A n \in Nodes : Stage(p, n) =>
          Settled(n) /\ (l2[n].dirty <=> op[p].at = "flush" /\ n \in op[p].rest)
    BY <1>2 DEF Stage
  <1>4. ASSUME NEW m \in Nodes, FlushOne(p, m) PROVE \A k \in Nodes : Kept(k)'
    <2>1. op[p].at = "flush" /\ m \in op[p].rest /\ Flush(m) /\ versions' = versions
      BY <1>4 DEF FlushOne
    <2>2. /\ \A q \in Procs \ {p} : op'[q] = op[q]
          /\ op'[p].rest = op[p].rest \ {m} /\ op'[p].at = "flush" /\ op'[p].kind = "complete"
          /\ op'[p].nodes = op[p].nodes
      BY <1>1, <1>2, <1>4, <2>1, RestFacts DEF FlushOne
    <2>3. ASSUME NEW n \in Nodes, Stage(p, n), n # m PROVE Stage(p, n)'
      <3>1. l2'[n] = l2[n] /\ l0'[n] = l0[n]
        <4>1. CASE Cached(m) BY <1>1, <2>1, <2>3, <4>1, FlushFacts
        <4>2. CASE ~Cached(m) BY <2>1, <4>2 DEF Flush
        <4> QED BY <4>1, <4>2
      <3>2. Same(n)
        BY <1>1, <2>1, <3>1 DEF Same, history
      <3>3. Settled(n)' /\ (l2'[n].dirty <=> n \in op'[p].rest)
        BY <1>3, <2>1, <2>2, <2>3, <3>1, <3>2, SameSettled
      <3> QED BY <2>2, <3>3 DEF Stage
    <2>4. ASSUME Stage(p, m) PROVE Stage(p, m)'
      <3>1. Settled(m) /\ l2[m].dirty
        BY <1>3, <2>1, <2>4
      <3>2. Cached(m) /\ owed[m] \in {NoDoc, l2[m].doc} /\ owed'[m] = owed[m]
        BY <1>1, <3>1, NodeTypes DEF Settled, DirtyIsOwed, history
      <3>3. Settled(m)' /\ ~l2'[m].dirty
        BY <1>1, <2>1, <3>2, FlushSettles
      <3> QED BY <2>2, <3>3 DEF Stage
    <2>5. \A n \in Nodes : Stage(p, n) => Stage(p, n)'
      BY <2>3, <2>4
    <2> QED BY <1>1, <1>2, <2>2, <2>5, AllNodesStep
  <1>5. ASSUME NEW m \in Nodes, ReleaseOne(p, m) PROVE \A k \in Nodes : Kept(k)'
    <2>1. op[p].at = "release" /\ Deleted(m) /\ l0' = l0
      BY <1>5 DEF ReleaseOne
    <2>2. /\ \A q \in Procs \ {p} : op'[q] = op[q]
          /\ op'[p].at = "release" /\ op'[p].kind = "complete" /\ op'[p].nodes = op[p].nodes
      BY <1>1, <1>2, <1>5, <2>1, RestFacts DEF ReleaseOne
    <2>3. l2'[m] = NoLine /\ \A k \in Nodes \ {m} : l2'[k] = l2[k] /\ versions'[k] = versions[k]
      BY <1>1, <2>1, DeletedFacts
    <2>4. ASSUME NEW n \in Nodes, Stage(p, n), n # m PROVE Stage(p, n)'
      <3>1. Same(n)
        BY <1>1, <2>1, <2>3, <2>4 DEF Same, history
      <3>2. Settled(n)' /\ ~l2'[n].dirty
        BY <1>3, <2>1, <2>4, <3>1, SameSettled DEF Same
      <3> QED BY <2>2, <3>2 DEF Stage
    <2>5. ASSUME Stage(p, m) PROVE Stage(p, m)'
      <3>1. Settled(m) /\ ~l2[m].dirty
        BY <1>3, <2>1, <2>5
      <3>2. Settled(m)'
        BY <1>1, <2>1, <2>3, <3>1, DropSettles DEF history
      <3> QED BY <2>2, <2>3, <3>2 DEF Stage, NoLine
    <2>6. \A n \in Nodes : Stage(p, n) => Stage(p, n)'
      BY <2>4, <2>5
    <2> QED BY <1>1, <1>2, <2>2, <2>6, AllNodesStep
  <1>6. CASE FlushFails(p) \/ Released(p)
    <2>1. UNCHANGED <<versions, l2, l0>> /\ Done(p)
      BY <1>6 DEF FlushFails, Released, tiers
    <2>2. \A n \in Nodes : Same(n)
      BY <1>1, <2>1 DEF Same, history
    <2>3. op'[p].at = "idle" /\ \A q \in Procs \ {p} : op'[q] = op[q]
      BY <1>1, <2>1, MoveFacts DEF Idle
    <2>4. \A n \in Nodes : Stage(p, n) => Settled(n)'
      BY <1>3, <2>2, SameSettled
    <2> QED BY <1>1, <1>2, <2>3, <2>4, AllNodesStep
  <1>7. CASE Gather(p)
    <2>1. op[p].at = "flush" /\ op[p].rest = {} /\ UNCHANGED <<versions, l2, l0>>
      BY <1>7 DEF Gather, tiers
    <2>2. /\ \A q \in Procs \ {p} : op'[q] = op[q]
          /\ op'[p].at = "release" /\ op'[p].kind = "complete" /\ op'[p].nodes = op[p].nodes
      BY <1>1, <1>2, <1>7, GatherFacts
    <2>3. \A n \in Nodes : Same(n)
      BY <1>1, <2>1 DEF Same, history
    <2>4. \A n \in Nodes : Stage(p, n) => Settled(n)' /\ ~l2'[n].dirty
      BY <1>3, <2>1, <2>3, SameSettled
    <2>5. \A n \in Nodes : Stage(p, n) => Stage(p, n)'
      BY <2>2, <2>4 DEF Stage
    <2> QED BY <1>1, <1>2, <2>2, <2>5, AllNodesStep
  <1> QED BY <1>4, <1>5, <1>6, <1>7

\* A restart keeps L0 only, and what is in L0 is what is owed from then on.
LEMMA KeptRestart ==
  ASSUME KeptInv, Restart
  PROVE  \A k \in Nodes : Kept(k)'
  <1>1. Inv
    BY DEF KeptInv
  <1>2. \A p \in Procs : op'[p] = Idle
    BY DEF Restart
  <1>3. ASSUME NEW n \in Nodes PROVE Kept(n)'
    <2>1. l2'[n] = NoLine /\ owed'[n] = l0'[n].doc
      BY DEF Restart
    <2>2. Owing(n)' /\ Critical(n)'
      BY <2>1 DEF Owing, InL0, Critical
    <2>3. Backed(n)' /\ DirtyIsOwed(n)'
      BY <2>1 DEF Backed, DirtyIsOwed, NoLine
    <2>4. \A p \in Procs : ~Works(p, n)'
      BY <1>2 DEF Works, Idle
    <2> QED BY <2>2, <2>3, <2>4 DEF Kept, Settled
  <1> QED BY <1>3

\* The invariant holds at first and is kept by every step.
LEMMA KeptInit == Init => KeptInv
  <1> SUFFICES ASSUME Init PROVE KeptInv
    OBVIOUS
  <1>1. Inv /\ InvalidMeansOlder
    BY InitInv DEF Init, InvalidMeansOlder, NoLine
  <1>2. Shaped
    BY IdleShape DEF Init, Shaped
  <1>3. Fresh
    BY DEF Init, Fresh, NoLine, NoEntry, Idle, NoDoc
  <1>4. ASSUME NEW n \in Nodes PROVE Kept(n)
    <2>1. l2[n] = NoLine /\ l0[n].doc = NoDoc /\ owed[n] = NoDoc /\ \A p \in Procs : op[p] = Idle
      BY DEF Init, NoEntry
    <2>2. Settled(n)
      BY <2>1 DEF Settled, Owing, InL0, Backed, Critical, DirtyIsOwed, NoLine, NoDoc
    <2>3. \A p \in Procs : ~Works(p, n)
      BY <2>1 DEF Works, Idle
    <2> QED BY <2>2, <2>3 DEF Kept
  <1> QED BY <1>1, <1>2, <1>3, <1>4 DEF KeptInv

\* Every step keeps it.
LEMMA KeptStep == KeptInv /\ [Next]_vars => KeptInv'
  <1> SUFFICES ASSUME KeptInv, [Next]_vars PROVE KeptInv'
    OBVIOUS
  <1>1. Inv' /\ InvalidMeansOlder' /\ Shaped' /\ Fresh'
    BY NextKeepsInv, NextKeepsOlder, ShapedStep, FreshStep DEF KeptInv
  <1>2. ASSUME NEW p \in Procs, Step(p) PROVE \A k \in Nodes : Kept(k)'
    BY <1>2, KeptDraw, KeptPut, KeptHook, KeptFetch, KeptFinish, KeptRemove, KeptNotice,
       KeptComplete DEF Step
  <1>3. ASSUME UNCHANGED vars PROVE \A k \in Nodes : Kept(k)'
    <2>1. ASSUME NEW k \in Nodes PROVE Kept(k)'
      <3>1. Same(k) /\ op' = op /\ raced' = raced /\ Kept(k)
        BY <1>3 DEF vars, tiers, history, Same, KeptInv
      <3>2. \A q : Stage(q, k)' <=> Stage(q, k)
        BY <3>1, SameStage
      <3>3. (Untouched(k)' <=> Untouched(k)) /\ \A q : Works(q, k)' <=> Works(q, k)
        BY <3>1 DEF Untouched, Works
      <3> QED BY <3>1, <3>2, <3>3, SameSettled DEF Kept
    <2> QED BY <2>1
  <1>4. \A k \in Nodes : Kept(k)'
    BY <1>2, <1>3, KeptCall, KeptRestart DEF Next
  <1> QED BY <1>1, <1>4 DEF KeptInv

\* Eviction, flush, hook and release lose no document that L2 owed to L0
\* (flush_node_to_l0, evict_stale_l2_line, on_task_complete, release of the subtree):
\* of a node no two calls have raced on, what its writers are owed is in L0 or in a
\* dirty line, and a line dropped without a flush is in L0.
THEOREM NothingIsLost == Spec => []NothingLost
  <1>1. KeptInv => NothingLost
    <2> SUFFICES ASSUME KeptInv PROVE NothingLost
      OBVIOUS
    <2>1. \A n \in Nodes : n \notin raced /\ Untouched(n) => Settled(n)
      BY DEF KeptInv, Kept
    <2>2. DurableKept
      BY <2>1 DEF DurableKept, Settled, Owing, InL0
    <2>3. CleanIsBacked
      BY <2>1 DEF CleanIsBacked, Settled, Backed
    <2>4. CriticalInL0
      BY <2>1 DEF CriticalInL0, Settled, Critical
    <2> QED BY <2>2, <2>3, <2>4 DEF NothingLost
  <1> QED BY <1>1, KeptInit, KeptStep, PTL DEF Spec

\* A step of one call leaves the others.
LEMMA OthersStay ==
  ASSUME Inv, Shaped, NEW p \in Procs, Call(p) \/ Step(p)
  PROVE  \A q \in Procs \ {p} : op'[q] = op[q]
  <1>1. CASE Call(p)
    <2>1. BeginComplete(p) \/ \E kind, at, nodes, doc : Start(p, kind, at, nodes, doc)
      BY <1>1 DEF Call, BeginWrite, BeginRead, BeginEvict, BeginDelete, Store
    <2> QED BY <2>1, StartFacts, CompleteFacts
  <1>2. CASE Done(p) \/ \E at : To(p, at)
    BY <1>2, MoveFacts
  <1>3. CASE Draw(p) \/ Fetch(p)
    <2>1. PICK n \in Nodes : Node(p) = n
      BY <1>3, OneNodeCall DEF Draw, Fetch, OneNode
    <2>2. CASE Draw(p) BY <2>1, <2>2, DrawFacts
    <2>3. CASE Fetch(p) BY <1>2, <2>1, <2>3, FetchFacts DEF Fetch
    <2> QED BY <1>3, <2>2, <2>3
  <1>4. CASE Look(p) \/ Gather(p)
    BY <1>4, LookFacts, GatherFacts
  <1>5. CASE \E m \in Nodes : FlushOne(p, m) \/ ReleaseOne(p, m)
    BY <1>5, RestFacts DEF FlushOne, ReleaseOne
  <1>6. CASE \/ EnqueueFails(p) \/ Put(p) \/ Hook(p) \/ HookFails(p) \/ Finish(p) \/ Remove(p)
             \/ FlushFails(p) \/ Released(p) \/ Notify(p) \/ Stored(p)
    BY <1>2, <1>6 DEF EnqueueFails, Put, Hook, HookFails, AfterHook, Finish, Remove, FlushFails,
       Released, Notify, Stored
  <1> QED BY <1>1, <1>3, <1>4, <1>5, <1>6 DEF Step

\* A reload ends with its last step.
LEMMA ReloadEnds ==
  ASSUME Inv, Shaped, [Next]_vars, NEW p \in Procs, op[p].at = "finish", op'[p].at = "idle",
         restarts' = restarts
  PROVE  Finish(p)
  <1>1. op'[p] # op[p]
    OBVIOUS
  <1>2. ~Restart
    BY Parts DEF Restart
  <1>3. PICK q \in Procs : Call(q) \/ Step(q)
    BY <1>1, <1>2 DEF Next, vars
  <1>4. q = p
    BY <1>1, <1>3, OthersStay
  <1>5. ~Call(p)
    BY DEF Call, BeginWrite, BeginRead, BeginEvict, BeginDelete, Store, Start, BeginComplete
  <1>6. Step(p) => Finish(p)
    BY DEF Step, Draw, EnqueueFails, Look, Put, Hook, HookFails, Fetch, Remove, FlushOne,
       FlushFails, Gather, ReleaseOne, Released, Notify, Stored
  <1> QED BY <1>3, <1>4, <1>5, <1>6

\* What the last step of a reload leaves.
LEMMA ReloadCopies ==
  ASSUME KeptInv, [Next]_vars, NEW p \in Procs, op[p].at = "finish", op'[p].at = "idle",
         restarts' = restarts, NEW n \in op[p].nodes \ raced
  PROVE  /\ l2'[n].doc = l0[n].doc /\ l2'[n].gen = l0[n].gen
         /\ ~l2'[n].dirty /\ l2'[n].state = "Shared"
  <1>1. Inv /\ Shaped /\ Finish(p)
    BY ReloadEnds DEF KeptInv
  <1>2. n \in Nodes /\ Node(p) = n /\ Works(p, n)
    BY <1>1, OneNodeCall DEF OneNode
  <1>3. op[p].kind = "read"
    BY <1>1 DEF Shaped, CallShape, KindsAt
  <1>4. Stage(p, n)
    BY <1>2 DEF KeptInv, Kept
  <1>5. Cached(n) /\ l2[n].doc = l0[n].doc /\ op[p].canon = l0[n].gen
    BY <1>3, <1>4 DEF Stage, Reloading
  <1> QED BY <1>1, <1>2, <1>5, FinishFacts

\* The last step of a reload that did not race leaves the clean, valid copy of the L0
\* entry (write_node_from_l0 below on_l2_read), whatever the generations were before.
THEOREM ReloadsRepair == Spec => ReloadRepairs
  <1>1. ASSUME KeptInv, [Next]_vars
        PROVE  [\A p \in Procs: op[p].at = "finish" /\ op'[p].at = "idle" /\ restarts' = restarts =>
                  \A n \in op[p].nodes \ raced:
                    /\ l2'[n].doc = l0[n].doc /\ l2'[n].gen = l0[n].gen
                    /\ ~l2'[n].dirty /\ l2'[n].state = "Shared"]_vars
    BY <1>1, ReloadCopies
  <1> QED BY <1>1, KeptInit, KeptStep, PTL DEF Spec, ReloadRepairs
=============================================================================
