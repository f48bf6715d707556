--------------------------- MODULE BlackboardProofs ---------------------------
(***************************************************************************)
(* Theorems about Blackboard, for any callers, nodes, graphs, calls, queue *)
(* capacity and failures of the store.                                     *)
(*                                                                         *)
(*   TypeCorrect         the types, the queue's capacity among them        *)
(*   MirrorIsNewest      what is worked off shows the newest generation    *)
(*   MirrorFollowsCache  and that is the cached one where calls do not     *)
(*                       meet and no update is dropped                     *)
(*   DeletesComplete     a delete that reports success leaves nothing but  *)
(*                       what the document left behind by moving           *)
(*   IndexFollowsCache   the indices list what is cached                   *)
(*   CountersFollowCache the counters count what is cached                 *)
(*   BookkeepingIsExact  both, and the capacity is kept between calls      *)
(*                                                                         *)
(* The invariants, in this order: TypeInv, HomeInv, HeldInv, NewestInv,    *)
(* AgreeInv, DeleteInv, BooksInv, CountInv, SoloInv and CapacityInv.       *)
(***************************************************************************)
EXTENDS Blackboard, FiniteSetTheorems, TLAPS

Places == {"idle", "draw", "send", "look", "put", "remove", "unlink", "barrier", "await",
           "returned"}
Op == [kind : {"none", "write", "delete"}, at : Places, todo : Seq(Item), gen : Nat,
       old : Line, ok : BOOLEAN]
FullLine == [gen : Nat, graph : Graphs, key : Keys, size : 1..Wrap - 1]

\* A call that is not idle has an item in hand; each step belongs to one kind of
\* call; a delete knows the line it took out.
CallSound(o) ==
  /\ o.at = "idle" => o.todo = <<>>
  /\ o.at # "idle" => o.todo # <<>> /\ o.kind # "none"
  /\ o.at \in {"look", "put"} => o.kind = "write"
  /\ o.at \in {"remove", "unlink", "barrier", "await", "returned"} => o.kind = "delete"
  /\ o.kind = "delete" /\ o.at # "remove" => o.old \in FullLine

\* A caller whose barrier is in the queue waits for it, and has one there.
BarrierInv ==
  /\ \A i \in DOMAIN queue : queue[i].type = "barrier" => op[queue[i].by].at = "await"
  /\ \A i, j \in DOMAIN queue :
       queue[i].type = "barrier" /\ queue[j].type = "barrier" /\ queue[i].by = queue[j].by => i = j

TypeInv == TypeOK /\ (\A p \in Procs : CallSound(op[p])) /\ BarrierInv

(***************************************************************************)
(* Sequences.                                                              *)
(***************************************************************************)
LEMMA ItemsSplit ==
  ASSUME NEW s \in Seq(Item), s # <<>>
  PROVE  /\ Head(s) \in Item /\ Tail(s) \in Seq(Item)
         /\ Len(s) # 1 => Tail(s) # <<>>
         /\ Head(s).node \in NodesOf(s) /\ NodesOf(Tail(s)) \subseteq NodesOf(s)
         /\ NodesOf(s) = {Head(s).node} \union NodesOf(Tail(s))
  <1>0. Head(s) \in Item /\ Tail(s) \in Seq(Item) /\ Len(Tail(s)) = Len(s) - 1 /\ Len(s) \in Nat \ {0}
    OBVIOUS
  <1>1. Len(s) # 1 => Tail(s) # <<>>
    <2>1. Len(<<>>) = 0
      OBVIOUS
    <2>2. Len(s) # 1 => Len(Tail(s)) # 0
      BY <1>0
    <2> QED
      BY <2>1, <2>2, Zenon
  <1>2. Len(s) \in Nat \ {0} /\ DOMAIN s = 1..Len(s) /\ Head(s) = s[1]
    OBVIOUS
  <1>3. DOMAIN Tail(s) = 1..Len(s) - 1 /\ \A i \in 1..Len(s) - 1 : Tail(s)[i] = s[i + 1]
    BY <1>2
  <1>4. Head(s).node \in NodesOf(s)
    BY <1>2 DEF NodesOf
  <1>5. NodesOf(Tail(s)) \subseteq NodesOf(s)
    <2> SUFFICES ASSUME NEW i \in DOMAIN Tail(s) PROVE Tail(s)[i].node \in NodesOf(s)
      BY DEF NodesOf
    <2>1. i + 1 \in DOMAIN s /\ Tail(s)[i] = s[i + 1]
      BY <1>2, <1>3
    <2> QED
      BY <2>1 DEF NodesOf
  <1>6. NodesOf(s) \subseteq {Head(s).node} \union NodesOf(Tail(s))
    <2> SUFFICES ASSUME NEW i \in DOMAIN s PROVE s[i].node \in {Head(s).node} \union NodesOf(Tail(s))
      BY DEF NodesOf
    <2>1. CASE i = 1
      BY <1>2, <2>1
    <2>2. CASE i # 1
      <3>1. i - 1 \in DOMAIN Tail(s) /\ Tail(s)[i - 1] = s[i]
        BY <1>2, <1>3, <2>2
      <3> QED
        BY <3>1 DEF NodesOf
    <2> QED
      BY <2>1, <2>2
  <1> QED
    BY <1>0, <1>1, <1>4, <1>5, <1>6

LEMMA NodesTyped ==
  ASSUME NEW s \in Seq(Item)
  PROVE  NodesOf(s) \subseteq Nodes /\ (s = <<>> => NodesOf(s) = {})
  <1>1. \A i \in DOMAIN s : s[i] \in Item
    OBVIOUS
  <1> QED
    BY <1>1 DEF NodesOf, Item

LEMMA QueueGrows ==
  ASSUME NEW S, NEW q \in Seq(S), NEW c \in S
  PROVE  /\ Append(q, c) \in Seq(S) /\ Len(Append(q, c)) = Len(q) + 1
         /\ DOMAIN Append(q, c) = DOMAIN q \union {Len(q) + 1}
         /\ Len(q) + 1 \notin DOMAIN q
         /\ \A i \in DOMAIN q : Append(q, c)[i] = q[i]
         /\ Append(q, c)[Len(q) + 1] = c
  OBVIOUS

LEMMA QueueShrinks ==
  ASSUME NEW S, NEW q \in Seq(S), q # <<>>
  PROVE  /\ Tail(q) \in Seq(S) /\ Len(Tail(q)) = Len(q) - 1 /\ Head(q) \in S
         /\ 1 \in DOMAIN q /\ Head(q) = q[1]
         /\ \A i \in DOMAIN Tail(q) : i \in Nat /\ i + 1 \in DOMAIN q /\ Tail(q)[i] = q[i + 1]
         /\ \A i \in DOMAIN q : i \in Nat /\ (i # 1 => i - 1 \in DOMAIN Tail(q) /\ Tail(q)[i - 1] = q[i])
  OBVIOUS

LEMMA Modulo == \A a \in Int : a % Wrap \in 0..Wrap - 1
  BY BlackboardAssumption

(***************************************************************************)
(* Types.                                                                  *)
(***************************************************************************)
LEMMA Parts ==
  ASSUME TypeInv
  PROVE  /\ versions \in [Nodes -> [gen : Nat, tomb : BOOLEAN]]
         /\ cache \in [Nodes -> Line] /\ index \in [Keys -> SUBSET Nodes]
         /\ nodeCount \in 0..Wrap - 1 /\ totalBytes \in 0..Wrap - 1
         /\ queue \in Seq(Commands) /\ Len(queue) <= Cap
         /\ errors \subseteq Nodes /\ mirror \in [Nodes -> [Graphs -> Nat]]
         /\ worker \in {"running", "exited"}
         /\ op \in [Procs -> Op] /\ (\A p \in Procs : CallSound(op[p]))
         /\ teardown \in {"no", "signalled", "unsignalled", "done"}
         /\ target \in [Nodes -> Graphs \union {"none"}] /\ homes \in [Nodes -> SUBSET Graphs]
         /\ dropped \subseteq Nodes /\ disputed \subseteq Nodes /\ raced \subseteq Nodes
         /\ lapsed \subseteq Nodes /\ leaked \subseteq Nodes /\ misreported \subseteq Nodes
         /\ overlapped \in BOOLEAN /\ BarrierInv
  BY DEF TypeInv, TypeOK, Op, Places

LEMMA Assemble ==
  ASSUME versions' \in [Nodes -> [gen : Nat, tomb : BOOLEAN]],
         cache' \in [Nodes -> Line], index' \in [Keys -> SUBSET Nodes],
         nodeCount' \in 0..Wrap - 1, totalBytes' \in 0..Wrap - 1,
         queue' \in Seq(Commands), Len(queue') <= Cap,
         errors' \subseteq Nodes, mirror' \in [Nodes -> [Graphs -> Nat]],
         worker' \in {"running", "exited"},
         op' \in [Procs -> Op], \A p \in Procs : CallSound(op'[p]),
         teardown' \in {"no", "signalled", "unsignalled", "done"},
         target' \in [Nodes -> Graphs \union {"none"}], homes' \in [Nodes -> SUBSET Graphs],
         dropped' \subseteq Nodes, disputed' \subseteq Nodes, raced' \subseteq Nodes,
         lapsed' \subseteq Nodes, leaked' \subseteq Nodes, misreported' \subseteq Nodes,
         overlapped' \in BOOLEAN, BarrierInv'
  PROVE  TypeInv'
  BY DEF TypeInv, TypeOK, Op, Places, Cap

LEMMA NoLineIsNotFull == NoLine \notin FullLine
  BY DEF NoLine, FullLine

LEMMA IdleSound == Idle \in Op /\ CallSound(Idle) /\ Idle.todo = <<>> /\ Idle.at = "idle"
  BY DEF Idle, Op, Places, CallSound, Line

\* The item in hand.
LEMMA InHand ==
  ASSUME TypeInv, NEW p \in Procs, op[p].at # "idle"
  PROVE  /\ op[p] \in Op /\ op[p].todo \in Seq(Item) /\ op[p].todo # <<>>
         /\ Now(p) \in Item /\ Now(p).node \in Nodes /\ Now(p).graph \in Graphs
         /\ Now(p).key \in Keys /\ Now(p).size \in 1..Wrap - 1 /\ Now(p).blank \in BOOLEAN
         /\ Now(p).node \in Active(p)
         /\ op[p].kind \in {"write", "delete"}
  <1>1. op[p] \in Op /\ op[p].todo \in Seq(Item) /\ op[p].todo # <<>> /\ op[p].kind # "none"
    BY Parts DEF Op, CallSound
  <1>2. Now(p) \in Item /\ Now(p).node \in Active(p)
    BY <1>1, ItemsSplit DEF Now, Active
  <1>3. op[p].kind \in {"write", "delete"}
    BY <1>1 DEF Op
  <1> QED
    BY <1>1, <1>2, <1>3 DEF Item

\* What a call is once its item is done.
LEMMA AfterItemSound ==
  ASSUME NEW o \in Op, o.todo # <<>>, o.kind \in {"write", "delete"}
  PROVE  AfterItem(o) \in Op /\ CallSound(AfterItem(o))
  <1>1. CASE Len(o.todo) = 1
    BY <1>1, IdleSound DEF AfterItem
  <1>2. CASE Len(o.todo) # 1
    <2>1. Tail(o.todo) \in Seq(Item) /\ Tail(o.todo) # <<>>
      BY <1>2, ItemsSplit DEF Op
    <2>2. PICK at : at = IF o.kind = "write" THEN "draw" ELSE "remove"
      OBVIOUS
    <2>3. AfterItem(o) = [Idle EXCEPT !.kind = o.kind, !.todo = Tail(o.todo), !.at = at]
      BY <1>2, <2>2 DEF AfterItem
    <2>4. Idle \in Op
      BY IdleSound
    <2>5. AfterItem(o) \in Op
      BY <2>1, <2>2, <2>3, <2>4 DEF Op, Places
    <2>6. AfterItem(o).kind = o.kind /\ AfterItem(o).todo = Tail(o.todo) /\ AfterItem(o).at = at
      BY <2>3, <2>4 DEF Op
    <2> QED
      BY <2>1, <2>2, <2>5, <2>6 DEF CallSound
  <1> QED
    BY <1>1, <1>2

\* A call that moves on, in a step that leaves the queue alone.
LEMMA Moved ==
  ASSUME TypeInv, NEW p \in Procs, NEW o \in Op, CallSound(o), op' = [op EXCEPT ![p] = o],
         queue' = queue, op[p].at # "await" \/ o.at = "await"
  PROVE  op' \in [Procs -> Op] /\ (\A q \in Procs : CallSound(op'[q])) /\ BarrierInv'
  <1>1. op' \in [Procs -> Op] /\ \A q \in Procs : CallSound(op'[q])
    BY Parts
  <1>2. \A i \in DOMAIN queue : queue[i].type = "barrier" => op'[queue[i].by].at = "await"
    <2> SUFFICES ASSUME NEW i \in DOMAIN queue, queue[i].type = "barrier"
                 PROVE  op'[queue[i].by].at = "await"
      OBVIOUS
    <2>1. queue[i] \in Commands /\ op[queue[i].by].at = "await"
      BY Parts DEF BarrierInv
    <2>2. queue[i].by \in Procs
      BY <2>1 DEF Commands
    <2> QED
      BY <2>1, <2>2, Parts
  <1>3. BarrierInv'
    BY <1>2, Parts DEF BarrierInv
  <1> QED
    BY <1>1, <1>3

LEMMA InitTypeInv == Init => TypeInv
  <1> SUFFICES ASSUME Init PROVE TypeInv
    OBVIOUS
  <1>1. op \in [Procs -> Op] /\ \A p \in Procs : CallSound(op[p])
    BY IdleSound DEF Init
  <1>2. BarrierInv
    BY DEF Init, BarrierInv
  <1>3. queue \in Seq(Commands) /\ Len(queue) <= Cap
    BY BlackboardAssumption DEF Init, Cap
  <1>4. nodeCount \in 0..Wrap - 1 /\ totalBytes \in 0..Wrap - 1
    BY BlackboardAssumption DEF Init
  <1> QED
    BY <1>1, <1>2, <1>3, <1>4 DEF Init, TypeInv, TypeOK, Line, Op, Places

\* Commands join the queue where there is room.
LEMMA Enqueued ==
  ASSUME TypeInv, NEW c \in Commands, Room, queue' = Append(queue, c)
  PROVE  queue' \in Seq(Commands) /\ Len(queue') <= Cap
  <1>1. /\ Append(queue, c) \in Seq(Commands) /\ Len(Append(queue, c)) = Len(queue) + 1
    BY Parts, QueueGrows
  <1>2. Len(queue) \in Nat /\ Cap \in Nat
    BY Parts, BlackboardAssumption DEF Cap
  <1> QED
    BY <1>1, <1>2 DEF Room

\* A command that is no barrier changes nothing for the callers that wait.
LEMMA EnqueuedMoved ==
  ASSUME TypeInv, NEW p \in Procs, NEW o \in Op, CallSound(o), op' = [op EXCEPT ![p] = o],
         NEW c \in Commands, Room, queue' = Append(queue, c), op[p].at # "await",
         c.type # "barrier" \/ (c.by = p /\ o.at = "await")
  PROVE  op' \in [Procs -> Op] /\ (\A q \in Procs : CallSound(op'[q])) /\ BarrierInv'
  <1>1. op' \in [Procs -> Op] /\ \A q \in Procs : CallSound(op'[q])
    BY Parts
  <1>2. /\ DOMAIN queue' = DOMAIN queue \union {Len(queue) + 1} /\ Len(queue) + 1 \notin DOMAIN queue
        /\ \A i \in DOMAIN queue : queue'[i] = queue[i]
        /\ queue'[Len(queue) + 1] = c
    BY Parts, QueueGrows
  <1>3. ASSUME NEW i \in DOMAIN queue, queue[i].type = "barrier"
        PROVE  queue[i].by # p /\ op'[queue[i].by].at = "await"
    <2>1. queue[i] \in Commands /\ op[queue[i].by].at = "await"
      BY <1>3, Parts DEF BarrierInv
    <2>2. queue[i].by \in Procs
      BY <1>3, <2>1 DEF Commands
    <2> QED
      BY <2>1, <2>2, Parts
  <1>4. c.type = "barrier" => c.by = p /\ op'[p].at = "await"
    BY Parts
  <1>5. \A i \in DOMAIN queue' : queue'[i].type = "barrier" => op'[queue'[i].by].at = "await"
    BY <1>2, <1>3, <1>4
  <1>6. ASSUME NEW i \in DOMAIN queue', NEW j \in DOMAIN queue',
               queue'[i].type = "barrier", queue'[j].type = "barrier", queue'[i].by = queue'[j].by
        PROVE  i = j
    <2>1. CASE i \in DOMAIN queue /\ j \in DOMAIN queue
      BY <1>2, <1>6, <2>1, Parts DEF BarrierInv
    <2>2. CASE ~(i \in DOMAIN queue /\ j \in DOMAIN queue)
      BY <1>2, <1>3, <1>4, <1>6, <2>2
    <2> QED
      BY <2>1, <2>2
  <1>7. BarrierInv'
    BY <1>5, <1>6 DEF BarrierInv
  <1> QED
    BY <1>1, <1>7

\* The worker takes the head of the queue.
LEMMA Dequeued ==
  ASSUME TypeInv, queue # <<>>, queue' = Tail(queue)
  PROVE  /\ queue' \in Seq(Commands) /\ Len(queue') <= Cap
         /\ Head(queue) \in Commands
         /\ op' = op => BarrierInv'
  <1>1. /\ Tail(queue) \in Seq(Commands) /\ Len(Tail(queue)) = Len(queue) - 1
        /\ Head(queue) \in Commands
        /\ \A i \in DOMAIN Tail(queue) : i \in Nat /\ i + 1 \in DOMAIN queue /\ Tail(queue)[i] = queue[i + 1]
    BY Parts, QueueShrinks
  <1>2. Len(queue) \in Nat /\ Cap \in Nat
    BY Parts, BlackboardAssumption DEF Cap
  <1>3. ASSUME op' = op PROVE BarrierInv'
    <2>1. ASSUME NEW i \in DOMAIN queue', NEW j \in DOMAIN queue',
                 queue'[i].type = "barrier", queue'[j].type = "barrier", queue'[i].by = queue'[j].by
          PROVE  i = j
      <3>1. i \in Nat /\ j \in Nat /\ i + 1 = j + 1
        BY <1>1, <2>1, Parts DEF BarrierInv
      <3> QED
        BY <3>1
    <2>2. \A i \in DOMAIN queue' : queue'[i].type = "barrier" => op'[queue'[i].by].at = "await"
      BY <1>1, <1>3, Parts DEF BarrierInv
    <2> QED
      BY <2>1, <2>2 DEF BarrierInv
  <1> QED
    BY <1>1, <1>2, <1>3, Parts

LEMMA UnlistedTyped ==
  ASSUME TypeInv, NEW n \in Nodes, NEW line \in Line
  PROVE  Unlisted(n, line) \in [Keys -> SUBSET Nodes]
  BY Parts DEF Unlisted, Line

LEMMA SizeOfLine == \A line \in Line : line.size \in 0..Wrap - 1
  BY BlackboardAssumption DEF Line, NoLine

\* The steps of the callers.
LEMMA BeginTyped ==
  ASSUME TypeInv, NEW p \in Procs, NEW c \in Calls, Begin(p, c)
  PROVE  TypeInv'
  <1>1. c.kind \in {"write", "delete"} /\ c.todo \in Seq(Item) /\ c.todo # <<>>
    BY BlackboardAssumption
  <1>2. PICK o : o = [Idle EXCEPT !.kind = c.kind, !.todo = c.todo,
                                  !.at = IF c.kind = "write" THEN "draw" ELSE "remove"]
    OBVIOUS
  <1>3. o \in Op /\ CallSound(o)
    <2>1. PICK at : at = IF c.kind = "write" THEN "draw" ELSE "remove"
      OBVIOUS
    <2>2. o = [Idle EXCEPT !.kind = c.kind, !.todo = c.todo, !.at = at]
      BY <1>2, <2>1
    <2>3. o \in Op
      BY <1>1, <2>1, <2>2, IdleSound DEF Op, Places
    <2>4. o.kind = c.kind /\ o.todo = c.todo /\ o.at = at
      BY <2>2, IdleSound DEF Op
    <2> QED
      BY <1>1, <2>1, <2>3, <2>4 DEF CallSound
  <1>4. op' = [op EXCEPT ![p] = o] /\ op[p].at = "idle" /\ queue' = queue
    BY <1>2 DEF Begin, outbox
  <1>5. op' \in [Procs -> Op] /\ (\A q \in Procs : CallSound(op'[q])) /\ BarrierInv'
    BY <1>3, <1>4, Moved
  <1>6. Met(c) \subseteq Nodes
    BY <1>1, NodesTyped DEF Met
  <1>7. raced' \subseteq Nodes /\ disputed' \subseteq Nodes /\ overlapped' \in BOOLEAN
    BY <1>6, Parts DEF Begin
  <1> QED
    BY <1>5, <1>7, Parts, Assemble DEF Begin, outbox, counters

LEMMA DrawTyped ==
  ASSUME TypeInv, NEW p \in Procs, Draw(p)
  PROVE  TypeInv'
  <1>1. /\ op[p] \in Op /\ CallSound(op[p]) /\ Now(p).node \in Nodes
        /\ op[p].kind \in {"write", "delete"} /\ op[p].at = "draw"
    BY InHand, Parts DEF Draw
  <1>2. PICK g \in Nat : g = versions[Now(p).node].gen + 1
    BY <1>1, Parts
  <1>3. PICK o : o = [op[p] EXCEPT !.gen = g, !.at = "send"]
    OBVIOUS
  <1>4. op' = [op EXCEPT ![p] = o]
    BY <1>2, <1>3, Parts DEF Draw
  <1>5. /\ o \in Op /\ o.at = "send" /\ o.todo = op[p].todo /\ o.kind = op[p].kind
        /\ o.old = op[p].old
    BY <1>1, <1>2, <1>3 DEF Op, Places
  <1>6. CallSound(o)
    BY <1>1, <1>5 DEF CallSound
  <1>7. op' \in [Procs -> Op] /\ (\A q \in Procs : CallSound(op'[q])) /\ BarrierInv'
    BY <1>1, <1>4, <1>5, <1>6, Moved DEF Draw, outbox
  <1>8. versions' = [versions EXCEPT ![Now(p).node] = [gen |-> g, tomb |-> op[p].kind = "delete"]]
    BY <1>2 DEF Draw
  <1>9. versions' \in [Nodes -> [gen : Nat, tomb : BOOLEAN]]
    <2>1. (op[p].kind = "delete") \in BOOLEAN
      OBVIOUS
    <2> QED
      BY <1>1, <1>8, <2>1, Parts
  <1>10. GraphOf(p) \in Graphs
    BY <1>1, InHand DEF GraphOf, CallSound, FullLine
  <1>11. /\ target' \in [Nodes -> Graphs \union {"none"}]
         /\ dropped' \subseteq Nodes /\ disputed' \subseteq Nodes
    BY <1>10, Parts DEF Draw
  <1> QED
    BY <1>7, <1>9, <1>11, Parts, Assemble DEF Draw, outbox, counters

\* The command that is sent.
LEMMA CommandTyped ==
  ASSUME TypeInv, NEW p \in Procs, op[p].at = "send"
  PROVE  /\ Command(p) \in Commands /\ Command(p).type = op[p].kind
         /\ Command(p).node = Now(p).node /\ Command(p).gen = op[p].gen
         /\ Command(p).graph = GraphOf(p)
         /\ Command(p).graph = IF op[p].kind = "write" THEN Now(p).graph ELSE op[p].old.graph
         /\ Command(p).blank = (op[p].kind = "write" /\ Now(p).blank)
  <1>1. /\ op[p] \in Op /\ CallSound(op[p]) /\ Now(p) \in Item
        /\ op[p].kind \in {"write", "delete"}
    BY InHand, Parts
  <1>2. PICK g \in Graphs : g = IF op[p].kind = "write" THEN Now(p).graph ELSE op[p].old.graph
    BY <1>1 DEF CallSound, FullLine, Item
  <1>3. PICK b \in BOOLEAN : b = (op[p].kind = "write" /\ Now(p).blank)
    OBVIOUS
  <1>4. Command(p) = [type |-> op[p].kind, node |-> Now(p).node, gen |-> op[p].gen,
                      graph |-> g, blank |-> b]
    BY <1>2, <1>3 DEF Command, GraphOf
  <1>5. Command(p) \in [type : {"write", "delete"}, node : Nodes, gen : Nat, graph : Graphs,
                        blank : BOOLEAN]
    BY <1>1, <1>2, <1>3, <1>4 DEF Item, Op
  <1>6. Command(p) \in Commands
    BY <1>5 DEF Commands
  <1> QED
    BY <1>2, <1>3, <1>4, <1>6 DEF GraphOf

LEMMA SendTyped ==
  ASSUME TypeInv, NEW p \in Procs, Send(p)
  PROVE  TypeInv'
  <1>1. /\ op[p] \in Op /\ CallSound(op[p]) /\ Now(p).node \in Nodes /\ Now(p).graph \in Graphs
        /\ op[p].kind \in {"write", "delete"} /\ op[p].at = "send"
    BY InHand, Parts DEF Send
  <1>2. PICK at : at = IF op[p].kind = "write" THEN "look" ELSE "unlink"
    OBVIOUS
  <1>3. PICK o : o = [op[p] EXCEPT !.at = at]
    OBVIOUS
  <1>4. op' = [op EXCEPT ![p] = o]
    BY <1>2, <1>3, Parts DEF Send
  <1>5. o \in Op /\ o.at = at /\ o.todo = op[p].todo /\ o.kind = op[p].kind /\ o.old = op[p].old
    BY <1>1, <1>2, <1>3 DEF Op, Places
  <1>6. CallSound(o)
    BY <1>1, <1>2, <1>5 DEF CallSound
  <1>7. Command(p) \in Commands /\ Command(p).type # "barrier"
    BY <1>1, CommandTyped
  <1>8. op' \in [Procs -> Op] /\ (\A q \in Procs : CallSound(op'[q])) /\ BarrierInv'
    BY <1>1, <1>4, <1>5, <1>6, <1>7, EnqueuedMoved DEF Send
  <1>9. queue' \in Seq(Commands) /\ Len(queue') <= Cap
    BY <1>7, Enqueued DEF Send
  <1>10. homes' \in [Nodes -> SUBSET Graphs]
    BY <1>1, Parts DEF Send
  <1> QED
    BY <1>8, <1>9, <1>10, Parts, Assemble DEF Send, counters

LEMMA TimeOutTyped ==
  ASSUME TypeInv, NEW p \in Procs, TimeOut(p)
  PROVE  TypeInv'
  <1>1. /\ op[p] \in Op /\ CallSound(op[p]) /\ Now(p).node \in Nodes /\ op[p].todo # <<>>
        /\ op[p].kind \in {"write", "delete"} /\ op[p].at = "send"
    BY InHand, Parts DEF TimeOut
  <1>2. PICK o : o = IF op[p].kind = "write" THEN Idle ELSE AfterItem(op[p])
    OBVIOUS
  <1>3. op' = [op EXCEPT ![p] = o]
    BY <1>2, Parts DEF TimeOut
  <1>4. o \in Op /\ CallSound(o)
    BY <1>1, <1>2, IdleSound, AfterItemSound
  <1>5. op' \in [Procs -> Op] /\ (\A q \in Procs : CallSound(op'[q])) /\ BarrierInv'
    BY <1>1, <1>3, <1>4, Moved DEF TimeOut, outbox
  <1>6. lapsed' \subseteq Nodes /\ leaked' \subseteq Nodes /\ dropped' \subseteq Nodes
    BY <1>1, Parts DEF TimeOut
  <1> QED
    BY <1>5, <1>6, Parts, Assemble DEF TimeOut, outbox, counters

LEMMA LookTyped ==
  ASSUME TypeInv, NEW p \in Procs, Look(p)
  PROVE  TypeInv'
  <1>1. /\ op[p] \in Op /\ CallSound(op[p]) /\ Now(p).node \in Nodes
        /\ op[p].kind = "write" /\ op[p].at = "look"
    BY InHand, Parts DEF Look, CallSound
  <1>2. PICK line \in Line : line = cache[Now(p).node]
    BY <1>1, Parts
  <1>3. PICK o : o = [op[p] EXCEPT !.old = line, !.at = "put"]
    OBVIOUS
  <1>4. op' = [op EXCEPT ![p] = o]
    BY <1>2, <1>3, Parts DEF Look
  <1>5. o \in Op /\ o.at = "put" /\ o.todo = op[p].todo /\ o.kind = op[p].kind
    BY <1>1, <1>3 DEF Op, Places
  <1>6. CallSound(o)
    BY <1>1, <1>5 DEF CallSound
  <1>7. op' \in [Procs -> Op] /\ (\A q \in Procs : CallSound(op'[q])) /\ BarrierInv'
    BY <1>1, <1>4, <1>5, <1>6, Moved DEF Look, outbox
  <1>8. index' \in [Keys -> SUBSET Nodes]
    BY <1>1, <1>2, UnlistedTyped DEF Look
  <1> QED
    BY <1>7, <1>8, Parts, Assemble DEF Look, outbox, counters, history

LEMMA PutTyped ==
  ASSUME TypeInv, NEW p \in Procs, Put(p)
  PROVE  TypeInv'
  <1>1. /\ op[p] \in Op /\ Now(p) \in Item /\ op[p].todo # <<>>
        /\ op[p].kind \in {"write", "delete"} /\ op[p].at = "put"
    BY InHand, Parts DEF Put
  <1>2. PICK o : o = AfterItem(op[p])
    OBVIOUS
  <1>3. op' = [op EXCEPT ![p] = o] /\ o \in Op /\ CallSound(o)
    BY <1>1, <1>2, AfterItemSound, Parts DEF Put
  <1>4. op' \in [Procs -> Op] /\ (\A q \in Procs : CallSound(op'[q])) /\ BarrierInv'
    BY <1>1, <1>3, Moved DEF Put, outbox
  <1>5. PICK line : line = [gen |-> op[p].gen, graph |-> Now(p).graph, key |-> Now(p).key,
                            size |-> Now(p).size]
    OBVIOUS
  <1>6. line \in Line
    BY <1>1, <1>5 DEF Line, Op, Item
  <1>7. cache' = [cache EXCEPT ![Now(p).node] = line]
    BY <1>5 DEF Put
  <1>8. cache' \in [Nodes -> Line]
    BY <1>6, <1>7, Parts
  <1>9. index' \in [Keys -> SUBSET Nodes]
    BY <1>1, Parts DEF Put, Item
  <1>10. nodeCount' \in 0..Wrap - 1 /\ totalBytes' \in 0..Wrap - 1
    <2>1. PICK size \in 1..Wrap - 1 : size = Now(p).size
      BY <1>1 DEF Item
    <2>2. PICK old \in 0..Wrap - 1 : old = op[p].old.size
      BY <1>1, SizeOfLine DEF Op
    <2>3. /\ nodeCount' = IF op[p].old = NoLine THEN Add64(nodeCount, 1) ELSE nodeCount
          /\ totalBytes' = IF size >= old THEN Add64(totalBytes, size - old)
                                          ELSE Sub64(totalBytes, old - size)
      BY <2>1, <2>2 DEF Put, Count
    <2>4. Wrap \in Nat \ {0}
      BY BlackboardAssumption
    <2>5. Add64(nodeCount, 1) \in 0..Wrap - 1
      <3>1. nodeCount + 1 \in Int
        BY <2>4, Parts
      <3> QED
        BY <3>1, Modulo DEF Add64
    <2>6. size >= old => Add64(totalBytes, size - old) \in 0..Wrap - 1
      <3>1. totalBytes + (size - old) \in Int
        BY <2>1, <2>2, <2>4, Parts
      <3> QED
        BY <3>1, Modulo DEF Add64
    <2>7. Sub64(totalBytes, old - size) \in 0..Wrap - 1
      <3>1. totalBytes + Wrap - (old - size) \in Int
        BY <2>1, <2>2, <2>4, Parts
      <3> QED
        BY <3>1, Modulo DEF Sub64
    <2> QED
      BY <2>3, <2>5, <2>6, <2>7, Parts
  <1> QED
    BY <1>4, <1>8, <1>9, <1>10, Parts, Assemble DEF Put, outbox, history

LEMMA UncacheTyped ==
  ASSUME TypeInv, NEW p \in Procs, Uncache(p)
  PROVE  TypeInv'
  <1>1. /\ op[p] \in Op /\ CallSound(op[p]) /\ Now(p).node \in Nodes /\ op[p].todo # <<>>
        /\ op[p].kind = "delete" /\ op[p].at = "remove"
    BY InHand, Parts DEF Uncache, CallSound
  <1>2. PICK line \in Line : line = cache[Now(p).node]
    BY <1>1, Parts
  <1>3. PICK o : o = IF line = NoLine THEN AfterItem(op[p])
                     ELSE [op[p] EXCEPT !.old = line, !.at = "draw"]
    OBVIOUS
  <1>4. op' = [op EXCEPT ![p] = o]
    <2>1. CASE line = NoLine
      BY <1>2, <1>3, <2>1, Parts DEF Uncache
    <2>2. CASE line # NoLine
      BY <1>2, <1>3, <2>2, Parts DEF Uncache
    <2> QED
      BY <2>1, <2>2
  <1>5. o \in Op /\ CallSound(o)
    <2>1. CASE line = NoLine
      BY <1>1, <1>3, <2>1, AfterItemSound
    <2>2. CASE line # NoLine
      <3>1. o = [op[p] EXCEPT !.old = line, !.at = "draw"]
        BY <1>3, <2>2
      <3>2. o \in Op /\ o.at = "draw" /\ o.todo = op[p].todo /\ o.kind = op[p].kind /\ o.old = line
        BY <1>1, <3>1 DEF Op, Places
      <3>3. line \in FullLine
        BY <1>2, <2>2 DEF Line, FullLine
      <3> QED
        BY <1>1, <3>2, <3>3 DEF CallSound
    <2> QED
      BY <2>1, <2>2
  <1>6. op' \in [Procs -> Op] /\ (\A q \in Procs : CallSound(op'[q])) /\ BarrierInv'
    BY <1>1, <1>4, <1>5, Moved DEF Uncache, outbox
  <1>7. cache' \in [Nodes -> Line]
    <2>1. NoLine \in Line
      BY DEF Line
    <2> QED
      BY <1>1, <2>1, Parts DEF Uncache
  <1> QED
    BY <1>6, <1>7, Parts, Assemble DEF Uncache, outbox, counters, history

LEMMA UnlinkTyped ==
  ASSUME TypeInv, NEW p \in Procs, Unlink(p)
  PROVE  TypeInv'
  <1>1. /\ op[p] \in Op /\ CallSound(op[p]) /\ Now(p).node \in Nodes
        /\ op[p].kind = "delete" /\ op[p].at = "unlink" /\ op[p].old \in FullLine
    BY InHand, Parts DEF Unlink, CallSound
  <1>2. PICK o : o = [op[p] EXCEPT !.at = "barrier"]
    OBVIOUS
  <1>3. op' = [op EXCEPT ![p] = o]
    BY <1>2, Parts DEF Unlink
  <1>4. o \in Op /\ o.at = "barrier" /\ o.todo = op[p].todo /\ o.kind = op[p].kind /\ o.old = op[p].old
    BY <1>1, <1>2 DEF Op, Places
  <1>5. CallSound(o)
    BY <1>1, <1>4 DEF CallSound
  <1>6. op' \in [Procs -> Op] /\ (\A q \in Procs : CallSound(op'[q])) /\ BarrierInv'
    BY <1>1, <1>3, <1>4, <1>5, Moved DEF Unlink, outbox
  <1>7. PICK line \in Line : line = op[p].old
    BY <1>1 DEF Op
  <1>8. index' \in [Keys -> SUBSET Nodes]
    BY <1>1, <1>7, UnlistedTyped DEF Unlink
  <1>9. nodeCount' \in 0..Wrap - 1 /\ totalBytes' \in 0..Wrap - 1
    <2>1. PICK size \in 0..Wrap - 1 : size = op[p].old.size
      BY <1>7, SizeOfLine
    <2>2. Wrap \in Nat \ {0}
      BY BlackboardAssumption
    <2>3. nodeCount + Wrap - 1 \in Int /\ totalBytes + Wrap - size \in Int
      BY <2>1, <2>2, Parts
    <2>4. nodeCount' = (nodeCount + Wrap - 1) % Wrap /\ totalBytes' = (totalBytes + Wrap - size) % Wrap
      BY <2>1 DEF Unlink, Sub64
    <2> QED
      BY <2>3, <2>4, Modulo
  <1> QED
    BY <1>6, <1>8, <1>9, Parts, Assemble DEF Unlink, outbox, history

LEMMA SendBarrierTyped ==
  ASSUME TypeInv, NEW p \in Procs, SendBarrier(p)
  PROVE  TypeInv'
  <1>1. /\ op[p] \in Op /\ CallSound(op[p]) /\ op[p].kind = "delete" /\ op[p].at = "barrier"
        /\ op[p].old \in FullLine
    BY InHand, Parts DEF SendBarrier, CallSound
  <1>2. PICK o : o = [op[p] EXCEPT !.at = "await"]
    OBVIOUS
  <1>3. op' = [op EXCEPT ![p] = o]
    BY <1>2, Parts DEF SendBarrier
  <1>4. o \in Op /\ o.at = "await" /\ o.todo = op[p].todo /\ o.kind = op[p].kind /\ o.old = op[p].old
    BY <1>1, <1>2 DEF Op, Places
  <1>5. CallSound(o)
    BY <1>1, <1>4 DEF CallSound
  <1>6. PICK c : c = [type |-> "barrier", by |-> p]
    OBVIOUS
  <1>7. c \in Commands /\ c.type = "barrier" /\ c.by = p
    BY <1>6 DEF Commands
  <1>8. Room /\ queue' = Append(queue, c)
    BY <1>6 DEF SendBarrier
  <1>9. op' \in [Procs -> Op] /\ (\A q \in Procs : CallSound(op'[q])) /\ BarrierInv'
    BY <1>1, <1>3, <1>4, <1>5, <1>7, <1>8, EnqueuedMoved
  <1>10. queue' \in Seq(Commands) /\ Len(queue') <= Cap
    BY <1>7, <1>8, Enqueued
  <1> QED
    BY <1>9, <1>10, Parts, Assemble DEF SendBarrier, counters, history

LEMMA ReturnTyped ==
  ASSUME TypeInv, NEW p \in Procs, Return(p)
  PROVE  TypeInv'
  <1>1. /\ op[p] \in Op /\ op[p].todo # <<>> /\ op[p].kind \in {"write", "delete"}
        /\ op[p].at = "returned"
    BY InHand, Parts DEF Return
  <1>2. PICK o : o = AfterItem(op[p])
    OBVIOUS
  <1>3. op' = [op EXCEPT ![p] = o] /\ o \in Op /\ CallSound(o)
    BY <1>1, <1>2, AfterItemSound, Parts DEF Return
  <1>4. op' \in [Procs -> Op] /\ (\A q \in Procs : CallSound(op'[q])) /\ BarrierInv'
    BY <1>1, <1>3, Moved DEF Return, outbox
  <1> QED
    BY <1>4, Parts, Assemble DEF Return, outbox, counters, history

\* The steps of the worker.
LEMMA UpdateTyped ==
  ASSUME NEW c \in Commands, c.type \in {"write", "delete"}
  PROVE  /\ c.node \in Nodes /\ c.graph \in Graphs /\ c.gen \in Nat /\ c.blank \in BOOLEAN
  BY DEF Commands

LEMMA WorkTyped ==
  ASSUME TypeInv, Apply \/ ApplyFails \/ Shutdown
  PROVE  TypeInv'
  <1>1. queue # <<>> /\ queue' = Tail(queue) /\ op' = op
    BY DEF Apply, ApplyFails, Shutdown
  <1>2. /\ queue' \in Seq(Commands) /\ Len(queue') <= Cap /\ Head(queue) \in Commands /\ BarrierInv'
    BY <1>1, Dequeued
  <1>3. op' \in [Procs -> Op] /\ (\A q \in Procs : CallSound(op'[q]))
    BY <1>1, Parts
  <1>4. CASE Apply
    <2>1. PICK c \in Commands : c = Head(queue)
      BY <1>2
    <2>2. /\ c.type \in {"write", "delete"}
          /\ mirror' = IF Current(c) THEN Applied(c) ELSE mirror
          /\ dropped' = IF Current(c) /\ c.blank THEN dropped \union {c.node} ELSE dropped
      BY <1>4, <2>1 DEF Apply
    <2>3. c.node \in Nodes /\ c.graph \in Graphs /\ c.gen \in Nat
      BY <2>2, UpdateTyped
    <2>4. Applied(c) \in [Nodes -> [Graphs -> Nat]]
      <3>1. PICK row \in [Graphs -> Nat] : row = mirror[c.node]
        BY <2>3, Parts
      <3>2. PICK g \in Nat :
              g = IF c.type = "delete" THEN 0 ELSE IF c.blank THEN row[c.graph] ELSE c.gen
        BY <2>3
      <3>3. Applied(c) = [mirror EXCEPT ![c.node] = [row EXCEPT ![c.graph] = g]]
        BY <2>3, <3>1, <3>2, Parts DEF Applied
      <3>4. [row EXCEPT ![c.graph] = g] \in [Graphs -> Nat]
        OBVIOUS
      <3> QED
        BY <3>3, <3>4, <2>3, Parts
    <2>5. mirror' \in [Nodes -> [Graphs -> Nat]] /\ dropped' \subseteq Nodes
      BY <2>2, <2>3, <2>4, Parts
    <2> QED
      BY <1>2, <1>3, <1>4, <2>5, Parts, Assemble DEF Apply, counters
  <1>5. CASE ApplyFails
    <2>1. PICK c \in Commands : c = Head(queue)
      BY <1>2
    <2>2. /\ c.type \in {"write", "delete"} /\ errors' = errors \union {c.node}
          /\ dropped' = dropped \union {c.node}
      BY <1>5, <2>1 DEF ApplyFails
    <2>3. errors' \subseteq Nodes /\ dropped' \subseteq Nodes
      BY <2>2, UpdateTyped, Parts
    <2> QED
      BY <1>2, <1>3, <1>5, <2>3, Parts, Assemble DEF ApplyFails, counters
  <1>6. CASE Shutdown
    BY <1>2, <1>3, <1>6, Parts, Assemble DEF Shutdown, counters, history
  <1> QED
    BY <1>4, <1>5, <1>6

LEMMA AnswerBarrierTyped ==
  ASSUME TypeInv, AnswerBarrier
  PROVE  TypeInv'
  <1>1. queue # <<>> /\ queue' = Tail(queue) /\ Head(queue).type = "barrier"
    BY DEF AnswerBarrier
  <1>2. /\ queue' \in Seq(Commands) /\ Len(queue') <= Cap /\ Head(queue) \in Commands
    BY <1>1, Dequeued
  <1>3. PICK p : p = Head(queue).by
    OBVIOUS
  <1>4. p \in Procs
    BY <1>1, <1>2, <1>3 DEF Commands
  <1>5. 1 \in DOMAIN queue /\ Head(queue) = queue[1]
    BY <1>1, Parts, QueueShrinks
  <1>6. op[p].at = "await"
    BY <1>1, <1>3, <1>5, Parts DEF BarrierInv
  <1>7. /\ op[p] \in Op /\ CallSound(op[p]) /\ op[p].kind = "delete" /\ op[p].old \in FullLine
        /\ Now(p).node \in Nodes
    BY <1>4, <1>6, InHand, Parts DEF CallSound
  <1>8. PICK b \in BOOLEAN : b = (errors = {})
    OBVIOUS
  <1>9. PICK o : o = [op[p] EXCEPT !.at = "returned", !.ok = b]
    OBVIOUS
  <1>10. op' = [op EXCEPT ![p] = o]
    BY <1>3, <1>4, <1>8, <1>9, Parts DEF AnswerBarrier
  <1>11. o \in Op /\ o.at = "returned" /\ o.todo = op[p].todo /\ o.kind = op[p].kind /\ o.old = op[p].old
    BY <1>7, <1>9 DEF Op, Places
  <1>12. CallSound(o)
    BY <1>6, <1>7, <1>11 DEF CallSound
  <1>13. op' \in [Procs -> Op] /\ (\A q \in Procs : CallSound(op'[q]))
    BY <1>4, <1>10, <1>11, <1>12, Parts
  <1>14. \A i \in DOMAIN queue' :
           i \in Nat /\ i # 0 /\ i + 1 \in DOMAIN queue /\ queue'[i] = queue[i + 1]
    BY <1>1, Parts
  <1>15. ASSUME NEW i \in DOMAIN queue', queue'[i].type = "barrier"
         PROVE  op'[queue'[i].by].at = "await"
    <2>1. i + 1 \in DOMAIN queue /\ i + 1 # 1 /\ queue'[i] = queue[i + 1]
      BY <1>14
    <2>2. queue[i + 1] \in Commands
      BY <2>1, Parts
    <2>3. queue'[i].by \in Procs
      BY <1>15, <2>1, <2>2 DEF Commands
    <2>4. queue'[i].by # p /\ op[queue'[i].by].at = "await"
      BY <1>1, <1>3, <1>5, <1>15, <2>1, Parts DEF BarrierInv
    <2> QED
      BY <1>10, <2>3, <2>4, Parts
  <1>16. ASSUME NEW i \in DOMAIN queue', NEW j \in DOMAIN queue',
                queue'[i].type = "barrier", queue'[j].type = "barrier", queue'[i].by = queue'[j].by
         PROVE  i = j
    <2>1. i \in Nat /\ j \in Nat /\ i + 1 = j + 1
      BY <1>14, <1>16, Parts DEF BarrierInv
    <2> QED
      BY <2>1
  <1>17. BarrierInv'
    BY <1>15, <1>16 DEF BarrierInv
  <1>18. errors' \subseteq Nodes /\ misreported' \subseteq Nodes
    BY Parts DEF AnswerBarrier
  <1> QED
    BY <1>2, <1>13, <1>17, <1>18, Parts, Assemble DEF AnswerBarrier, counters

LEMMA DropTyped ==
  ASSUME TypeInv, DropBegins \/ DropJoins
  PROVE  TypeInv'
  <1>1. CASE DropBegins /\ Room
    <2>1. PICK c : c = [type |-> "shutdown"]
      OBVIOUS
    <2>2. c \in Commands /\ c.type = "shutdown"
      BY <2>1 DEF Commands
    <2>3. queue' = Append(queue, c) /\ op' = op
      BY <1>1, <2>1 DEF DropBegins
    <2>4. queue' \in Seq(Commands) /\ Len(queue') <= Cap
      BY <1>1, <2>2, <2>3, Enqueued
    <2>5. /\ DOMAIN queue' = DOMAIN queue \union {Len(queue) + 1}
          /\ \A i \in DOMAIN queue : queue'[i] = queue[i]
          /\ queue'[Len(queue) + 1] = c
      BY <2>2, <2>3, Parts, QueueGrows
    <2>6. \A i \in DOMAIN queue' : queue'[i].type = "barrier" => i \in DOMAIN queue /\ queue'[i] = queue[i]
      BY <2>2, <2>5
    <2>7. BarrierInv'
      BY <2>3, <2>6, Parts DEF BarrierInv
    <2> QED
      BY <1>1, <2>3, <2>4, <2>7, Parts, Assemble DEF DropBegins, counters, history
  <1>2. CASE (DropBegins /\ ~Room) \/ DropJoins
    <2>1. queue' = queue /\ op' = op
      BY <1>2 DEF DropBegins, DropJoins, outbox
    <2>2. BarrierInv'
      BY <2>1, Parts DEF BarrierInv
    <2> QED
      BY <1>2, <2>1, <2>2, Parts, Assemble DEF DropBegins, DropJoins, outbox, counters, history
  <1> QED
    BY <1>1, <1>2

LEMMA NextTyped == TypeInv /\ [Next]_vars => TypeInv'
  <1> SUFFICES ASSUME TypeInv, [Next]_vars PROVE TypeInv'
    OBVIOUS
  <1>1. CASE \E p \in Procs : Step(p) \/ \E c \in Calls : Begin(p, c)
    BY <1>1, DrawTyped, SendTyped, TimeOutTyped, LookTyped, PutTyped, UncacheTyped, UnlinkTyped,
       SendBarrierTyped, ReturnTyped, BeginTyped DEF Step
  <1>2. CASE Work \/ DropBegins \/ DropJoins
    BY <1>2, WorkTyped, AnswerBarrierTyped, DropTyped DEF Work
  <1>3. CASE UNCHANGED vars
    <2>1. queue' = queue /\ op' = op
      BY <1>3 DEF vars, outbox
    <2>2. BarrierInv'
      BY <2>1, Parts DEF BarrierInv
    <2> QED
      BY <1>3, <2>1, <2>2, Parts, Assemble DEF vars, outbox, counters, history
  <1> QED
    BY <1>1, <1>2, <1>3 DEF Next

LEMMA Invariance == Spec => []TypeInv
  BY InitTypeInv, NextTyped, PTL DEF Spec

\* Every variable of the blackboard has its type: the queue never holds more than
\* its capacity and the counters stay in 64 bits, whatever the calls and failures.
THEOREM TypeCorrect == Spec => []TypeOK
  BY Invariance, PTL DEF TypeInv

-----------------------------------------------------------------------------
(***************************************************************************)
(* The graphs of a node.  Whatever of a node is in the mirror, in the      *)
(* queue, in the cache or in a caller's hands belongs to a graph it was    *)
(* once written to, so that what a tombstone for one graph leaves behind   *)
(* is in the others of these.                                              *)
(***************************************************************************)
OpHome(o, h) ==
  /\ o.at \in {"look", "put"} => Head(o.todo).graph \in h[Head(o.todo).node]
  /\ o.kind = "delete" /\ o.at \notin {"idle", "remove"} => o.old.graph \in h[Head(o.todo).node]

\* Nothing is done yet for the item in hand.
Fresh(o) == \/ o.at = "idle"
            \/ o.kind = "write" /\ o.at = "draw"
            \/ o.kind = "delete" /\ o.at = "remove"

HomeInv ==
  /\ \A n \in Nodes : \A g \in Graphs : mirror[n][g] # 0 => g \in homes[n]
  /\ \A i \in DOMAIN queue :
       queue[i].type \in {"write", "delete"} => queue[i].graph \in homes[queue[i].node]
  /\ \A n \in Nodes : cache[n] # NoLine => cache[n].graph \in homes[n]
  /\ \A p \in Procs : OpHome(op[p], homes)

\* What each step of a caller makes of its call.
LEMMA FreshHome == ASSUME NEW o, Fresh(o), NEW h PROVE o.at # "send" /\ OpHome(o, h)
  BY DEF Fresh, OpHome

LEMMA AfterItemFresh ==
  ASSUME NEW o \in Op, o.todo # <<>>, o.kind \in {"write", "delete"}
  PROVE  Fresh(AfterItem(o)) /\ NodesOf(AfterItem(o).todo) \subseteq NodesOf(o.todo)
  <1>1. CASE Len(o.todo) = 1
    <2>1. AfterItem(o) = Idle
      BY <1>1 DEF AfterItem
    <2>2. NodesOf(Idle.todo) = {}
      BY IdleSound DEF NodesOf
    <2> QED
      BY <2>1, <2>2, IdleSound DEF Fresh
  <1>2. CASE Len(o.todo) # 1
    <2>1. PICK at : at = IF o.kind = "write" THEN "draw" ELSE "remove"
      OBVIOUS
    <2>2. PICK todo : todo = Tail(o.todo)
      OBVIOUS
    <2>3. AfterItem(o) = [kind |-> o.kind, at |-> at, todo |-> todo, gen |-> 0,
                          old |-> NoLine, ok |-> TRUE]
      BY <1>2, <2>1, <2>2 DEF AfterItem, Idle
    <2>4. AfterItem(o).kind = o.kind /\ AfterItem(o).at = at /\ AfterItem(o).todo = todo
      BY <2>3
    <2>5. NodesOf(todo) \subseteq NodesOf(o.todo)
      BY <2>2, ItemsSplit DEF Op
    <2> QED
      BY <2>1, <2>4, <2>5 DEF Fresh
  <1> QED
    BY <1>1, <1>2

LEMMA BeginMoves ==
  ASSUME TypeInv, NEW p \in Procs, NEW c \in Calls, Begin(p, c)
  PROVE  /\ op[p].at = "idle" /\ \A q \in Procs \ {p} : op'[q] = op[q]
         /\ Fresh(op'[p]) /\ op'[p].todo = c.todo
  <1>1. PICK at : at = IF c.kind = "write" THEN "draw" ELSE "remove"
    OBVIOUS
  <1>2. PICK o : o = [Idle EXCEPT !.kind = c.kind, !.todo = c.todo, !.at = at]
    OBVIOUS
  <1>3. op' = [op EXCEPT ![p] = o]
    BY <1>1, <1>2 DEF Begin
  <1>4. o.kind = c.kind /\ o.at = at /\ c.kind \in {"write", "delete"} /\ o.todo = c.todo
    BY <1>2, IdleSound, BlackboardAssumption DEF Op
  <1>5. Fresh(o)
    BY <1>1, <1>4 DEF Fresh
  <1> QED
    BY <1>3, <1>4, <1>5, Parts DEF Begin

\* What a call that begins leaves alone.
LEMMA BeginFrame ==
  \A p \in Procs : (\E c \in Calls : Begin(p, c)) =>
    /\ op[p].at = "idle" /\ queue' = queue /\ errors' = errors /\ mirror' = mirror /\ worker' = worker
    /\ versions' = versions /\ cache' = cache /\ index' = index
    /\ nodeCount' = nodeCount /\ totalBytes' = totalBytes
    /\ target' = target /\ homes' = homes /\ dropped' = dropped /\ lapsed' = lapsed
    /\ leaked' = leaked /\ misreported' = misreported
    /\ disputed \subseteq disputed' /\ raced \subseteq raced'
  <1> SUFFICES ASSUME NEW p \in Procs, NEW c \in Calls, Begin(p, c)
               PROVE  /\ op[p].at = "idle" /\ UNCHANGED outbox
                      /\ versions' = versions /\ cache' = cache /\ index' = index
                      /\ UNCHANGED counters
                      /\ target' = target /\ homes' = homes /\ dropped' = dropped /\ lapsed' = lapsed
                      /\ leaked' = leaked /\ misreported' = misreported
                      /\ disputed \subseteq disputed' /\ raced \subseteq raced'
    BY DEF outbox, counters
  <1> QED
    BY DEF Begin

LEMMA DrawMoves ==
  ASSUME TypeInv, NEW p \in Procs, Draw(p)
  PROVE  /\ op[p].at = "draw" /\ \A q \in Procs \ {p} : op'[q] = op[q]
         /\ op'[p].at = "send" /\ op'[p].todo = op[p].todo /\ op'[p].kind = op[p].kind
         /\ op'[p].old = op[p].old /\ op'[p].gen = versions[Now(p).node].gen + 1
  <1>1. op[p] \in Op
    BY Parts
  <1>2. PICK g : g = versions[Now(p).node].gen + 1
    OBVIOUS
  <1>3. PICK o : o = [op[p] EXCEPT !.gen = g, !.at = "send"]
    OBVIOUS
  <1>4. op' = [op EXCEPT ![p] = o] /\ op[p].at = "draw"
    BY <1>2, <1>3, Parts DEF Draw
  <1>5. o.at = "send" /\ o.todo = op[p].todo /\ o.kind = op[p].kind /\ o.old = op[p].old /\ o.gen = g
    BY <1>1, <1>3 DEF Op
  <1> QED
    BY <1>2, <1>4, <1>5, Parts

LEMMA SendMoves ==
  ASSUME TypeInv, NEW p \in Procs, Send(p)
  PROVE  /\ op[p].at = "send" /\ \A q \in Procs \ {p} : op'[q] = op[q]
         /\ op'[p].at = IF op[p].kind = "write" THEN "look" ELSE "unlink"
         /\ op'[p].todo = op[p].todo /\ op'[p].kind = op[p].kind /\ op'[p].old = op[p].old
         /\ op'[p].gen = op[p].gen
  <1>1. op[p] \in Op
    BY Parts
  <1>2. PICK at : at = IF op[p].kind = "write" THEN "look" ELSE "unlink"
    OBVIOUS
  <1>3. PICK o : o = [op[p] EXCEPT !.at = at]
    OBVIOUS
  <1>4. op' = [op EXCEPT ![p] = o] /\ op[p].at = "send"
    BY <1>2, <1>3, Parts DEF Send
  <1>5. /\ o.at = at /\ o.todo = op[p].todo /\ o.kind = op[p].kind /\ o.old = op[p].old
        /\ o.gen = op[p].gen
    BY <1>1, <1>3 DEF Op
  <1> QED
    BY <1>2, <1>4, <1>5, Parts

LEMMA TimeOutMoves ==
  ASSUME TypeInv, NEW p \in Procs, TimeOut(p)
  PROVE  /\ op[p].at = "send" /\ \A q \in Procs \ {p} : op'[q] = op[q]
         /\ Fresh(op'[p]) /\ NodesOf(op'[p].todo) \subseteq Active(p)
  <1>1. op[p] \in Op /\ op[p].todo # <<>> /\ op[p].kind \in {"write", "delete"}
    BY InHand DEF TimeOut
  <1>2. PICK o : o = IF op[p].kind = "write" THEN Idle ELSE AfterItem(op[p])
    OBVIOUS
  <1>3. op' = [op EXCEPT ![p] = o] /\ op[p].at = "send"
    BY <1>2, Parts DEF TimeOut
  <1>4. Fresh(Idle) /\ NodesOf(Idle.todo) = {}
    BY IdleSound DEF Fresh, NodesOf
  <1>5. Fresh(o) /\ NodesOf(o.todo) \subseteq Active(p)
    BY <1>1, <1>2, <1>4, AfterItemFresh DEF Active
  <1> QED
    BY <1>3, <1>5, Parts

LEMMA LookMoves ==
  ASSUME TypeInv, NEW p \in Procs, Look(p)
  PROVE  /\ op[p].at = "look" /\ op[p].kind = "write" /\ \A q \in Procs \ {p} : op'[q] = op[q]
         /\ op'[p].at = "put" /\ op'[p].todo = op[p].todo /\ op'[p].kind = "write"
         /\ op'[p].gen = op[p].gen
  <1>1. op[p] \in Op /\ op[p].kind = "write" /\ op[p].at = "look"
    BY Parts DEF Look, CallSound
  <1>2. PICK line : line = cache[Now(p).node]
    OBVIOUS
  <1>3. PICK o : o = [op[p] EXCEPT !.old = line, !.at = "put"]
    OBVIOUS
  <1>4. op' = [op EXCEPT ![p] = o]
    BY <1>2, <1>3, Parts DEF Look
  <1>5. o.at = "put" /\ o.todo = op[p].todo /\ o.kind = op[p].kind /\ o.gen = op[p].gen
    BY <1>1, <1>3 DEF Op
  <1> QED
    BY <1>1, <1>4, <1>5, Parts

LEMMA ItemDoneMoves ==
  ASSUME TypeInv, NEW p \in Procs, Put(p) \/ Return(p)
  PROVE  /\ op[p].at \in {"put", "returned"} /\ \A q \in Procs \ {p} : op'[q] = op[q]
         /\ Fresh(op'[p]) /\ NodesOf(op'[p].todo) \subseteq Active(p)
  <1>1. op[p] \in Op /\ op[p].todo # <<>> /\ op[p].kind \in {"write", "delete"}
    BY InHand DEF Put, Return
  <1>2. PICK o : o = AfterItem(op[p])
    OBVIOUS
  <1>3. op' = [op EXCEPT ![p] = o] /\ op[p].at \in {"put", "returned"}
    BY <1>2, Parts DEF Put, Return
  <1>4. Fresh(o) /\ NodesOf(o.todo) \subseteq Active(p)
    BY <1>1, <1>2, AfterItemFresh DEF Active
  <1> QED
    BY <1>3, <1>4, Parts

LEMMA UncacheMoves ==
  ASSUME TypeInv, NEW p \in Procs, Uncache(p)
  PROVE  /\ op[p].at = "remove" /\ op[p].kind = "delete" /\ \A q \in Procs \ {p} : op'[q] = op[q]
         /\ IF cache[Now(p).node] = NoLine
            THEN Fresh(op'[p]) /\ NodesOf(op'[p].todo) \subseteq Active(p)
            ELSE /\ op'[p].at = "draw" /\ op'[p].todo = op[p].todo /\ op'[p].kind = "delete"
                 /\ op'[p].old = cache[Now(p).node]
  <1>1. /\ op[p] \in Op /\ op[p].todo # <<>> /\ op[p].kind = "delete" /\ op[p].at = "remove"
    BY InHand, Parts DEF Uncache, CallSound
  <1>2. CASE cache[Now(p).node] = NoLine
    <2>1. PICK o : o = AfterItem(op[p])
      OBVIOUS
    <2>2. op' = [op EXCEPT ![p] = o]
      BY <1>2, <2>1, Parts DEF Uncache
    <2>3. Fresh(o) /\ NodesOf(o.todo) \subseteq Active(p)
      BY <1>1, <2>1, AfterItemFresh DEF Active
    <2> QED
      BY <1>1, <1>2, <2>2, <2>3, Parts
  <1>3. CASE cache[Now(p).node] # NoLine
    <2>1. PICK line : line = cache[Now(p).node]
      OBVIOUS
    <2>2. PICK o : o = [op[p] EXCEPT !.old = line, !.at = "draw"]
      OBVIOUS
    <2>3. op' = [op EXCEPT ![p] = o]
      BY <1>3, <2>1, <2>2, Parts DEF Uncache
    <2>4. o.at = "draw" /\ o.todo = op[p].todo /\ o.kind = "delete" /\ o.old = line
      BY <1>1, <2>2 DEF Op
    <2> QED
      BY <1>1, <1>3, <2>1, <2>3, <2>4, Parts
  <1> QED
    BY <1>2, <1>3

LEMMA DeleteMoves ==
  ASSUME TypeInv, NEW p \in Procs, Unlink(p) \/ SendBarrier(p)
  PROVE  /\ op[p].at \in {"unlink", "barrier"} /\ \A q \in Procs \ {p} : op'[q] = op[q]
         /\ op'[p].at \in {"barrier", "await"} /\ op'[p].todo = op[p].todo
         /\ op'[p].kind = op[p].kind /\ op'[p].old = op[p].old
  <1>1. op[p] \in Op
    BY Parts
  <1>2. PICK at : at = IF Unlink(p) THEN "barrier" ELSE "await"
    OBVIOUS
  <1>3. PICK o : o = [op[p] EXCEPT !.at = at]
    OBVIOUS
  <1>4. op' = [op EXCEPT ![p] = o] /\ op[p].at \in {"unlink", "barrier"} /\ at \in {"barrier", "await"}
    <2>1. CASE Unlink(p)
      BY <1>2, <1>3, <2>1, Parts DEF Unlink
    <2>2. CASE ~Unlink(p)
      BY <1>2, <1>3, <2>2, Parts DEF SendBarrier
    <2> QED
      BY <2>1, <2>2
  <1>5. o.at = at /\ o.todo = op[p].todo /\ o.kind = op[p].kind /\ o.old = op[p].old
    BY <1>1, <1>3 DEF Op
  <1> QED
    BY <1>4, <1>5, Parts

LEMMA AnswerMoves ==
  ASSUME TypeInv, AnswerBarrier
  PROVE  \E p \in Procs :
           /\ p = Head(queue).by /\ op[p].at = "await" /\ \A q \in Procs \ {p} : op'[q] = op[q]
           /\ op'[p].at = "returned" /\ op'[p].todo = op[p].todo
           /\ op'[p].kind = op[p].kind /\ op'[p].old = op[p].old /\ op'[p].ok = (errors = {})
  <1>1. PICK p : p = Head(queue).by
    OBVIOUS
  <1>2. queue # <<>> /\ Head(queue).type = "barrier"
    BY DEF AnswerBarrier
  <1>3. Head(queue) \in Commands /\ 1 \in DOMAIN queue /\ Head(queue) = queue[1]
    BY <1>2, Parts, QueueShrinks
  <1>4. p \in Procs /\ op[p].at = "await"
    BY <1>1, <1>2, <1>3, Parts DEF Commands, BarrierInv
  <1>5. op[p] \in Op
    BY <1>4, Parts
  <1>6. PICK b \in BOOLEAN : b = (errors = {})
    OBVIOUS
  <1>7. PICK o : o = [op[p] EXCEPT !.at = "returned", !.ok = b]
    OBVIOUS
  <1>8. op' = [op EXCEPT ![p] = o]
    BY <1>1, <1>4, <1>6, <1>7, Parts DEF AnswerBarrier
  <1>9. /\ o.at = "returned" /\ o.todo = op[p].todo /\ o.kind = op[p].kind /\ o.old = op[p].old
        /\ o.ok = b
    BY <1>5, <1>7 DEF Op
  <1> QED
    BY <1>1, <1>4, <1>6, <1>8, <1>9, Parts

\* The other calls keep their graphs when a call moves and no graph is forgotten.
LEMMA HomesOfCalls ==
  ASSUME TypeInv, HomeInv, NEW p \in Procs, \A q \in Procs \ {p} : op'[q] = op[q],
         OpHome(op'[p], homes'), \A n \in Nodes : homes[n] \subseteq homes'[n]
  PROVE  \A q \in Procs : OpHome(op'[q], homes')
  <1> SUFFICES ASSUME NEW q \in Procs \ {p} PROVE OpHome(op'[q], homes')
    OBVIOUS
  <1>1. op'[q] = op[q] /\ OpHome(op[q], homes) /\ op[q] \in Op
    BY Parts DEF HomeInv
  <1>2. op[q].at # "idle" => Head(op[q].todo).node \in Nodes
    BY InHand DEF Now
  <1> QED
    BY <1>1, <1>2 DEF OpHome

LEMMA InitHome == Init => HomeInv
  <1> SUFFICES ASSUME Init PROVE HomeInv
    OBVIOUS
  <1>1. \A p \in Procs : OpHome(op[p], homes)
    BY DEF Init, OpHome, Idle
  <1>2. /\ DOMAIN queue = {}
        /\ \A n \in Nodes : cache[n] = NoLine /\ \A g \in Graphs : mirror[n][g] = 0
    BY DEF Init
  <1> QED
    BY <1>1, <1>2 DEF HomeInv

LEMMA CallerHome ==
  ASSUME TypeInv, HomeInv, NEW p \in Procs, Step(p) \/ \E c \in Calls : Begin(p, c)
  PROVE  HomeInv'
  <1>1. CASE Send(p)
    <2>1. /\ op[p].at = "send" /\ CallSound(op[p]) /\ op[p].kind \in {"write", "delete"}
          /\ Now(p).node \in Nodes /\ Now(p).graph \in Graphs
      BY <1>1, InHand, Parts DEF Send
    <2>2. PICK n \in Nodes : n = Now(p).node
      BY <2>1
    <2>3. PICK g \in Graphs : g = Now(p).graph
      BY <2>1
    <2>4. homes' = IF op[p].kind = "write" THEN [homes EXCEPT ![n] = homes[n] \union {g}] ELSE homes
      BY <1>1, <2>2, <2>3 DEF Send
    <2>5. \A m \in Nodes : homes[m] \subseteq homes'[m]
      BY <2>4, Parts
    <2>6. op[p].kind = "write" => g \in homes'[n]
      BY <2>4, Parts
    <2>7. op[p].kind = "delete" => op[p].old.graph \in homes'[n]
      BY <2>1, <2>2, <2>5 DEF HomeInv, OpHome, Now
    <2>8. /\ Command(p) \in Commands /\ Command(p).node = n
          /\ Command(p).graph = IF op[p].kind = "write" THEN g ELSE op[p].old.graph
      BY <2>1, <2>2, <2>3, CommandTyped
    <2>9. Command(p).graph \in homes'[n]
      BY <2>1, <2>6, <2>7, <2>8
    <2>10. ASSUME NEW i \in DOMAIN queue', queue'[i].type \in {"write", "delete"}
           PROVE  queue'[i].graph \in homes'[queue'[i].node]
      <3>1. queue' = Append(queue, Command(p))
        BY <1>1 DEF Send
      <3>2. /\ DOMAIN queue' = DOMAIN queue \union {Len(queue) + 1}
            /\ \A j \in DOMAIN queue : queue'[j] = queue[j]
            /\ queue'[Len(queue) + 1] = Command(p)
        BY <2>8, <3>1, Parts, QueueGrows
      <3>3. CASE i \in DOMAIN queue
        <4>1. queue[i] \in Commands /\ queue[i].node \in Nodes
          BY <2>10, <3>2, <3>3, Parts, UpdateTyped
        <4> QED
          BY <2>5, <2>10, <3>2, <3>3, <4>1 DEF HomeInv
      <3>4. CASE i = Len(queue) + 1
        BY <2>8, <2>9, <3>2, <3>4
      <3> QED
        BY <3>2, <3>3, <3>4
    <2>11. OpHome(op'[p], homes')
      BY <1>1, <2>1, <2>2, <2>3, <2>6, <2>7, SendMoves DEF OpHome, Now
    <2>12. \A q \in Procs : OpHome(op'[q], homes')
      BY <1>1, <2>5, <2>11, SendMoves, HomesOfCalls
    <2>13. /\ mirror' = mirror /\ cache' = cache
      BY <1>1 DEF Send
    <2> QED
      BY <2>5, <2>10, <2>12, <2>13 DEF HomeInv
  <1>2. CASE ~Send(p)
    <2>1. homes' = homes /\ mirror' = mirror
      BY <1>2 DEF Step, Draw, TimeOut, Look, Put, Uncache, Unlink, SendBarrier, Return, Begin,
         history, outbox
    <2>2. OpHome(op[p], homes) /\ CallSound(op[p]) /\ op[p] \in Op
      BY Parts DEF HomeInv
    <2>3. OpHome(op'[p], homes') /\ \A q \in Procs \ {p} : op'[q] = op[q]
      <3>1. CASE Draw(p)
        BY <2>1, <2>2, <3>1, DrawMoves DEF OpHome
      <3>2. CASE TimeOut(p)
        BY <3>2, TimeOutMoves, FreshHome
      <3>3. CASE Look(p)
        BY <2>1, <2>2, <3>3, LookMoves DEF OpHome
      <3>4. CASE Put(p) \/ Return(p)
        BY <3>4, ItemDoneMoves, FreshHome
      <3>5. CASE Uncache(p)
        <4>1. Now(p).node \in Nodes
          BY <3>5, InHand DEF Uncache
        <4>2. cache[Now(p).node] # NoLine => cache[Now(p).node].graph \in homes[Now(p).node]
          BY <4>1 DEF HomeInv
        <4> QED
          BY <2>1, <3>5, <4>2, UncacheMoves, FreshHome DEF OpHome, Now
      <3>6. CASE Unlink(p) \/ SendBarrier(p)
        BY <2>1, <2>2, <3>6, DeleteMoves DEF OpHome
      <3>7. CASE \E c \in Calls : Begin(p, c)
        BY <3>7, BeginMoves, FreshHome
      <3> QED
        BY <1>2, <3>1, <3>2, <3>3, <3>4, <3>5, <3>6, <3>7 DEF Step
    <2>4. \A q \in Procs : OpHome(op'[q], homes')
      BY <2>1, <2>3, HomesOfCalls
    <2>5. ASSUME NEW n \in Nodes, cache'[n] # NoLine PROVE cache'[n].graph \in homes[n]
      <3>1. CASE cache'[n] = cache[n]
        BY <2>5, <3>1 DEF HomeInv
      <3>2. CASE Put(p) /\ n = Now(p).node
        <4>1. op[p].at = "put"
          BY <3>2 DEF Put
        <4>2. PICK line : line = [gen |-> op[p].gen, graph |-> Now(p).graph, key |-> Now(p).key,
                                  size |-> Now(p).size]
          OBVIOUS
        <4>3. cache' = [cache EXCEPT ![n] = line] /\ line.graph = Now(p).graph
          BY <3>2, <4>2 DEF Put
        <4> QED
          BY <2>2, <3>2, <4>1, <4>3, Parts DEF OpHome, Now
      <3>3. cache'[n] = cache[n] \/ (Put(p) /\ n = Now(p).node)
        <4>1. CASE Put(p)
          BY <4>1, Parts DEF Put
        <4>2. CASE Uncache(p)
          BY <2>5, <4>2, Parts DEF Uncache
        <4>3. CASE ~Put(p) /\ ~Uncache(p)
          BY <1>2, <4>3 DEF Step, Draw, TimeOut, Look, Unlink, SendBarrier, Return, Begin
        <4> QED
          BY <4>1, <4>2, <4>3
      <3> QED
        BY <3>1, <3>2, <3>3
    <2>6. \A i \in DOMAIN queue' :
            queue'[i].type \in {"write", "delete"} => queue'[i].graph \in homes[queue'[i].node]
      <3>1. CASE SendBarrier(p)
        <4>1. PICK c : c = [type |-> "barrier", by |-> p]
          OBVIOUS
        <4>2. c \in Commands /\ c.type = "barrier"
          BY <4>1 DEF Commands
        <4>3. /\ DOMAIN queue' = DOMAIN queue \union {Len(queue) + 1}
              /\ \A j \in DOMAIN queue : queue'[j] = queue[j]
              /\ queue'[Len(queue) + 1] = c
          BY <3>1, <4>1, <4>2, Parts, QueueGrows DEF SendBarrier
        <4> QED
          BY <4>2, <4>3 DEF HomeInv
      <3>2. CASE ~SendBarrier(p)
        <4>1. queue' = queue
          BY <1>2, <3>2 DEF Step, Draw, TimeOut, Look, Put, Uncache, Unlink, Return, Begin, outbox
        <4> QED
          BY <4>1 DEF HomeInv
      <3> QED
        BY <3>1, <3>2
    <2> QED
      BY <2>1, <2>4, <2>5, <2>6 DEF HomeInv
  <1> QED
    BY <1>1, <1>2

LEMMA WorkHome ==
  ASSUME TypeInv, HomeInv, Work \/ DropBegins \/ DropJoins
  PROVE  HomeInv'
  <1>1. homes' = homes /\ cache' = cache
    BY DEF Work, Apply, ApplyFails, AnswerBarrier, Shutdown, DropBegins, DropJoins, history
  <1>2. \A q \in Procs : OpHome(op'[q], homes')
    <2>1. CASE AnswerBarrier
      <3>1. PICK p \in Procs :
              /\ op[p].at = "await" /\ \A q \in Procs \ {p} : op'[q] = op[q]
              /\ op'[p].at = "returned" /\ op'[p].todo = op[p].todo
              /\ op'[p].kind = op[p].kind /\ op'[p].old = op[p].old
        BY <2>1, AnswerMoves
      <3>2. OpHome(op'[p], homes')
        BY <1>1, <3>1 DEF HomeInv, OpHome
      <3> QED
        BY <1>1, <3>1, <3>2, HomesOfCalls
    <2>2. CASE ~AnswerBarrier
      <3>1. op' = op
        BY <2>2 DEF Work, Apply, ApplyFails, Shutdown, DropBegins, DropJoins
      <3> QED
        BY <1>1, <3>1 DEF HomeInv
    <2> QED
      BY <2>1, <2>2
  <1>3. \A i \in DOMAIN queue' :
          queue'[i].type \in {"write", "delete"} => queue'[i].graph \in homes[queue'[i].node]
    <2>1. CASE Work
      <3>1. queue # <<>> /\ queue' = Tail(queue)
        BY <2>1 DEF Work, Apply, ApplyFails, AnswerBarrier, Shutdown
      <3>2. \A i \in DOMAIN queue' : i + 1 \in DOMAIN queue /\ queue'[i] = queue[i + 1]
        BY <3>1, Parts, QueueShrinks
      <3> QED
        BY <3>2 DEF HomeInv
    <2>2. CASE DropBegins /\ Room
      <3>1. PICK c : c = [type |-> "shutdown"]
        OBVIOUS
      <3>2. c \in Commands /\ c.type = "shutdown"
        BY <3>1 DEF Commands
      <3>3. /\ DOMAIN queue' = DOMAIN queue \union {Len(queue) + 1}
            /\ \A j \in DOMAIN queue : queue'[j] = queue[j]
            /\ queue'[Len(queue) + 1] = c
        BY <2>2, <3>1, <3>2, Parts, QueueGrows DEF DropBegins
      <3> QED
        BY <3>2, <3>3 DEF HomeInv
    <2>3. CASE (DropBegins /\ ~Room) \/ DropJoins
      <3>1. queue' = queue
        BY <2>3 DEF DropBegins, DropJoins, outbox
      <3> QED
        BY <3>1 DEF HomeInv
    <2> QED
      BY <2>1, <2>2, <2>3
  <1>4. ASSUME NEW n \in Nodes, NEW g \in Graphs, mirror'[n][g] # 0
        PROVE  g \in homes[n]
    <2>1. CASE mirror' = mirror
      BY <1>4, <2>1 DEF HomeInv
    <2>2. CASE mirror' # mirror
      <3>1. Apply
        BY <2>2 DEF Work, ApplyFails, AnswerBarrier, Shutdown, DropBegins, DropJoins, outbox
      <3>2. /\ queue # <<>> /\ Head(queue) \in Commands /\ 1 \in DOMAIN queue
            /\ Head(queue) = queue[1]
        BY <3>1, Parts, QueueShrinks DEF Apply
      <3>3. PICK c \in Commands : c = Head(queue)
        BY <3>2
      <3>4. c.type \in {"write", "delete"} /\ mirror' = Applied(c)
        BY <2>2, <3>1, <3>3 DEF Apply
      <3>5. c.node \in Nodes /\ c.graph \in Graphs /\ c.graph \in homes[c.node]
        BY <3>2, <3>3, <3>4, UpdateTyped DEF HomeInv
      <3>6. PICK row \in [Graphs -> Nat] : row = mirror[c.node]
        BY <3>5, Parts
      <3>7. PICK v :
              v = IF c.type = "delete" THEN 0 ELSE IF c.blank THEN row[c.graph] ELSE c.gen
        OBVIOUS
      <3>8. mirror' = [mirror EXCEPT ![c.node] = [row EXCEPT ![c.graph] = v]]
        BY <3>4, <3>5, <3>6, <3>7, Parts DEF Applied
      <3>9. n # c.node \/ g # c.graph => mirror'[n][g] = mirror[n][g]
        BY <3>5, <3>6, <3>8, Parts
      <3> QED
        BY <1>4, <3>5, <3>9 DEF HomeInv
    <2> QED
      BY <2>1, <2>2
  <1> QED
    BY <1>1, <1>2, <1>3, <1>4 DEF HomeInv

LEMMA NextHome == TypeInv /\ HomeInv /\ [Next]_vars => HomeInv'
  <1> SUFFICES ASSUME TypeInv, HomeInv, [Next]_vars PROVE HomeInv'
    OBVIOUS
  <1>1. CASE Next
    BY <1>1, CallerHome, WorkHome DEF Next
  <1>2. CASE UNCHANGED vars
    BY <1>2 DEF vars, outbox, history, HomeInv
  <1> QED
    BY <1>1, <1>2

-----------------------------------------------------------------------------
(***************************************************************************)
(* Generations.  A generation of a node is drawn once: wherever it is      *)
(* found (queue, caller, cache or mirror) it is not younger than the       *)
(* node's newest, and where it is the newest it is for the graph, and of   *)
(* the kind, that was drawn with it.                                       *)
(***************************************************************************)
Update(c) == c.type \in {"write", "delete"}
Writing(o) == o.kind = "write" /\ o.at \in {"send", "look", "put"}
Drawn(o) == Writing(o) \/ (o.kind = "delete" /\ o.at = "send")
OpGraph(o) == IF o.kind = "write" THEN Head(o.todo).graph ELSE o.old.graph

Held(n, v, g, k) ==
  \/ \E i \in DOMAIN queue : /\ Update(queue[i]) /\ queue[i].type = k /\ queue[i].node = n
                             /\ queue[i].gen = v /\ queue[i].graph = g
  \/ \E p \in Procs : /\ Drawn(op[p]) /\ op[p].kind = k /\ op[p].gen = v
                      /\ Head(op[p].todo).node = n /\ OpGraph(op[p]) = g
  \/ k = "write" /\ cache[n] # NoLine /\ cache[n].gen = v /\ cache[n].graph = g
  \/ k = "write" /\ v > 0 /\ mirror[n][g] = v

HeldInv ==
  \A n \in Nodes, v \in Nat, g \in Graphs, k \in {"write", "delete"} : Held(n, v, g, k) =>
    /\ v <= versions[n].gen
    /\ v = versions[n].gen => g = target[n] /\ (versions[n].tomb <=> k = "delete")

\* Where the commands of the queue come from.
LEMMA QueueFrom ==
  ASSUME TypeInv, Next, NEW i \in DOMAIN queue'
  PROVE  \/ \E j \in DOMAIN queue : queue'[i] = queue[j]
         \/ \E p \in Procs : Send(p) /\ queue'[i] = Command(p)
         \/ ~Update(queue'[i])
  <1>1. CASE \E p \in Procs : Send(p)
    <2>1. PICK p \in Procs : Send(p)
      BY <1>1
    <2>2. Command(p) \in Commands
      BY <2>1, CommandTyped DEF Send
    <2>3. queue' = Append(queue, Command(p))
      BY <2>1 DEF Send
    <2>4. /\ DOMAIN queue' = DOMAIN queue \union {Len(queue) + 1}
          /\ \A j \in DOMAIN queue : queue'[j] = queue[j]
          /\ queue'[Len(queue) + 1] = Command(p)
      BY <2>2, <2>3, Parts, QueueGrows
    <2> QED
      BY <2>1, <2>4
  <1>2. CASE \E p \in Procs : SendBarrier(p)
    <2>1. PICK p \in Procs : SendBarrier(p)
      BY <1>2
    <2>2. PICK c : c = [type |-> "barrier", by |-> p]
      OBVIOUS
    <2>3. c \in Commands /\ ~Update(c)
      BY <2>2 DEF Commands, Update
    <2> QED
      BY <2>1, <2>2, <2>3, Parts, QueueGrows DEF SendBarrier
  <1>3. CASE DropBegins /\ Room
    <2>1. PICK c : c = [type |-> "shutdown"]
      OBVIOUS
    <2>2. c \in Commands /\ ~Update(c)
      BY <2>1 DEF Commands, Update
    <2> QED
      BY <1>3, <2>1, <2>2, Parts, QueueGrows DEF DropBegins
  <1>4. CASE Work
    <2>1. queue # <<>> /\ queue' = Tail(queue)
      BY <1>4 DEF Work, Apply, ApplyFails, AnswerBarrier, Shutdown
    <2> QED
      BY <2>1, Parts, QueueShrinks
  <1>5. CASE /\ ~\E p \in Procs : Send(p) \/ SendBarrier(p)
             /\ ~(DropBegins /\ Room) /\ ~Work
    <2>1. queue' = queue
      BY <1>5, BeginFrame DEF Next, Step, Draw, TimeOut, Look, Put, Uncache, Unlink, Return, DropBegins,
         DropJoins, outbox
    <2> QED
      BY <2>1
  <1> QED
    BY <1>1, <1>2, <1>3, <1>4, <1>5

\* Where the generation in a caller's hands comes from.
LEMMA DrawnFrom ==
  ASSUME TypeInv, Next, NEW q \in Procs, Drawn(op'[q])
  PROVE  /\ \/ Drawn(op[q]) /\ op'[q].gen = op[q].gen
            \/ Draw(q) /\ op'[q].gen = versions[Now(q).node].gen + 1
         /\ op'[q].kind = op[q].kind /\ op'[q].todo = op[q].todo /\ OpGraph(op'[q]) = OpGraph(op[q])
  <1>1. ASSUME NEW p \in Procs, Step(p) \/ \E c \in Calls : Begin(p, c), p # q
        PROVE  op'[q] = op[q]
    BY <1>1, DrawMoves, SendMoves, TimeOutMoves, LookMoves, ItemDoneMoves, UncacheMoves,
       DeleteMoves, BeginMoves DEF Step
  <1>2. CASE Step(q) \/ \E c \in Calls : Begin(q, c)
    <2>1. CASE Draw(q)
      BY <2>1, DrawMoves DEF OpGraph
    <2>2. CASE Send(q)
      BY <2>2, SendMoves DEF Drawn, Writing, OpGraph
    <2>3. CASE Look(q)
      BY <2>3, LookMoves DEF Drawn, Writing, OpGraph
    <2>4. CASE TimeOut(q) \/ Put(q) \/ Return(q) \/ \E c \in Calls : Begin(q, c)
      BY <2>4, TimeOutMoves, ItemDoneMoves, BeginMoves DEF Drawn, Writing, Fresh
    <2>5. CASE Uncache(q)
      BY <2>5, UncacheMoves DEF Drawn, Writing, Fresh
    <2>6. CASE Unlink(q) \/ SendBarrier(q)
      BY <2>6, DeleteMoves DEF Drawn, Writing
    <2> QED
      BY <1>2, <2>1, <2>2, <2>3, <2>4, <2>5, <2>6 DEF Step
  <1>3. CASE AnswerBarrier
    BY <1>3, AnswerMoves DEF Drawn, Writing
  <1>4. CASE (Work /\ ~AnswerBarrier) \/ DropBegins \/ DropJoins
    BY <1>4 DEF Work, Apply, ApplyFails, Shutdown, DropBegins, DropJoins
  <1> QED
    BY <1>1, <1>2, <1>3, <1>4 DEF Next

\* What a put and a removal make of the lines.
LEMMA PutLine ==
  ASSUME TypeInv, NEW p \in Procs, Put(p), NEW n \in Nodes
  PROVE  IF n = Now(p).node
         THEN /\ Writing(op[p]) /\ cache'[n] # NoLine
              /\ cache'[n].gen = op[p].gen /\ cache'[n].graph = Now(p).graph
         ELSE cache'[n] = cache[n]
  <1>1. op[p].at = "put" /\ op[p].kind = "write" /\ Now(p).node \in Nodes /\ Now(p).size \in 1..Wrap - 1
    BY InHand, Parts DEF Put, CallSound
  <1>2. PICK line : line = [gen |-> op[p].gen, graph |-> Now(p).graph, key |-> Now(p).key,
                            size |-> Now(p).size]
    OBVIOUS
  <1>3. cache' = [cache EXCEPT ![Now(p).node] = line]
    BY <1>2 DEF Put
  <1>4. line # NoLine /\ line.gen = op[p].gen /\ line.graph = Now(p).graph
    <2>1. line.size # 0
      BY <1>1, <1>2, BlackboardAssumption
    <2> QED
      BY <1>2, <2>1 DEF NoLine
  <1> QED
    BY <1>1, <1>3, <1>4, Parts DEF Writing

LEMMA UncacheLine ==
  ASSUME TypeInv, NEW p \in Procs, Uncache(p), NEW n \in Nodes
  PROVE  cache'[n] = IF n = Now(p).node THEN NoLine ELSE cache[n]
  <1>1. Now(p).node \in Nodes
    BY InHand DEF Uncache
  <1>2. CASE cache[Now(p).node] = NoLine
    BY <1>2 DEF Uncache
  <1>3. CASE cache[Now(p).node] # NoLine
    <2>1. cache' = [cache EXCEPT ![Now(p).node] = NoLine]
      BY <1>3 DEF Uncache
    <2> QED
      BY <1>1, <2>1, Parts
  <1> QED
    BY <1>2, <1>3

\* Where a line comes from.
LEMMA LineFrom ==
  ASSUME TypeInv, Next, NEW n \in Nodes
  PROVE  \/ cache'[n] = cache[n] \/ cache'[n] = NoLine
         \/ \E p \in Procs : /\ Writing(op[p]) /\ n = Now(p).node
                             /\ cache'[n].gen = op[p].gen /\ cache'[n].graph = Now(p).graph
  <1>1. CASE \E p \in Procs : Put(p)
    BY <1>1, PutLine
  <1>2. CASE \E p \in Procs : Uncache(p)
    BY <1>2, UncacheLine
  <1>3. CASE ~\E p \in Procs : Put(p) \/ Uncache(p)
    <2>1. cache' = cache
      BY <1>3, BeginFrame DEF Next, Step, Draw, Send, TimeOut, Look, Unlink, SendBarrier, Return, Work, Apply, ApplyFails, AnswerBarrier, Shutdown, DropBegins, DropJoins
    <2> QED
      BY <2>1
  <1> QED
    BY <1>1, <1>2, <1>3

\* Where the mirror's triples come from.
LEMMA MirrorFrom ==
  ASSUME TypeInv, Next, NEW n \in Nodes, NEW g \in Graphs
  PROVE  \/ mirror'[n][g] = mirror[n][g] \/ mirror'[n][g] = 0
         \/ \E i \in DOMAIN queue : /\ queue[i].type = "write" /\ queue[i].node = n
                                    /\ queue[i].graph = g /\ queue[i].gen = mirror'[n][g]
  <1>1. CASE mirror' = mirror
    BY <1>1
  <1>2. CASE mirror' # mirror
    <2>1. Apply
      BY <1>2 DEF Next, Step, Draw, Send, TimeOut, Look, Put, Uncache, Unlink, SendBarrier, Return,
           Begin, Work, ApplyFails, AnswerBarrier, Shutdown, DropBegins, DropJoins, outbox
    <2>2. /\ queue # <<>> /\ Head(queue) \in Commands /\ 1 \in DOMAIN queue
          /\ Head(queue) = queue[1]
      BY <2>1, Parts, QueueShrinks DEF Apply
    <2>3. PICK c \in Commands : c = Head(queue)
      BY <2>2
    <2>4. c.type \in {"write", "delete"} /\ mirror' = Applied(c)
      BY <1>2, <2>1, <2>3 DEF Apply
    <2>5. c.node \in Nodes /\ c.graph \in Graphs
      BY <2>4, UpdateTyped
    <2>6. PICK row \in [Graphs -> Nat] : row = mirror[c.node]
      BY <2>5, Parts
    <2>7. PICK v : v = IF c.type = "delete" THEN 0 ELSE IF c.blank THEN row[c.graph] ELSE c.gen
      OBVIOUS
    <2>8. mirror' = [mirror EXCEPT ![c.node] = [row EXCEPT ![c.graph] = v]]
      BY <2>4, <2>5, <2>6, <2>7, Parts DEF Applied
    <2>9. mirror'[n][g] = IF n = c.node /\ g = c.graph THEN v ELSE mirror[n][g]
      BY <2>5, <2>6, <2>8, Parts
    <2> QED
      BY <2>2, <2>3, <2>4, <2>6, <2>7, <2>9
  <1> QED
    BY <1>1, <1>2

LEMMA HeldFrom ==
  ASSUME TypeInv, Next, NEW n \in Nodes, NEW v \in Nat, NEW g \in Graphs, NEW k \in {"write", "delete"},
         Held(n, v, g, k)'
  PROVE  \/ Held(n, v, g, k)
         \/ \E p \in Procs : /\ Draw(p) /\ op[p].kind = k /\ Now(p).node = n
                             /\ v = versions[n].gen + 1 /\ g = GraphOf(p)
  <1>1. CASE \E i \in DOMAIN queue' : /\ Update(queue'[i]) /\ queue'[i].type = k /\ queue'[i].node = n
                                      /\ queue'[i].gen = v /\ queue'[i].graph = g
    <2>1. PICK i \in DOMAIN queue' : /\ Update(queue'[i]) /\ queue'[i].type = k /\ queue'[i].node = n
                                     /\ queue'[i].gen = v /\ queue'[i].graph = g
      BY <1>1
    <2>2. CASE \E j \in DOMAIN queue : queue'[i] = queue[j]
      BY <2>1, <2>2 DEF Held
    <2>3. CASE \E p \in Procs : Send(p) /\ queue'[i] = Command(p)
      <3>1. PICK p \in Procs : Send(p) /\ queue'[i] = Command(p)
        BY <2>3
      <3>2. op[p].at = "send"
        BY <3>1 DEF Send
      <3>3. /\ op[p].kind = k /\ op[p].gen = v /\ Now(p).node = n /\ GraphOf(p) = g
        BY <2>1, <3>1, <3>2, CommandTyped
      <3>4. Drawn(op[p]) /\ Head(op[p].todo).node = n /\ OpGraph(op[p]) = g
        BY <3>2, <3>3 DEF Drawn, Writing, Now, GraphOf, OpGraph
      <3> QED
        BY <3>3, <3>4 DEF Held
    <2> QED
      BY <2>1, <2>2, <2>3, QueueFrom
  <1>2. CASE \E q \in Procs : /\ Drawn(op'[q]) /\ op'[q].kind = k /\ op'[q].gen = v
                              /\ Head(op'[q].todo).node = n /\ OpGraph(op'[q]) = g
    <2>1. PICK q \in Procs : /\ Drawn(op'[q]) /\ op'[q].kind = k /\ op'[q].gen = v
                             /\ Head(op'[q].todo).node = n /\ OpGraph(op'[q]) = g
      BY <1>2
    <2>2. /\ \/ Drawn(op[q]) /\ v = op[q].gen
             \/ Draw(q) /\ v = versions[Now(q).node].gen + 1
          /\ op[q].kind = k /\ Now(q).node = n /\ OpGraph(op[q]) = g
      BY <2>1, DrawnFrom DEF Now
    <2>3. CASE Drawn(op[q]) /\ v = op[q].gen
      BY <2>2, <2>3 DEF Held, Now
    <2>4. CASE Draw(q) /\ v = versions[Now(q).node].gen + 1
      BY <2>2, <2>4 DEF OpGraph, GraphOf, Now
    <2> QED
      BY <2>2, <2>3, <2>4
  <1>3. CASE k = "write" /\ cache'[n] # NoLine /\ cache'[n].gen = v /\ cache'[n].graph = g
    <2>1. CASE cache'[n] = cache[n]
      BY <1>3, <2>1 DEF Held
    <2>2. ASSUME NEW p \in Procs, Writing(op[p]), n = Now(p).node, cache'[n].gen = op[p].gen,
                 cache'[n].graph = Now(p).graph
          PROVE  Held(n, v, g, k)
      <3>1. Drawn(op[p]) /\ op[p].kind = k /\ Head(op[p].todo).node = n /\ OpGraph(op[p]) = g
        BY <1>3, <2>2 DEF Drawn, Writing, OpGraph, Now
      <3> QED
        BY <1>3, <2>2, <3>1 DEF Held
    <2> QED
      BY <1>3, <2>1, <2>2, LineFrom
  <1>4. CASE k = "write" /\ v > 0 /\ mirror'[n][g] = v
    BY <1>4, MirrorFrom DEF Held, Update
  <1> QED
    BY <1>1, <1>2, <1>3, <1>4 DEF Held

\* Only Draw changes what the newest generation is, and the graph it is for.
LEMMA DrawVersion ==
  ASSUME TypeInv, NEW p \in Procs, Draw(p), NEW n \in Nodes
  PROVE  IF n = Now(p).node
         THEN /\ versions'[n].gen = versions[n].gen + 1 /\ (versions'[n].tomb <=> op[p].kind = "delete")
              /\ target'[n] = GraphOf(p)
         ELSE versions'[n] = versions[n] /\ target'[n] = target[n]
  <1>1. Now(p).node \in Nodes
    BY InHand DEF Draw
  <1>2. PICK g : g = versions[Now(p).node].gen + 1
    OBVIOUS
  <1>3. PICK b \in BOOLEAN : b = (op[p].kind = "delete")
    OBVIOUS
  <1>4. PICK v : v = [gen |-> g, tomb |-> b]
    OBVIOUS
  <1>5. v.gen = g /\ v.tomb = b
    BY <1>4
  <1>6. versions' = [versions EXCEPT ![Now(p).node] = v]
    BY <1>2, <1>3, <1>4 DEF Draw
  <1>7. target' = [target EXCEPT ![Now(p).node] = GraphOf(p)]
    BY DEF Draw
  <1> QED
    BY <1>1, <1>2, <1>3, <1>5, <1>6, <1>7, Parts

LEMMA VersionsFrom ==
  ASSUME TypeInv, Next, NEW n \in Nodes
  PROVE  \/ /\ versions'[n] = versions[n] /\ target'[n] = target[n]
            /\ ~\E p \in Procs : Draw(p) /\ Now(p).node = n
         \/ \E p \in Procs : /\ Draw(p) /\ Now(p).node = n
                             /\ versions'[n].gen = versions[n].gen + 1
                             /\ versions'[n].tomb <=> op[p].kind = "delete"
                             /\ target'[n] = GraphOf(p)
  <1>1. CASE \E p \in Procs : Draw(p) /\ Now(p).node = n
    BY <1>1, DrawVersion
  <1>2. CASE ~\E p \in Procs : Draw(p) /\ Now(p).node = n
    <2>1. CASE \E p \in Procs : Draw(p)
      BY <1>2, <2>1, DrawVersion
    <2>2. CASE ~\E p \in Procs : Draw(p)
      <3>1. versions' = versions /\ target' = target
        BY <2>2 DEF Next, Step, Send, TimeOut, Look, Put, Uncache, Unlink, SendBarrier, Return,
           Begin, Work, Apply, ApplyFails, AnswerBarrier, Shutdown, DropBegins, DropJoins, history
      <3> QED
        BY <1>2, <3>1
    <2> QED
      BY <2>1, <2>2
  <1> QED
    BY <1>1, <1>2

LEMMA InitHeld == Init => HeldInv
  <1> SUFFICES ASSUME Init, NEW n \in Nodes, NEW v \in Nat, NEW g \in Graphs,
                      NEW k \in {"write", "delete"}, Held(n, v, g, k)
               PROVE  FALSE
    BY DEF HeldInv
  <1>1. /\ DOMAIN queue = {} /\ cache[n] = NoLine /\ mirror[n][g] = 0
        /\ \A p \in Procs : op[p] = Idle
    BY DEF Init
  <1>2. ~Drawn(Idle)
    BY IdleSound DEF Drawn, Writing
  <1> QED
    BY <1>1, <1>2 DEF Held

LEMMA NextHeld == TypeInv /\ HeldInv /\ [Next]_vars => HeldInv'
  <1> SUFFICES ASSUME TypeInv, HeldInv, [Next]_vars PROVE HeldInv'
    OBVIOUS
  <1>1. CASE Next
    <2> SUFFICES ASSUME NEW n \in Nodes, NEW v \in Nat, NEW g \in Graphs,
                        NEW k \in {"write", "delete"}, Held(n, v, g, k)'
                 PROVE  /\ v <= versions'[n].gen
                        /\ v = versions'[n].gen =>
                             g = target'[n] /\ (versions'[n].tomb <=> k = "delete")
      BY DEF HeldInv
    <2>1. versions[n].gen \in Nat
      BY Parts
    <2>2. CASE Held(n, v, g, k)
      <3>1. /\ v <= versions[n].gen
            /\ v = versions[n].gen => g = target[n] /\ (versions[n].tomb <=> k = "delete")
        BY <2>2 DEF HeldInv
      <3> QED
        BY <1>1, <2>1, <3>1, VersionsFrom
    <2>3. ASSUME NEW p \in Procs, Draw(p), op[p].kind = k, Now(p).node = n,
                 v = versions[n].gen + 1, g = GraphOf(p)
          PROVE  /\ v = versions'[n].gen /\ g = target'[n]
                 /\ versions'[n].tomb <=> k = "delete"
      BY <2>3, DrawVersion
    <2> QED
      BY <1>1, <2>1, <2>2, <2>3, HeldFrom
  <1>2. CASE UNCHANGED vars
    BY <1>2 DEF vars, outbox, history, HeldInv, Held
  <1> QED
    BY <1>1, <1>2

-----------------------------------------------------------------------------
(***************************************************************************)
(* The newest state of a node.  Unless it was dropped, the command of the  *)
(* newest generation is on its way, or has been worked off and the mirror  *)
(* shows it.                                                               *)
(***************************************************************************)
Queued(n) == \E i \in DOMAIN queue : Update(queue[i]) /\ queue[i].node = n /\ Current(queue[i])
InSending(n) ==
  \E p \in Procs : /\ op[p].at = "send" /\ Now(p).node = n /\ op[p].gen = versions[n].gen
                   /\ versions[n].tomb <=> op[p].kind = "delete"
Shown(n) ==
  versions[n].gen > 0 => mirror[n][target[n]] = IF versions[n].tomb THEN 0 ELSE versions[n].gen

NewestInv == \A n \in Nodes : n \notin dropped => Queued(n) \/ InSending(n) \/ Shown(n)

\* What the mirror holds in other graphs.
LEMMA OlderElsewhere ==
  ASSUME TypeInv, HomeInv, HeldInv, NEW n \in Nodes, NEW g \in Exposed(n)
  PROVE  /\ g \in homes[n] /\ mirror[n][g] <= versions[n].gen
         /\ mirror[n][g] = versions[n].gen => g = target[n]
  <1>1. g \in Graphs /\ mirror[n][g] # 0 /\ mirror[n][g] \in Nat
    BY Parts DEF Exposed
  <1>2. Held(n, mirror[n][g], g, "write")
    BY <1>1 DEF Held
  <1>3. g \in homes[n]
    BY <1>1 DEF HomeInv
  <1> QED
    BY <1>1, <1>2, <1>3 DEF HeldInv

LEMMA NewestShown == TypeInv /\ HomeInv /\ HeldInv /\ NewestInv => MirrorNewest
  <1> SUFFICES ASSUME TypeInv, HomeInv, HeldInv, NewestInv,
                      NEW n \in Nodes, Drained(n), n \notin dropped
               PROVE  /\ Shown(n)
                      /\ \A g \in Exposed(n) \ {target[n]} :
                           g \in homes[n] /\ mirror[n][g] < versions[n].gen
    BY DEF MirrorNewest, Shown
  <1>1. Shown(n)
    BY DEF NewestInv, Drained, Queued, InSending, Update
  <1>2. ASSUME NEW g \in Exposed(n) \ {target[n]}
        PROVE  g \in homes[n] /\ mirror[n][g] < versions[n].gen
    <2>1. mirror[n][g] \in Nat /\ versions[n].gen \in Nat
      BY Parts DEF Exposed
    <2> QED
      BY <2>1, OlderElsewhere
  <1> QED
    BY <1>1, <1>2

\* A step that draws no generation, applies no update and loses none.
LEMMA QuietNewest ==
  ASSUME TypeInv, NewestInv, versions' = versions, mirror' = mirror, target' = target,
         dropped' = dropped,
         \A i \in DOMAIN queue : Update(queue[i]) => \E j \in DOMAIN queue' : queue'[j] = queue[i],
         \A p \in Procs : op[p].at = "send" => op'[p] = op[p]
  PROVE  NewestInv'
  <1> SUFFICES ASSUME NEW n \in Nodes, n \notin dropped
               PROVE  (Queued(n) \/ InSending(n) \/ Shown(n))'
    BY DEF NewestInv
  <1>1. Queued(n) => Queued(n)'
    BY DEF Queued, Current
  <1>2. InSending(n) => InSending(n)'
    BY DEF InSending, Now
  <1>3. Shown(n) => Shown(n)'
    BY DEF Shown
  <1> QED
    BY <1>1, <1>2, <1>3 DEF NewestInv

LEMMA DrawNewest ==
  ASSUME TypeInv, NewestInv, NEW p \in Procs, Draw(p)
  PROVE  NewestInv'
  <1>1. /\ op[p].at = "draw" /\ Now(p).node \in Nodes /\ \A q \in Procs \ {p} : op'[q] = op[q]
        /\ op'[p].at = "send" /\ op'[p].todo = op[p].todo /\ op'[p].kind = op[p].kind
        /\ op'[p].gen = versions[Now(p).node].gen + 1
    BY DrawMoves, InHand DEF Draw
  <1>2. PICK n \in Nodes : n = Now(p).node
    BY <1>1
  <1>3. PICK g \in Nat : g = versions[n].gen + 1
    BY Parts
  <1>4. PICK b \in BOOLEAN : b = (op[p].kind = "delete")
    OBVIOUS
  <1>5. PICK v : v = [gen |-> g, tomb |-> b]
    OBVIOUS
  <1>6. v.gen = g /\ v.tomb = b
    BY <1>5
  <1>7. versions' = [versions EXCEPT ![n] = v]
    BY <1>2, <1>3, <1>4, <1>5 DEF Draw
  <1>8. InSending(n)'
    BY <1>1, <1>2, <1>3, <1>4, <1>6, <1>7, Parts DEF InSending, Now
  <1>9. ASSUME NEW m \in Nodes \ {n}, m \notin dropped'
        PROVE  (Queued(m) \/ InSending(m) \/ Shown(m))'
    <2>1. /\ versions'[m] = versions[m] /\ queue' = queue /\ mirror' = mirror
          /\ target'[m] = target[m] /\ m \notin dropped
      <3>1. UNCHANGED <<queue, mirror>> /\ dropped' = dropped \ {Now(p).node}
        BY DEF Draw, outbox
      <3>2. versions'[m] = versions[m] /\ target'[m] = target[m]
        BY <1>2, <1>9, DrawVersion
      <3> QED
        BY <1>2, <1>9, <3>1, <3>2
    <2>2. Queued(m) => Queued(m)'
      BY <2>1 DEF Queued, Current
    <2>3. InSending(m) => InSending(m)'
      BY <1>1, <2>1 DEF InSending, Now
    <2>4. Shown(m) => Shown(m)'
      BY <2>1 DEF Shown
    <2> QED
      BY <1>9, <2>1, <2>2, <2>3, <2>4 DEF NewestInv
  <1> QED
    BY <1>8, <1>9 DEF NewestInv

LEMMA SendNewest ==
  ASSUME TypeInv, NewestInv, NEW p \in Procs, Send(p)
  PROVE  NewestInv'
  <1>1. /\ op[p].at = "send" /\ \A q \in Procs \ {p} : op'[q] = op[q]
        /\ op[p].kind \in {"write", "delete"}
    BY SendMoves, InHand
  <1>2. /\ Command(p) \in Commands /\ Command(p).type = op[p].kind
        /\ Command(p).node = Now(p).node /\ Command(p).gen = op[p].gen
    BY <1>1, CommandTyped
  <1>3. /\ DOMAIN queue' = DOMAIN queue \union {Len(queue) + 1}
        /\ \A i \in DOMAIN queue : queue'[i] = queue[i]
        /\ queue'[Len(queue) + 1] = Command(p)
    BY <1>2, Parts, QueueGrows DEF Send
  <1>4. versions' = versions /\ mirror' = mirror /\ dropped' = dropped /\ target' = target
    BY DEF Send
  <1>5. ASSUME NEW n \in Nodes, n \notin dropped
        PROVE  (Queued(n) \/ InSending(n) \/ Shown(n))'
    <2>1. Queued(n) => Queued(n)'
      BY <1>3, <1>4 DEF Queued, Current, Update
    <2>2. ASSUME NEW q \in Procs, op[q].at = "send", Now(q).node = n, op[q].gen = versions[n].gen,
                 versions[n].tomb <=> op[q].kind = "delete"
          PROVE  (Queued(n) \/ InSending(n))'
      <3>1. CASE q # p
        BY <1>1, <1>4, <2>2, <3>1 DEF InSending, Now
      <3>2. CASE q = p
        <4>1. PICK c : c = Command(p)
          OBVIOUS
        <4>2. /\ c.type \in {"write", "delete"} /\ c.node = n /\ c.gen = versions[n].gen
              /\ versions[n].tomb <=> c.type = "delete"
          BY <1>1, <1>2, <2>2, <3>2, <4>1
        <4>3. PICK v \in [gen : Nat, tomb : BOOLEAN] : v = versions[n]
          BY Parts
        <4>4. PICK b \in BOOLEAN : b = (c.type = "delete")
          OBVIOUS
        <4>5. v.tomb = b
          BY <4>2, <4>3, <4>4
        <4>6. v = [gen |-> c.gen, tomb |-> b]
          BY <4>2, <4>3, <4>5
        <4>7. Current(c)
          BY <4>2, <4>3, <4>4, <4>6 DEF Current
        <4>8. Current(c)'
          BY <1>4, <4>7 DEF Current
        <4>9. Queued(n)'
          BY <1>3, <4>1, <4>2, <4>8 DEF Queued, Update
        <4> QED
          BY <4>9
      <3> QED
        BY <3>1, <3>2
    <2>3. Shown(n) => Shown(n)'
      BY <1>4 DEF Shown
    <2>4. Queued(n) \/ InSending(n) \/ Shown(n)
      BY <1>5 DEF NewestInv
    <2>5. InSending(n) => (Queued(n) \/ InSending(n))'
      BY <2>2 DEF InSending
    <2> QED
      BY <2>1, <2>3, <2>4, <2>5
  <1> QED
    BY <1>4, <1>5 DEF NewestInv

LEMMA TimeOutNewest ==
  ASSUME TypeInv, NewestInv, NEW p \in Procs, TimeOut(p)
  PROVE  NewestInv'
  <1>1. \A q \in Procs \ {p} : op'[q] = op[q]
    BY TimeOutMoves
  <1>2. /\ versions' = versions /\ queue' = queue /\ mirror' = mirror /\ target' = target
        /\ dropped' = IF op[p].gen = versions[Now(p).node].gen
                      THEN dropped \union {Now(p).node} ELSE dropped
    BY DEF TimeOut, outbox
  <1>3. ASSUME NEW n \in Nodes, n \notin dropped'
        PROVE  (Queued(n) \/ InSending(n) \/ Shown(n))'
    <2>1. Queued(n) => Queued(n)'
      BY <1>2 DEF Queued, Current
    <2>2. InSending(n) => InSending(n)'
      BY <1>1, <1>2, <1>3 DEF InSending, Now
    <2>3. Shown(n) => Shown(n)'
      BY <1>2 DEF Shown
    <2> QED
      BY <1>2, <1>3, <2>1, <2>2, <2>3 DEF NewestInv
  <1> QED
    BY <1>3 DEF NewestInv

\* The worker's updates.
LEMMA ApplyNewest ==
  ASSUME TypeInv, HeldInv, NewestInv, Apply \/ ApplyFails
  PROVE  NewestInv'
  <1>1. /\ queue # <<>> /\ queue' = Tail(queue) /\ op' = op /\ versions' = versions /\ target' = target
    BY DEF Apply, ApplyFails
  <1>2. PICK c \in Commands : c = Head(queue)
    BY <1>1, Parts, QueueShrinks
  <1>3. c.type \in {"write", "delete"}
    BY <1>2 DEF Apply, ApplyFails
  <1>4. c.node \in Nodes /\ c.graph \in Graphs /\ c.gen \in Nat
    BY <1>3, UpdateTyped
  <1>5. /\ 1 \in DOMAIN queue /\ queue[1] = c
        /\ \A i \in DOMAIN queue : i # 1 => i - 1 \in DOMAIN queue' /\ queue'[i - 1] = queue[i]
    BY <1>1, <1>2, Parts, QueueShrinks
  <1>6. ASSUME NEW n \in Nodes, Queued(n), n # c.node \/ ~Current(c) PROVE Queued(n)'
    <2>1. PICK i \in DOMAIN queue : Update(queue[i]) /\ queue[i].node = n /\ Current(queue[i])
      BY <1>6 DEF Queued
    <2>2. i # 1
      BY <1>5, <1>6, <2>1
    <2>3. PICK d : d = queue[i]
      OBVIOUS
    <2>4. Current(d)'
      BY <1>1, <2>1, <2>3 DEF Current
    <2>5. \E j \in DOMAIN queue' : queue'[j] = d
      BY <1>5, <2>2, <2>3
    <2>6. Update(d) /\ d.node = n
      BY <2>1, <2>3
    <2> QED
      BY <2>4, <2>5, <2>6 DEF Queued, Update
  <1>7. \A n \in Nodes : InSending(n) => InSending(n)'
    BY <1>1 DEF InSending, Now
  <1>8. CASE ~Current(c)
    <2>1. mirror' = mirror /\ dropped' = dropped
      BY <1>2, <1>8 DEF Apply, ApplyFails
    <2>2. \A n \in Nodes : Shown(n) => Shown(n)'
      BY <1>1, <2>1 DEF Shown
    <2> QED
      BY <1>6, <1>7, <1>8, <2>1, <2>2 DEF NewestInv
  <1>9. CASE Current(c)
    <2>1. /\ versions[c.node].gen = c.gen /\ versions[c.node].tomb = (c.type = "delete")
      BY <1>9 DEF Current
    <2>2. \A n \in Nodes \ {c.node} : mirror'[n] = mirror[n]
      <3>1. CASE ApplyFails
        BY <3>1 DEF ApplyFails
      <3>2. CASE Apply
        <4>1. mirror' = Applied(c)
          BY <1>2, <1>9, <3>2 DEF Apply
        <4> QED
          BY <4>1, Parts DEF Applied
      <3> QED
        BY <3>1, <3>2
    <2>3. dropped \subseteq dropped'
      BY DEF Apply, ApplyFails
    <2>4. ASSUME NEW n \in Nodes \ {c.node}, n \notin dropped'
          PROVE  (Queued(n) \/ InSending(n) \/ Shown(n))'
      <3>1. Shown(n) => Shown(n)'
        BY <1>1, <2>2 DEF Shown
      <3> QED
        BY <1>6, <1>7, <2>3, <2>4, <3>1 DEF NewestInv
    <2>5. ASSUME c.node \notin dropped' PROVE Shown(c.node)'
      <3>1. Apply /\ ~c.blank /\ mirror' = Applied(c)
        BY <1>2, <1>9, <2>5 DEF Apply, ApplyFails
      <3>2. PICK row \in [Graphs -> Nat] : row = mirror[c.node]
        BY <1>4, Parts
      <3>3. PICK v : v = IF c.type = "delete" THEN 0 ELSE c.gen
        OBVIOUS
      <3>4. mirror' = [mirror EXCEPT ![c.node] = [row EXCEPT ![c.graph] = v]]
        BY <3>1, <3>2, <3>3, <1>4, Parts DEF Applied
      <3>5. mirror'[c.node][c.graph] = v
        BY <1>4, <3>2, <3>4, Parts
      <3>6. Held(c.node, c.gen, c.graph, c.type)
        BY <1>3, <1>5 DEF Held, Update
      <3>7. c.graph = target[c.node]
        BY <1>3, <1>4, <2>1, <3>6 DEF HeldInv
      <3>8. CASE c.type = "delete"
        BY <1>1, <2>1, <3>3, <3>5, <3>7, <3>8 DEF Shown
      <3>9. CASE c.type = "write"
        BY <1>1, <2>1, <3>3, <3>5, <3>7, <3>9 DEF Shown
      <3> QED
        BY <1>3, <3>8, <3>9
    <2> QED
      BY <2>4, <2>5 DEF NewestInv
  <1> QED
    BY <1>8, <1>9

LEMMA CallerNewest ==
  ASSUME TypeInv, NewestInv, NEW p \in Procs, Step(p) \/ \E c \in Calls : Begin(p, c)
  PROVE  NewestInv'
  <1>1. CASE Draw(p) \/ Send(p) \/ TimeOut(p)
    BY <1>1, DrawNewest, SendNewest, TimeOutNewest
  <1>2. CASE ~(Draw(p) \/ Send(p) \/ TimeOut(p))
    <2>1. /\ versions' = versions /\ mirror' = mirror /\ target' = target /\ dropped' = dropped
      BY <1>2, BeginFrame DEF Step, Look, Put, Uncache, Unlink, SendBarrier, Return, outbox, history
    <2>2. \A q \in Procs : op[q].at = "send" => op'[q] = op[q]
      <3>1. CASE Look(p)
        BY <3>1, LookMoves
      <3>2. CASE Put(p) \/ Return(p)
        BY <3>2, ItemDoneMoves, FreshHome
      <3>3. CASE Uncache(p)
        BY <3>3, UncacheMoves, FreshHome
      <3>4. CASE Unlink(p) \/ SendBarrier(p)
        BY <3>4, DeleteMoves
      <3>5. CASE \E c \in Calls : Begin(p, c)
        BY <3>5, BeginMoves, FreshHome
      <3> QED
        BY <1>2, <3>1, <3>2, <3>3, <3>4, <3>5 DEF Step
    <2>3. \A i \in DOMAIN queue : i \in DOMAIN queue' /\ queue'[i] = queue[i]
      <3>1. CASE SendBarrier(p)
        <4>1. PICK c : c = [type |-> "barrier", by |-> p]
          OBVIOUS
        <4>2. c \in Commands
          BY <4>1 DEF Commands
        <4> QED
          BY <3>1, <4>1, <4>2, Parts, QueueGrows DEF SendBarrier
      <3>2. CASE ~SendBarrier(p)
        BY <1>2, <3>2, BeginFrame DEF Step, Look, Put, Uncache, Unlink, Return, outbox
      <3> QED
        BY <3>1, <3>2
    <2> QED
      BY <2>1, <2>2, <2>3, QuietNewest
  <1> QED
    BY <1>1, <1>2

LEMMA WorkNewest ==
  ASSUME TypeInv, HeldInv, NewestInv, Work \/ DropBegins \/ DropJoins
  PROVE  NewestInv'
  <1>1. CASE Apply \/ ApplyFails
    BY <1>1, ApplyNewest
  <1>2. CASE ~(Apply \/ ApplyFails)
    <2>1. /\ versions' = versions /\ mirror' = mirror /\ target' = target /\ dropped' = dropped
      BY <1>2 DEF Work, AnswerBarrier, Shutdown, DropBegins, DropJoins, outbox, history
    <2>2. \A q \in Procs : op[q].at = "send" => op'[q] = op[q]
      <3>1. CASE AnswerBarrier
        BY <3>1, AnswerMoves
      <3>2. CASE ~AnswerBarrier
        BY <1>2, <3>2 DEF Work, Shutdown, DropBegins, DropJoins
      <3> QED
        BY <3>1, <3>2
    <2>3. \A i \in DOMAIN queue : Update(queue[i]) => \E j \in DOMAIN queue' : queue'[j] = queue[i]
      <3>1. CASE AnswerBarrier \/ Shutdown
        <4>1. queue # <<>> /\ queue' = Tail(queue) /\ ~Update(Head(queue))
          BY <3>1 DEF AnswerBarrier, Shutdown, Update
        <4>2. /\ Head(queue) = queue[1]
              /\ \A i \in DOMAIN queue : i # 1 => i - 1 \in DOMAIN queue' /\ queue'[i - 1] = queue[i]
          BY <4>1, Parts, QueueShrinks
        <4> QED
          BY <4>1, <4>2
      <3>2. CASE DropBegins /\ Room
        <4>1. PICK c : c = [type |-> "shutdown"]
          OBVIOUS
        <4>2. c \in Commands
          BY <4>1 DEF Commands
        <4>3. \A i \in DOMAIN queue : i \in DOMAIN queue' /\ queue'[i] = queue[i]
          BY <3>2, <4>1, <4>2, Parts, QueueGrows DEF DropBegins
        <4> QED
          BY <4>3
      <3>3. CASE (DropBegins /\ ~Room) \/ DropJoins
        BY <3>3 DEF DropBegins, DropJoins, outbox
      <3> QED
        BY <1>2, <3>1, <3>2, <3>3 DEF Work
    <2> QED
      BY <2>1, <2>2, <2>3, QuietNewest
  <1> QED
    BY <1>1, <1>2

LEMMA InitNewest == Init => NewestInv
  <1> SUFFICES ASSUME Init, NEW n \in Nodes PROVE Shown(n)
    BY DEF NewestInv
  <1>1. versions[n].gen = 0 /\ versions[n].tomb = FALSE
    BY DEF Init
  <1> QED
    BY <1>1 DEF Shown

LEMMA NextNewest == TypeInv /\ HeldInv /\ NewestInv /\ [Next]_vars => NewestInv'
  <1>1. SUFFICES ASSUME TypeInv, HeldInv, NewestInv, [Next]_vars PROVE NewestInv'
    OBVIOUS
  <1>2. CASE Next
    BY <1>1, <1>2, CallerNewest, WorkNewest DEF Next
  <1>3. CASE UNCHANGED vars
    BY <1>1, <1>3, QuietNewest DEF vars, outbox, history
  <1> QED
    BY <1>1, <1>2, <1>3

\* Whatever writers and deleters of a node do to each other, once its commands are
\* worked off the graph its newest generation is for holds that generation, or nothing
\* if it is a tombstone, and every other graph at most an older one that was written
\* there, unless that newest update was dropped: the generation check of the outbox
\* worker is enough against every reordering.
THEOREM MirrorIsNewest == Spec => []MirrorNewest
<1>1. Init => TypeInv /\ HomeInv /\ HeldInv /\ NewestInv
  BY InitTypeInv, InitHome, InitHeld, InitNewest
<1>2. TypeInv /\ HomeInv /\ HeldInv /\ NewestInv /\ [Next]_vars
        => (TypeInv /\ HomeInv /\ HeldInv /\ NewestInv)'
  BY NextTyped, NextHome, NextHeld, NextNewest
<1> QED
  BY <1>1, <1>2, NewestShown, PTL DEF Spec

-----------------------------------------------------------------------------
(***************************************************************************)
(* Cache and mirror.  On a node that is not disputed, the cached line is   *)
(* that of the newest generation, except while the one call that works on  *)
(* the node is between drawing its generation (or taking the line out) and *)
(* putting the line in (or sending the tombstone), and after its update    *)
(* was dropped.  What that call holds is the newest all the same, so that  *)
(* the write that meets no other ends a dispute.                           *)
(***************************************************************************)
Busy(o) == \/ o.kind = "write" /\ o.at \in {"send", "look", "put"}
           \/ o.kind = "delete" /\ o.at \in {"draw", "send"}
BusyOn(o, n) == Busy(o) /\ Head(o.todo).node = n
Fits(n) == IF cache[n] = NoLine THEN versions[n].tomb \/ versions[n].gen = 0
           ELSE cache[n].gen = versions[n].gen

Sole(o, n) ==
  /\ o.kind = "write" => o.gen = versions[n].gen
  /\ o.kind = "delete" => cache[n] = NoLine
  /\ o.at = "send" => o.gen = versions[n].gen /\ (versions[n].tomb <=> o.kind = "delete")

Agree(n) ==
  /\ (\A p \in Procs : ~BusyOn(op[p], n)) /\ n \notin dropped => Fits(n)
  /\ \A p \in Procs : BusyOn(op[p], n) => Sole(op[p], n)

AgreeInv ==
  /\ \A p, q \in Procs : p # q => Active(p) \intersect Active(q) \subseteq raced
  /\ \A p, q \in Procs : p # q => Active(p) \intersect Active(q) \subseteq disputed
  /\ \A n \in Nodes \ disputed : Agree(n)

LEMMA SyncedAgree == TypeInv /\ HomeInv /\ HeldInv /\ NewestInv /\ AgreeInv => MirrorAgrees
  <1> SUFFICES ASSUME TypeInv, HomeInv, HeldInv, NewestInv, AgreeInv, NEW n \in Nodes,
                      Drained(n), Untouched(n), n \notin disputed \union dropped
               PROVE  IF cache[n] = NoLine THEN Exposed(n) \subseteq LeftBehind(n)
                      ELSE cache[n].graph = target[n] /\ mirror[n][cache[n].graph] = cache[n].gen
    BY DEF MirrorAgrees
  <1>1. \A p \in Procs : ~BusyOn(op[p], n)
    <2> SUFFICES ASSUME NEW p \in Procs, BusyOn(op[p], n) PROVE FALSE
      OBVIOUS
    <2>1. op[p].at # "idle"
      BY DEF BusyOn, Busy
    <2>2. n \in Active(p)
      BY <2>1, InHand DEF BusyOn, Now
    <2> QED
      BY <2>2 DEF Untouched
  <1>2. Fits(n)
    BY <1>1 DEF AgreeInv, Agree
  <1>3. Shown(n)
    BY DEF NewestInv, Drained, Queued, InSending, Update
  <1>4. versions[n].gen \in Nat /\ \A g \in Graphs : mirror[n][g] \in Nat
    BY Parts
  <1>5. \A g \in Exposed(n) : g \in Graphs /\ mirror[n][g] # 0
    BY DEF Exposed
  <1>6. CASE cache[n] = NoLine
    <2> SUFFICES ASSUME NEW g \in Exposed(n) PROVE g \in homes[n] /\ g # target[n]
      BY <1>6 DEF LeftBehind
    <2>1. g \in homes[n] /\ mirror[n][g] <= versions[n].gen
      BY OlderElsewhere
    <2>2. versions[n].gen > 0
      BY <1>4, <1>5, <2>1
    <2>3. versions[n].tomb
      BY <1>2, <1>6, <2>2 DEF Fits
    <2> QED
      BY <1>3, <1>5, <2>1, <2>2, <2>3 DEF Shown
  <1>7. CASE cache[n] # NoLine
    <2>1. cache[n].gen = versions[n].gen
      BY <1>2, <1>7 DEF Fits
    <2>2. cache[n].graph \in Graphs
      BY <1>7, Parts DEF Line
    <2>3. Held(n, versions[n].gen, cache[n].graph, "write")
      BY <1>7, <2>1 DEF Held
    <2>4. ~versions[n].tomb /\ cache[n].graph = target[n]
      BY <1>4, <2>2, <2>3 DEF HeldInv
    <2>5. CASE versions[n].gen = 0
      <3>1. cache[n].graph \notin Exposed(n)
        BY <1>4, <1>5, <2>5, OlderElsewhere
      <3>2. mirror[n][cache[n].graph] = 0
        BY <2>2, <3>1 DEF Exposed
      <3> QED
        BY <1>7, <2>1, <2>4, <2>5, <3>2
    <2>6. CASE versions[n].gen > 0
      BY <1>3, <1>7, <2>1, <2>4, <2>6 DEF Shown
    <2> QED
      BY <1>4, <2>5, <2>6
  <1> QED
    BY <1>6, <1>7

LEMMA InitAgree == Init => AgreeInv
  <1> SUFFICES ASSUME Init PROVE AgreeInv
    OBVIOUS
  <1>1. \A p \in Procs : op[p] = Idle /\ Active(p) = {}
    BY IdleSound DEF Init, Active, NodesOf
  <1>2. ~Busy(Idle)
    BY IdleSound DEF Busy
  <1>3. \A n \in Nodes : cache[n] = NoLine /\ versions[n].gen = 0
    BY DEF Init
  <1> QED
    BY <1>1, <1>2, <1>3 DEF AgreeInv, Agree, BusyOn, Fits

LEMMA BusyActive ==
  ASSUME TypeInv, NEW p \in Procs, NEW n, BusyOn(op[p], n)
  PROVE  n \in Active(p) /\ n = Now(p).node
  BY InHand DEF BusyOn, Busy, Now

LEMMA FreshNotBusy == ASSUME NEW o, Fresh(o), NEW n PROVE ~BusyOn(o, n)
  BY DEF Fresh, BusyOn, Busy

\* A step of one call that neither touches the node's line and generation nor
\* begins or ends work on it.
LEMMA AgreeKept ==
  ASSUME NEW n \in Nodes, Agree(n), versions'[n] = versions[n], cache'[n] = cache[n],
         n \in dropped => n \in dropped',
         NEW p \in Procs, \A q \in Procs \ {p} : op'[q] = op[q],
         \/ ~BusyOn(op[p], n) /\ ~BusyOn(op'[p], n)
         \/ /\ BusyOn(op[p], n) /\ BusyOn(op'[p], n) /\ op[p].kind = "write"
            /\ op'[p].kind = "write" /\ op'[p].gen = op[p].gen /\ op'[p].at # "send"
  PROVE  Agree(n)'
  <1>1. Fits(n)' <=> Fits(n)
    BY DEF Fits
  <1>2. \A q \in Procs : BusyOn(op'[q], n) <=> BusyOn(op[q], n)
    OBVIOUS
  <1>3. ASSUME NEW q \in Procs, BusyOn(op'[q], n)
        PROVE  /\ op'[q].kind = "write" => op'[q].gen = versions'[n].gen
               /\ op'[q].kind = "delete" => cache'[n] = NoLine
               /\ op'[q].at = "send" => /\ op'[q].gen = versions'[n].gen
                                        /\ versions'[n].tomb <=> op'[q].kind = "delete"
    <2>1. BusyOn(op[q], n) /\ Sole(op[q], n)
      BY <1>2, <1>3 DEF Agree
    <2>2. CASE q = p
      BY <1>3, <2>1, <2>2 DEF Sole
    <2>3. CASE q # p
      BY <1>3, <2>1, <2>3 DEF Sole
    <2> QED
      BY <2>2, <2>3
  <1> QED
    BY <1>1, <1>2, <1>3 DEF Agree, Sole

\* A dispute ends with a write that draws its generation where no other call works.
LEMMA Healed ==
  ASSUME TypeInv, Next, NEW n \in disputed, n \notin disputed'
  PROVE  \E p \in Procs : /\ Draw(p) /\ op[p].kind = "write" /\ n = Now(p).node
                         /\ \A q \in Procs \ {p} : n \notin Active(q)
  <1>1. PICK p \in Procs : Draw(p)
    BY DEF Next, Step, Send, TimeOut, Look, Put, Uncache, Unlink, SendBarrier, Return,
       Begin, Work, Apply, ApplyFails, AnswerBarrier, Shutdown, DropBegins, DropJoins, history
  <1>2. disputed' = IF op[p].kind = "write" /\ \A q \in Procs \ {p} : Now(p).node \notin Active(q)
                    THEN disputed \ {Now(p).node} ELSE disputed
    BY <1>1 DEF Draw
  <1> QED
    BY <1>1, <1>2

LEMMA OthersStay ==
  ASSUME TypeInv, NEW p \in Procs, Step(p) \/ \E c \in Calls : Begin(p, c)
  PROVE  \A q \in Procs \ {p} : op'[q] = op[q]
  BY DrawMoves, SendMoves, TimeOutMoves, LookMoves, ItemDoneMoves, UncacheMoves,
     DeleteMoves, BeginMoves DEF Step

LEMMA ActiveShrinks ==
  ASSUME TypeInv, NEW p \in Procs, Step(p)
  PROVE  Active(p)' \subseteq Active(p)
  BY DrawMoves, SendMoves, TimeOutMoves, LookMoves, ItemDoneMoves, UncacheMoves,
     DeleteMoves DEF Step, Active

LEMMA WorkersKeep ==
  ASSUME TypeInv, Work \/ DropBegins \/ DropJoins
  PROVE  \A p \in Procs : Active(p)' = Active(p)
  <1>1. CASE AnswerBarrier
    BY <1>1, AnswerMoves DEF Active
  <1>2. CASE ~AnswerBarrier
    BY <1>2 DEF Work, Apply, ApplyFails, Shutdown, DropBegins, DropJoins, Active
  <1> QED
    BY <1>1, <1>2

\* Calls on one node at a time, or the node is raced, and disputed.
LEMMA NextRaced ==
  ASSUME TypeInv, AgreeInv, Next
  PROVE  raced \subseteq raced' /\ \A p, q \in Procs : p # q => (Active(p) \intersect Active(q))' \subseteq raced'
  <1>1. ASSUME NEW p \in Procs, \A q \in Procs \ {p} : op'[q] = op[q], raced \subseteq raced',
               \A q \in Procs \ {p} : Active(p)' \intersect Active(q) \subseteq raced'
        PROVE  \A q, r \in Procs : q # r => (Active(q) \intersect Active(r))' \subseteq raced'
    <2>1. \A q \in Procs \ {p} : Active(q)' = Active(q)
      BY <1>1 DEF Active
    <2> QED
      BY <1>1, <2>1 DEF AgreeInv
  <1>2. ASSUME NEW p \in Procs, NEW c \in Calls, Begin(p, c)
        PROVE  raced \subseteq raced' /\ \A q \in Procs \ {p} : Active(p)' \intersect Active(q) \subseteq raced'
    <2>1. Active(p)' = NodesOf(c.todo)
      BY <1>2, BeginMoves DEF Active
    <2>2. raced' = raced \union Met(c)
      BY <1>2 DEF Begin
    <2> QED
      BY <2>1, <2>2 DEF Met
  <1>3. ASSUME NEW p \in Procs, Step(p)
        PROVE  raced' = raced /\ Active(p)' \subseteq Active(p)
    <2>1. raced' = raced
      BY <1>3 DEF Step, Draw, Send, TimeOut, Look, Put, Uncache, Unlink, SendBarrier, Return, history
    <2> QED
      BY <1>3, <2>1, ActiveShrinks
  <1>4. CASE \E p \in Procs : Step(p) \/ \E c \in Calls : Begin(p, c)
    <2>1. PICK p \in Procs : Step(p) \/ \E c \in Calls : Begin(p, c)
      BY <1>4
    <2>2. \A q \in Procs \ {p} : op'[q] = op[q]
      BY <2>1, OthersStay
    <2>3. raced \subseteq raced' /\ \A q \in Procs \ {p} : Active(p)' \intersect Active(q) \subseteq raced'
      BY <1>2, <1>3, <2>1 DEF AgreeInv
    <2> QED
      BY <1>1, <2>2, <2>3
  <1>5. CASE Work \/ DropBegins \/ DropJoins
    <2>1. raced' = raced
      BY <1>5 DEF Work, Apply, ApplyFails, AnswerBarrier, Shutdown, DropBegins, DropJoins, history
    <2>2. \A p \in Procs : Active(p)' = Active(p)
      BY <1>5, WorkersKeep
    <2> QED
      BY <2>1, <2>2 DEF AgreeInv
  <1> QED
    BY <1>4, <1>5 DEF Next

LEMMA NextDisputed ==
  ASSUME TypeInv, AgreeInv, Next, NEW p \in Procs, NEW q \in Procs, p # q
  PROVE  (Active(p) \intersect Active(q))' \subseteq disputed'
  <1> SUFFICES ASSUME NEW n, n \in Active(p)', n \in Active(q)' PROVE n \in disputed'
    OBVIOUS
  <1>1. CASE \E r \in Procs : Step(r)
    <2>1. PICK r \in Procs : Step(r)
      BY <1>1
    <2>2. \A t \in Procs : Active(t)' \subseteq Active(t)
      BY <2>1, ActiveShrinks, OthersStay DEF Active
    <2>3. n \in disputed
      BY <2>2 DEF AgreeInv
    <2>4. n \notin disputed' => FALSE
      <3>1. SUFFICES ASSUME n \notin disputed' PROVE FALSE
        OBVIOUS
      <3>2. PICK t \in Procs : \A u \in Procs \ {t} : n \notin Active(u)
        BY <2>3, <3>1, Healed
      <3> QED
        BY <2>2, <3>2
    <2> QED
      BY <2>4
  <1>2. CASE \E r \in Procs, c \in Calls : Begin(r, c)
    <2>1. PICK r \in Procs, c \in Calls : Begin(r, c)
      BY <1>2
    <2>2. disputed' = disputed \union Met(c) /\ Active(r)' = NodesOf(c.todo)
      <3>1. disputed' = disputed \union Met(c)
        BY <2>1 DEF Begin
      <3>2. op'[r].todo = c.todo
        BY <2>1, BeginMoves
      <3> QED
        BY <3>1, <3>2 DEF Active
    <2>3. \A t \in Procs \ {r} : Active(t)' = Active(t)
      BY <2>1, OthersStay DEF Active
    <2>4. CASE p # r /\ q # r
      BY <2>2, <2>3, <2>4 DEF AgreeInv
    <2>5. CASE p = r
      BY <2>2, <2>3, <2>5 DEF Met
    <2>6. CASE q = r
      BY <2>2, <2>3, <2>6 DEF Met
    <2> QED
      BY <2>4, <2>5, <2>6
  <1>3. CASE Work \/ DropBegins \/ DropJoins
    <2>1. disputed' = disputed
      BY <1>3 DEF Work, Apply, ApplyFails, AnswerBarrier, Shutdown, DropBegins, DropJoins, history
    <2>2. \A t \in Procs : Active(t)' = Active(t)
      BY <1>3, WorkersKeep
    <2> QED
      BY <2>1, <2>2 DEF AgreeInv
  <1> QED
    BY <1>1, <1>2, <1>3 DEF Next

\* The draw of a generation: the caller alone has it, also where it ends a dispute.
LEMMA DrawAgree ==
  ASSUME TypeInv, AgreeInv, NEW p \in Procs, Draw(p), NEW n \in Nodes, n \notin disputed'
  PROVE  Agree(n)'
  <1>1. /\ op[p].at = "draw" /\ op'[p].at = "send" /\ op'[p].todo = op[p].todo
        /\ op'[p].kind = op[p].kind /\ op'[p].gen = versions[Now(p).node].gen + 1
        /\ op[p].kind \in {"write", "delete"} /\ cache' = cache /\ Now(p).node \in Active(p)
        /\ \A q \in Procs \ {p} : op'[q] = op[q]
    BY DrawMoves, InHand DEF Draw
  <1>2. CASE n = Now(p).node
    <2>1. \A q \in Procs \ {p} : n \notin Active(q)
      BY <1>1, <1>2 DEF Draw, AgreeInv
    <2>2. \A q \in Procs \ {p} : ~BusyOn(op'[q], n)
      BY <1>1, <2>1, BusyActive
    <2>3. versions'[n].gen = op'[p].gen /\ (versions'[n].tomb <=> op[p].kind = "delete")
      BY <1>1, <1>2, DrawVersion
    <2>4. op[p].kind = "delete" => cache[n] = NoLine
      <3> SUFFICES ASSUME op[p].kind = "delete" PROVE cache[n] = NoLine
        OBVIOUS
      <3>1. n \notin disputed /\ BusyOn(op[p], n)
        BY <1>1, <1>2 DEF Draw, BusyOn, Busy, Now
      <3> QED
        BY <3>1 DEF AgreeInv, Agree, Sole
    <2>5. BusyOn(op'[p], n)
      BY <1>1, <1>2 DEF BusyOn, Busy, Now
    <2> QED
      BY <1>1, <2>2, <2>3, <2>4, <2>5 DEF Agree, Sole
  <1>3. CASE n # Now(p).node
    <2>1. n \notin disputed /\ (n \in dropped => n \in dropped')
      BY <1>3 DEF Draw
    <2>2. versions'[n] = versions[n] /\ ~BusyOn(op[p], n) /\ ~BusyOn(op'[p], n)
      BY <1>1, <1>3, DrawVersion DEF BusyOn, Now
    <2> QED
      BY <1>1, <2>1, <2>2, AgreeKept DEF AgreeInv
  <1> QED
    BY <1>2, <1>3

LEMMA CallerAgree ==
  ASSUME TypeInv, AgreeInv, NEW p \in Procs, Step(p) \/ \E c \in Calls : Begin(p, c),
         NEW n \in Nodes, n \notin disputed, ~Draw(p)
  PROVE  Agree(n)'
  <1>1. Next
    BY DEF Next
  <1>2. n \in dropped => n \in dropped'
    BY BeginFrame DEF Step, Send, TimeOut, Look, Put, Uncache, Unlink, SendBarrier, Return, history
  <1>3. Agree(n)
    BY DEF AgreeInv
  <1>4. \A q \in Procs \ {p} : op'[q] = op[q]
    BY DrawMoves, SendMoves, TimeOutMoves, LookMoves, ItemDoneMoves, UncacheMoves,
       DeleteMoves, BeginMoves DEF Step
  <1>5. ASSUME n \in Active(p) PROVE \A q \in Procs \ {p} : ~BusyOn(op'[q], n)
    <2> SUFFICES ASSUME NEW q \in Procs \ {p}, BusyOn(op[q], n) PROVE FALSE
      BY <1>4
    <2>1. n \in Active(q)
      BY BusyActive
    <2> QED
      BY <1>5, <2>1 DEF AgreeInv
  <1>6. ASSUME op[p].at # "idle" PROVE Now(p).node \in Active(p)
    BY <1>6, InHand
  <1>7. ASSUME versions'[n] = versions[n], cache'[n] = cache[n],
               \/ ~BusyOn(op[p], n) /\ ~BusyOn(op'[p], n)
               \/ /\ BusyOn(op[p], n) /\ BusyOn(op'[p], n) /\ op[p].kind = "write"
                  /\ op'[p].kind = "write" /\ op'[p].gen = op[p].gen /\ op'[p].at # "send"
        PROVE  Agree(n)'
    BY <1>2, <1>3, <1>4, <1>7, AgreeKept
  <1>9. CASE Send(p)
    <2>1. /\ op[p].at = "send" /\ op'[p].todo = op[p].todo /\ op'[p].kind = op[p].kind
          /\ op'[p].at = IF op[p].kind = "write" THEN "look" ELSE "unlink"
          /\ op'[p].gen = op[p].gen /\ op[p].kind \in {"write", "delete"}
          /\ versions' = versions /\ cache' = cache
      BY <1>9, SendMoves, InHand DEF Send
    <2>2. CASE op[p].kind = "write" \/ n # Now(p).node
      BY <1>7, <2>1, <2>2 DEF BusyOn, Busy, Now
    <2>3. CASE op[p].kind = "delete" /\ n = Now(p).node
      <3>1. cache[n] = NoLine /\ versions[n].tomb
        BY <1>3, <2>1, <2>3 DEF Agree, Sole, BusyOn, Busy, Now
      <3>2. \A q \in Procs : ~BusyOn(op'[q], n)
        BY <1>5, <1>6, <2>1, <2>3 DEF BusyOn, Busy
      <3>3. Fits(n)'
        BY <2>1, <3>1 DEF Fits
      <3> QED
        BY <3>2, <3>3 DEF Agree
    <2> QED
      BY <2>1, <2>2, <2>3
  <1>10. CASE TimeOut(p)
    <2>1. /\ versions' = versions /\ cache' = cache /\ op[p].at = "send"
          /\ op[p].gen = versions[Now(p).node].gen => Now(p).node \in dropped'
      BY <1>10 DEF TimeOut
    <2>2. ~BusyOn(op'[p], n)
      BY <1>10, TimeOutMoves, FreshNotBusy
    <2>3. CASE ~BusyOn(op[p], n)
      BY <1>7, <2>1, <2>2, <2>3
    <2>4. CASE BusyOn(op[p], n)
      <3>1. n = Now(p).node /\ Sole(op[p], n)
        BY <1>3, <2>4 DEF Agree, BusyOn, Now
      <3>2. n \in dropped'
        BY <2>1, <3>1 DEF Sole
      <3>3. \A q \in Procs : ~BusyOn(op'[q], n)
        BY <1>5, <1>6, <2>1, <2>2, <3>1
      <3> QED
        BY <3>2, <3>3 DEF Agree
    <2> QED
      BY <2>3, <2>4
  <1>11. CASE Look(p)
    <2>1. versions' = versions /\ cache' = cache
      BY <1>11 DEF Look
    <2> QED
      BY <1>7, <1>11, <2>1, LookMoves DEF BusyOn, Busy
  <1>12. CASE Put(p)
    <2>1. versions' = versions /\ op[p].at = "put" /\ op[p].kind = "write"
      BY <1>12, Parts DEF Put, CallSound
    <2>2. ~BusyOn(op'[p], n)
      BY <1>12, ItemDoneMoves, FreshNotBusy
    <2>3. CASE n = Now(p).node
      <3>1. cache'[n] # NoLine /\ cache'[n].gen = op[p].gen
        BY <1>12, <2>3, PutLine
      <3>2. op[p].gen = versions[n].gen
        BY <1>3, <2>1, <2>3 DEF Agree, Sole, BusyOn, Busy, Now
      <3>3. Fits(n)'
        BY <2>1, <3>1, <3>2 DEF Fits
      <3>4. \A q \in Procs : ~BusyOn(op'[q], n)
        BY <1>5, <1>6, <2>1, <2>2, <2>3
      <3> QED
        BY <3>3, <3>4 DEF Agree
    <2>4. CASE n # Now(p).node
      <3>1. cache'[n] = cache[n] /\ ~BusyOn(op[p], n)
        BY <1>12, <2>4, PutLine DEF BusyOn, Now
      <3> QED
        BY <1>7, <2>1, <2>2, <3>1
    <2> QED
      BY <2>3, <2>4
  <1>13. CASE Uncache(p)
    <2>1. /\ versions' = versions /\ op[p].at = "remove" /\ op[p].kind = "delete"
          /\ ~BusyOn(op[p], n) /\ cache'[n] = IF n = Now(p).node THEN NoLine ELSE cache[n]
      BY <1>13, UncacheMoves, UncacheLine DEF Uncache, BusyOn, Busy
    <2>2. CASE cache[Now(p).node] = NoLine
      <3>1. cache'[n] = cache[n] /\ ~BusyOn(op'[p], n)
        BY <1>13, <2>1, <2>2, UncacheMoves, FreshNotBusy
      <3> QED
        BY <1>7, <2>1, <3>1
    <2>3. CASE cache[Now(p).node] # NoLine
      <3>1. op'[p].at = "draw" /\ op'[p].todo = op[p].todo /\ op'[p].kind = "delete"
        BY <1>13, <2>3, UncacheMoves
      <3>2. CASE n = Now(p).node
        <4>1. BusyOn(op'[p], n) /\ \A q \in Procs \ {p} : ~BusyOn(op'[q], n)
          BY <1>5, <1>6, <2>1, <3>1, <3>2 DEF BusyOn, Busy, Now
        <4> QED
          BY <2>1, <3>1, <3>2, <4>1 DEF Agree, Sole
      <3>3. CASE n # Now(p).node
        BY <1>7, <2>1, <3>1, <3>3 DEF BusyOn, Now
      <3> QED
        BY <3>2, <3>3
    <2> QED
      BY <2>2, <2>3
  <1>14. CASE Unlink(p) \/ SendBarrier(p)
    <2>1. versions' = versions /\ cache' = cache
      BY <1>14 DEF Unlink, SendBarrier
    <2>2. ~BusyOn(op[p], n) /\ ~BusyOn(op'[p], n)
      BY <1>14, DeleteMoves DEF BusyOn, Busy
    <2> QED
      BY <1>7, <2>1, <2>2
  <1>15. CASE Return(p) \/ \E c \in Calls : Begin(p, c)
    <2>1. versions' = versions /\ cache' = cache
      BY <1>15, BeginFrame DEF Return
    <2>2. ~BusyOn(op[p], n)
      BY <1>15, BeginFrame DEF Return, BusyOn, Busy
    <2>3. ~BusyOn(op'[p], n)
      BY <1>15, ItemDoneMoves, BeginMoves, FreshNotBusy
    <2> QED
      BY <1>7, <2>1, <2>2, <2>3
  <1> QED
    BY <1>9, <1>10, <1>11, <1>12, <1>13, <1>14, <1>15 DEF Step

LEMMA WorkAgree ==
  ASSUME TypeInv, AgreeInv, Work \/ DropBegins \/ DropJoins,
         NEW n \in Nodes, n \notin disputed
  PROVE  Agree(n)'
  <1>1. versions' = versions /\ cache' = cache /\ dropped \subseteq dropped'
    BY DEF Work, Apply, ApplyFails, AnswerBarrier, Shutdown, DropBegins, DropJoins, history
  <1>2. Agree(n)
    BY DEF AgreeInv
  <1>3. CASE AnswerBarrier
    <2>1. PICK p \in Procs : /\ op[p].at = "await" /\ \A q \in Procs \ {p} : op'[q] = op[q]
                             /\ op'[p].at = "returned"
      BY <1>3, AnswerMoves
    <2>2. ~BusyOn(op[p], n) /\ ~BusyOn(op'[p], n)
      BY <2>1 DEF BusyOn, Busy
    <2> QED
      BY <1>1, <1>2, <2>1, <2>2, AgreeKept
  <1>4. CASE ~AnswerBarrier
    <2>1. op' = op
      BY <1>4 DEF Work, Apply, ApplyFails, Shutdown, DropBegins, DropJoins
    <2> QED
      BY <1>1, <1>2, <2>1 DEF Agree, Sole, Fits
  <1> QED
    BY <1>3, <1>4

LEMMA NextAgree == TypeInv /\ AgreeInv /\ [Next]_vars => AgreeInv'
  <1> SUFFICES ASSUME TypeInv, AgreeInv, [Next]_vars PROVE AgreeInv'
    OBVIOUS
  <1>1. CASE Next
    <2>1. ASSUME NEW n \in Nodes \ disputed' PROVE Agree(n)'
      <3>1. CASE \E p \in Procs : Draw(p)
        BY <3>1, DrawAgree
      <3>2. CASE ~\E p \in Procs : Draw(p)
        <4>1. n \notin disputed
          BY <1>1, <2>1, <3>2, Healed
        <4> QED
          BY <1>1, <3>2, <4>1, CallerAgree, WorkAgree DEF Next
      <3> QED
        BY <3>1, <3>2
    <2> QED
      BY <1>1, <2>1, NextRaced, NextDisputed DEF AgreeInv
  <1>2. CASE UNCHANGED vars
    BY <1>2 DEF vars, history, AgreeInv, Agree, Sole, Fits, Active
  <1> QED
    BY <1>1, <1>2

\* Once the commands of a node are worked off the mirror shows its newest state, and
\* that is the cached one, document and graph, unless calls met on the node since a
\* write that met none or the newest update was dropped.  Graphs the node was moved
\* away from keep what was written there.
THEOREM MirrorFollowsCache == Spec => []MirrorFollows
<1>1. Init => TypeInv /\ HomeInv /\ HeldInv /\ NewestInv /\ AgreeInv
  BY InitTypeInv, InitHome, InitNewest, InitHeld, InitAgree
<1>2. TypeInv /\ HomeInv /\ HeldInv /\ NewestInv /\ AgreeInv /\ [Next]_vars
        => (TypeInv /\ HomeInv /\ HeldInv /\ NewestInv /\ AgreeInv)'
  BY NextTyped, NextHome, NextNewest, NextHeld, NextAgree
<1>3. TypeInv /\ HomeInv /\ HeldInv /\ NewestInv /\ AgreeInv => MirrorFollows
  BY NewestShown, SyncedAgree DEF MirrorFollows
<1> QED
  BY <1>1, <1>2, <1>3, PTL DEF Spec

-----------------------------------------------------------------------------
(***************************************************************************)
(* Deletes.  On a node that is not disputed, the line stays out and the    *)
(* newest generation stays the tombstone's while delete_node runs; until   *)
(* its barrier is answered the tombstone is in front of the barrier, or    *)
(* applied, or its failure is waiting for a barrier or went to another.    *)
(***************************************************************************)
Deleting(o) == o.kind = "delete" /\ o.at \in {"draw", "send", "unlink", "barrier", "await", "returned"}

Ahead(p, n, g) ==
  \E i \in DOMAIN queue :
    /\ queue[i].type = "delete" /\ queue[i].node = n /\ queue[i].graph = g /\ Current(queue[i])
    /\ \A j \in DOMAIN queue : queue[j].type = "barrier" /\ queue[j].by = p => i < j
Reported(n, g) == mirror[n][g] = 0 \/ n \in errors \union misreported

Deletion(p, o, n) ==
  /\ cache[n] = NoLine
  /\ o.at # "draw" => versions[n].tomb /\ target[n] = o.old.graph
  /\ o.at = "send" => o.gen = versions[n].gen
  /\ o.at \in {"unlink", "barrier", "await"} => Ahead(p, n, o.old.graph) \/ Reported(n, o.old.graph)
  /\ o.at = "returned" /\ o.ok => mirror[n][o.old.graph] = 0 \/ n \in misreported

DeleteInv == \A p \in Procs : \A n \in Nodes \ disputed :
  Deleting(op[p]) /\ n = Head(op[p].todo).node => Deletion(p, op[p], n)

LEMMA DeleteShown == TypeInv /\ HomeInv /\ DeleteInv => DeleteCompletes
  <1> SUFFICES ASSUME TypeInv, HomeInv, DeleteInv, NEW p \in Procs, op[p].at = "returned", op[p].ok,
                      NEW n \in Nodes, n = Now(p).node, n \notin disputed \union misreported
               PROVE  cache[n] = NoLine /\ Exposed(n) \subseteq LeftBehind(n)
    BY InHand DEF DeleteCompletes
  <1>1. op[p].kind = "delete" /\ op[p] \in Op
    BY Parts DEF CallSound
  <1>2. Deletion(p, op[p], n)
    BY <1>1 DEF DeleteInv, Deleting, Now
  <1>3. cache[n] = NoLine /\ target[n] = op[p].old.graph /\ mirror[n][op[p].old.graph] = 0
    BY <1>2 DEF Deletion
  <1> QED
    BY <1>3 DEF HomeInv, Exposed, LeftBehind

LEMMA InitDelete == Init => DeleteInv
  BY IdleSound DEF Init, DeleteInv, Deleting

\* The tombstone stays in front of the barrier while commands join and leave.
LEMMA AheadGrows ==
  ASSUME TypeInv, NEW p, NEW n, NEW g, Ahead(p, n, g), versions'[n] = versions[n],
         NEW c \in Commands, queue' = Append(queue, c)
  PROVE  Ahead(p, n, g)'
  <1>1. PICK i \in DOMAIN queue :
          /\ queue[i].type = "delete" /\ queue[i].node = n /\ queue[i].graph = g /\ Current(queue[i])
          /\ \A j \in DOMAIN queue : queue[j].type = "barrier" /\ queue[j].by = p => i < j
    BY DEF Ahead
  <1>2. PICK d : d = queue[i]
    OBVIOUS
  <1>3. Current(d)'
    BY <1>1, <1>2 DEF Current
  <1>4. /\ DOMAIN queue' = DOMAIN queue \union {Len(queue) + 1}
        /\ \A j \in DOMAIN queue : queue'[j] = queue[j]
    BY Parts, QueueGrows
  <1>5. i < Len(queue) + 1
    BY Parts
  <1>6. queue'[i] = d /\ i \in DOMAIN queue'
    BY <1>2, <1>4
  <1>7. \A j \in DOMAIN queue' : queue'[j].type = "barrier" /\ queue'[j].by = p => i < j
    BY <1>1, <1>4, <1>5
  <1> QED
    BY <1>1, <1>2, <1>3, <1>6, <1>7 DEF Ahead

LEMMA AheadMovesUp ==
  ASSUME TypeInv, NEW p, NEW n, NEW g, Ahead(p, n, g), versions'[n] = versions[n],
         queue # <<>>, queue' = Tail(queue),
         ~(Head(queue).type = "delete" /\ Head(queue).node = n /\ Head(queue).graph = g
            /\ Current(Head(queue)))
  PROVE  Ahead(p, n, g)'
  <1>1. PICK i \in DOMAIN queue :
          /\ queue[i].type = "delete" /\ queue[i].node = n /\ queue[i].graph = g /\ Current(queue[i])
          /\ \A j \in DOMAIN queue : queue[j].type = "barrier" /\ queue[j].by = p => i < j
    BY DEF Ahead
  <1>2. PICK d : d = queue[i]
    OBVIOUS
  <1>3. Current(d)'
    BY <1>1, <1>2 DEF Current
  <1>4. /\ Head(queue) = queue[1]
        /\ \A j \in DOMAIN queue' : j \in Nat /\ j + 1 \in DOMAIN queue /\ queue'[j] = queue[j + 1]
        /\ \A j \in DOMAIN queue : j \in Nat /\ (j # 1 => j - 1 \in DOMAIN queue' /\ queue'[j - 1] = queue[j])
    BY Parts, QueueShrinks
  <1>5. i # 1
    BY <1>1, <1>4
  <1>6. PICK k \in DOMAIN queue' : k = i - 1 /\ queue'[k] = d
    BY <1>2, <1>4, <1>5
  <1>7. ASSUME NEW j \in DOMAIN queue', queue'[j].type = "barrier", queue'[j].by = p PROVE k < j
    <2>1. i < j + 1 /\ i \in Nat /\ j \in Nat
      BY <1>1, <1>4, <1>7
    <2> QED
      BY <1>6, <2>1
  <1> QED
    BY <1>1, <1>2, <1>3, <1>6, <1>7 DEF Ahead

\* A delete some other caller's step leaves alone.
LEMMA OthersKeepDelete ==
  ASSUME TypeInv, NEW p \in Procs, NEW n \in Nodes, Deletion(p, op[p], n), op'[p] = op[p],
         versions'[n] = versions[n], target'[n] = target[n], cache'[n] = cache[n],
         mirror' = mirror, errors' = errors, misreported' = misreported,
         queue' = queue \/ \E c \in Commands : queue' = Append(queue, c)
  PROVE  Deletion(p, op[p], n)'
  <1>1. PICK g : g = op[p].old.graph
    OBVIOUS
  <1>2. Ahead(p, n, g) => Ahead(p, n, g)'
    <2>1. CASE queue' = queue
      BY <2>1 DEF Ahead, Current
    <2>2. CASE \E c \in Commands : queue' = Append(queue, c)
      BY <2>2, AheadGrows
    <2> QED
      BY <2>1, <2>2
  <1>3. Reported(n, g) => Reported(n, g)'
    BY DEF Reported
  <1>4. /\ op[p].at \in {"unlink", "barrier", "await"} => (Ahead(p, n, g) \/ Reported(n, g))'
        /\ op[p].at = "returned" /\ op[p].ok => mirror'[n][g] = 0 \/ n \in misreported'
    BY <1>1, <1>2, <1>3 DEF Deletion
  <1> QED
    BY <1>1, <1>4 DEF Deletion

LEMMA CallerDelete ==
  ASSUME TypeInv, AgreeInv, DeleteInv, NEW q \in Procs, Step(q) \/ \E c \in Calls : Begin(q, c),
         NEW p \in Procs, NEW n \in Nodes, n \notin disputed', Deleting(op'[p]),
         n = Head(op'[p].todo).node
  PROVE  Deletion(p, op[p], n)'
  <1>1. \A r \in Procs \ {q} : op'[r] = op[r]
    BY DrawMoves, SendMoves, TimeOutMoves, LookMoves, ItemDoneMoves, UncacheMoves,
       DeleteMoves, BeginMoves DEF Step
  <1>2. Next
    BY DEF Next
  <1>3. n \notin disputed
    <2> SUFFICES ASSUME n \in disputed PROVE FALSE
      OBVIOUS
    <2>1. PICK r \in Procs : /\ Draw(r) /\ op[r].kind = "write" /\ n = Now(r).node
                            /\ \A t \in Procs \ {r} : n \notin Active(t)
      BY <1>2, Healed
    <2>2. op'[r].kind = "write" /\ \A t \in Procs \ {r} : op'[t] = op[t]
      BY <2>1, DrawMoves
    <2>3. p # r /\ op'[p] = op[p]
      BY <2>2 DEF Deleting
    <2>4. n \in Active(p)
      BY <2>3, InHand DEF Deleting, Now
    <2> QED
      BY <2>1, <2>3, <2>4
  <1>4. /\ mirror' = mirror /\ errors' = errors /\ misreported' = misreported
        /\ queue' = queue \/ \E c \in Commands : queue' = Append(queue, c)
    <2>1. CASE Send(q)
      <3>1. Command(q) \in Commands
        BY <2>1, CommandTyped DEF Send
      <3> QED
        BY <2>1, <3>1 DEF Send
    <2>2. CASE SendBarrier(q)
      <3>1. [type |-> "barrier", by |-> q] \in Commands
        BY DEF Commands
      <3> QED
        BY <2>2, <3>1 DEF SendBarrier, history
    <2>3. CASE ~Send(q) /\ ~SendBarrier(q)
      BY <2>3, BeginFrame DEF Step, Draw, TimeOut, Look, Put, Uncache, Unlink, Return, outbox, history
    <2> QED
      BY <2>1, <2>2, <2>3
  <1>5. CASE p # q
    <2>1. op'[p] = op[p] /\ Deletion(p, op[p], n)
      BY <1>1, <1>3, <1>5 DEF DeleteInv
    <2>2. n \in Active(p)
      <3>1. op[p].at # "idle"
        BY <2>1 DEF Deleting
      <3> QED
        BY <2>1, <3>1, InHand DEF Now
    <2>3. n \notin Active(q)
      BY <1>3, <1>5, <2>2 DEF AgreeInv
    <2>4. op[q].at # "idle" => n # Now(q).node
      BY <2>3, InHand
    <2>5. versions'[n] = versions[n] /\ target'[n] = target[n]
      <3>1. CASE Draw(q)
        <4>1. op[q].at = "draw"
          BY <3>1 DEF Draw
        <4> QED
          BY <2>4, <3>1, <4>1, DrawVersion
      <3>2. CASE ~Draw(q)
        BY <3>2, BeginFrame
           DEF Step, Send, TimeOut, Look, Put, Uncache, Unlink, SendBarrier, Return, history
      <3> QED
        BY <3>1, <3>2
    <2>6. cache'[n] = cache[n]
      <3>1. CASE Put(q) \/ Uncache(q)
        <4>1. op[q].at # "idle"
          BY <3>1 DEF Put, Uncache
        <4> QED
          BY <2>4, <3>1, <4>1, PutLine, UncacheLine
      <3>2. CASE ~Put(q) /\ ~Uncache(q)
        BY <3>2, BeginFrame DEF Step, Draw, Send, TimeOut, Look, Unlink, SendBarrier, Return
      <3> QED
        BY <3>1, <3>2
    <2> QED
      BY <1>4, <2>1, <2>5, <2>6, OthersKeepDelete
  <1>6. CASE p = q /\ Uncache(p)
    <2>1. /\ op'[p].at = "draw" /\ op'[p].todo = op[p].todo
      BY <1>6, UncacheMoves DEF Fresh, Deleting
    <2>2. cache'[n] = NoLine
      BY <1>6, <2>1, UncacheLine DEF Now
    <2> QED
      BY <2>1, <2>2 DEF Deletion
  <1>7. CASE p = q /\ Draw(p)
    <2>1. /\ op[p].at = "draw" /\ op'[p].at = "send" /\ op'[p].todo = op[p].todo
          /\ op'[p].kind = op[p].kind /\ op'[p].gen = versions[Now(p).node].gen + 1 /\ cache' = cache
          /\ op'[p].old = op[p].old
      BY <1>7, DrawMoves DEF Draw
    <2>2. n = Now(p).node /\ op[p].kind = "delete" /\ Deleting(op[p])
      BY <2>1 DEF Deleting, Now
    <2>3. cache[n] = NoLine
      BY <1>3, <2>2 DEF DeleteInv, Deletion, Now
    <2>4. versions'[n].gen = op'[p].gen /\ versions'[n].tomb /\ target'[n] = op'[p].old.graph
      BY <1>7, <2>1, <2>2, DrawVersion DEF GraphOf
    <2> QED
      BY <2>1, <2>3, <2>4 DEF Deletion
  <1>8. CASE p = q /\ Send(p)
    <2>1. /\ op[p].at = "send" /\ op'[p].todo = op[p].todo /\ op'[p].kind = op[p].kind
          /\ op'[p].at = IF op[p].kind = "write" THEN "look" ELSE "unlink"
          /\ op'[p].old = op[p].old /\ versions' = versions /\ cache' = cache /\ target' = target
      BY <1>8, SendMoves DEF Send
    <2>2. n = Now(p).node /\ op[p].kind = "delete" /\ Deleting(op[p]) /\ op'[p].at = "unlink"
      BY <2>1 DEF Deleting, Now
    <2>3. /\ cache[n] = NoLine /\ versions[n].tomb /\ op[p].gen = versions[n].gen
          /\ target[n] = op[p].old.graph
      BY <1>3, <2>1, <2>2 DEF DeleteInv, Deletion, Now
    <2>4. PICK c \in Commands : c = Command(p)
      BY <2>1, CommandTyped
    <2>5. c.type = "delete" /\ c.node = n /\ c.graph = op[p].old.graph /\ c.gen = versions[n].gen
      BY <2>1, <2>2, <2>3, <2>4, CommandTyped
    <2>6. Current(c)
      <3>1. PICK v \in [gen : Nat, tomb : BOOLEAN] : v = versions[n]
        BY Parts
      <3>2. v = [gen |-> c.gen, tomb |-> TRUE]
        BY <2>3, <2>5, <3>1
      <3>3. (c.type = "delete") = TRUE
        BY <2>5
      <3> QED
        BY <2>5, <3>1, <3>2, <3>3 DEF Current
    <2>7. Current(c)'
      BY <2>1, <2>6 DEF Current
    <2>8. /\ DOMAIN queue' = DOMAIN queue \union {Len(queue) + 1}
          /\ \A j \in DOMAIN queue : queue'[j] = queue[j]
          /\ queue'[Len(queue) + 1] = c
      BY <1>8, <2>4, Parts, QueueGrows DEF Send
    <2>9. \A j \in DOMAIN queue' : ~(queue'[j].type = "barrier" /\ queue'[j].by = p)
      BY <2>1, <2>5, <2>8, Parts DEF BarrierInv
    <2>10. PICK g : g = op[p].old.graph
      OBVIOUS
    <2>11. Ahead(p, n, g)'
      BY <2>5, <2>7, <2>8, <2>9, <2>10 DEF Ahead
    <2> QED
      BY <2>1, <2>2, <2>3, <2>10, <2>11 DEF Deletion
  <1>9. CASE p = q /\ (Unlink(p) \/ SendBarrier(p))
    <2>1. /\ op[p].at \in {"unlink", "barrier"} /\ op'[p].at \in {"barrier", "await"}
          /\ op'[p].todo = op[p].todo /\ op'[p].kind = op[p].kind /\ op'[p].old = op[p].old
          /\ versions' = versions /\ cache' = cache /\ target' = target
      BY <1>9, DeleteMoves DEF Unlink, SendBarrier, history
    <2>2. Deletion(p, op[p], n)
      BY <1>3, <2>1 DEF DeleteInv, Deleting
    <2>3. PICK g : g = op[p].old.graph
      OBVIOUS
    <2>4. Ahead(p, n, g) => Ahead(p, n, g)'
      <3>1. CASE queue' = queue
        BY <2>1, <3>1 DEF Ahead, Current
      <3>2. CASE \E c \in Commands : queue' = Append(queue, c)
        BY <2>1, <3>2, AheadGrows
      <3> QED
        BY <1>4, <3>1, <3>2
    <2>5. Reported(n, g) => Reported(n, g)'
      BY <1>4 DEF Reported
    <2>6. (Ahead(p, n, g) \/ Reported(n, g))' /\ op'[p].old.graph = g
      BY <2>1, <2>2, <2>3, <2>4, <2>5 DEF Deletion
    <2> QED
      BY <2>1, <2>2, <2>6 DEF Deletion
  <1>10. CASE /\ p = q
              /\ TimeOut(p) \/ Look(p) \/ Put(p) \/ Return(p) \/ \E c \in Calls : Begin(p, c)
    <2>1. ~Deleting(op'[p])
      BY <1>10, TimeOutMoves, LookMoves, ItemDoneMoves, BeginMoves DEF Fresh, Deleting
    <2> QED
      BY <2>1
  <1> QED
    BY <1>5, <1>6, <1>7, <1>8, <1>9, <1>10 DEF Step

LEMMA WorkDelete ==
  ASSUME TypeInv, AgreeInv, DeleteInv, Work \/ DropBegins \/ DropJoins,
         NEW p \in Procs, NEW n \in Nodes, n \notin disputed', Deleting(op'[p]),
         n = Head(op'[p].todo).node
  PROVE  Deletion(p, op[p], n)'
  <1>1. /\ versions' = versions /\ cache' = cache /\ disputed' = disputed /\ target' = target
        /\ misreported \subseteq misreported'
    BY DEF Work, Apply, ApplyFails, AnswerBarrier, Shutdown, DropBegins, DropJoins, history
  <1>2. CASE Apply \/ ApplyFails
    <2>1. op' = op /\ queue # <<>> /\ queue' = Tail(queue) /\ misreported' = misreported
      BY <1>2 DEF Apply, ApplyFails
    <2>2. Deletion(p, op[p], n)
      BY <1>1, <2>1 DEF DeleteInv
    <2>3. PICK g : g = op[p].old.graph
      OBVIOUS
    <2>4. PICK c \in Commands : c = Head(queue)
      BY <2>1, Parts, QueueShrinks
    <2>5. c.type \in {"write", "delete"}
      BY <1>2, <2>4 DEF Apply, ApplyFails
    <2>6. c.node \in Nodes /\ c.graph \in Graphs
      BY <2>5, UpdateTyped
    <2>7. errors \subseteq errors' /\ (mirror' = mirror \/ (Current(c) /\ mirror' = Applied(c)))
      BY <1>2, <2>4 DEF Apply, ApplyFails
    <2>8. op[p].at # "draw" /\ Current(c) /\ c.node = n => c.type = "delete"
      <3>1. Current(c) => versions[c.node].tomb = (c.type = "delete")
        BY DEF Current
      <3>2. op[p].at # "draw" => versions[n].tomb
        BY <2>2 DEF Deletion
      <3>3. ASSUME op[p].at # "draw", Current(c), c.node = n PROVE c.type = "delete"
        BY <3>1, <3>2, <3>3
      <3> QED
        BY <3>3
    <2>9. ASSUME op[p].at # "draw", mirror[n][g] = 0 PROVE mirror'[n][g] = 0
      <3>1. CASE mirror' = mirror
        BY <2>9, <3>1
      <3>2. CASE Current(c) /\ mirror' = Applied(c)
        <4>1. CASE c.node # n
          BY <2>6, <2>9, <3>2, <4>1, Parts DEF Applied
        <4>2. CASE c.node = n
          <5>1. c.type = "delete"
            BY <2>8, <2>9, <3>2, <4>2
          <5>2. PICK row \in [Graphs -> Nat] : row = mirror[n]
            BY Parts
          <5>3. mirror' = [mirror EXCEPT ![n] = [row EXCEPT ![c.graph] = 0]]
            BY <3>2, <4>2, <5>1, <5>2 DEF Applied
          <5>4. mirror'[n] = [row EXCEPT ![c.graph] = 0]
            BY <5>3, Parts
          <5>5. g \in Graphs
            BY <2>1, <2>3, <2>9, Parts DEF Deleting, CallSound, FullLine
          <5> QED
            BY <2>9, <5>2, <5>4, <5>5
        <4> QED
          BY <4>1, <4>2
      <3> QED
        BY <2>7, <3>1, <3>2
    <2>10. ASSUME op[p].at # "draw", Ahead(p, n, g) PROVE (Ahead(p, n, g) \/ Reported(n, g))'
      <3>1. CASE c.type = "delete" /\ c.node = n /\ c.graph = g /\ Current(c)
        <4>1. CASE Apply
          <5>1. mirror' = Applied(c)
            BY <2>4, <3>1, <4>1 DEF Apply
          <5>2. PICK row \in [Graphs -> Nat] : row = mirror[n]
            BY Parts
          <5>3. mirror' = [mirror EXCEPT ![n] = [row EXCEPT ![g] = 0]]
            BY <3>1, <5>1, <5>2 DEF Applied
          <5>4. mirror'[n][g] = 0
            BY <2>6, <3>1, <5>2, <5>3, Parts
          <5> QED
            BY <5>4 DEF Reported
        <4>2. CASE ApplyFails
          <5>1. n \in errors'
            BY <2>4, <3>1, <4>2 DEF ApplyFails
          <5> QED
            BY <5>1 DEF Reported
        <4> QED
          BY <1>2, <4>1, <4>2
      <3>2. CASE ~(c.type = "delete" /\ c.node = n /\ c.graph = g /\ Current(c))
        BY <1>1, <2>1, <2>4, <2>10, <3>2, AheadMovesUp
      <3> QED
        BY <3>1, <3>2
    <2>11. ASSUME op[p].at # "draw", Reported(n, g) PROVE Reported(n, g)'
      BY <2>1, <2>7, <2>9, <2>11 DEF Reported
    <2> QED
      BY <1>1, <2>1, <2>2, <2>3, <2>9, <2>10, <2>11 DEF Deletion
  <1>3. CASE AnswerBarrier
    <2>1. PICK r \in Procs :
            /\ r = Head(queue).by /\ op[r].at = "await" /\ \A q \in Procs \ {r} : op'[q] = op[q]
            /\ op'[r].at = "returned" /\ op'[r].todo = op[r].todo
            /\ op'[r].kind = op[r].kind /\ op'[r].old = op[r].old /\ op'[r].ok = (errors = {})
      BY <1>3, AnswerMoves
    <2>2. /\ queue # <<>> /\ queue' = Tail(queue) /\ mirror' = mirror
          /\ Head(queue).type = "barrier"
          /\ misreported' = misreported \union (errors \ {Now(r).node})
      BY <1>3, <2>1 DEF AnswerBarrier
    <2>3. CASE p = r
      <3>1. Deletion(p, op[p], n) /\ Now(p).node = n
        BY <1>1, <2>1, <2>3 DEF DeleteInv, Deleting, Now
      <3>2. PICK g : g = op[p].old.graph
        OBVIOUS
      <3>3. ~Ahead(p, n, g)
        <4>1. 1 \in DOMAIN queue /\ Head(queue) = queue[1] /\ \A i \in DOMAIN queue : i \in Nat /\ i # 0
          BY <2>2, Parts
        <4> QED
          BY <2>1, <2>2, <2>3, <4>1 DEF Ahead
      <3>4. Reported(n, g)
        BY <2>1, <2>3, <3>1, <3>2, <3>3 DEF Deletion
      <3>5. op'[p].ok => mirror'[n][g] = 0 \/ n \in misreported'
        BY <1>1, <2>1, <2>2, <2>3, <3>4 DEF Reported
      <3> QED
        BY <1>1, <2>1, <2>3, <3>1, <3>2, <3>5 DEF Deletion
    <2>4. CASE p # r
      <3>1. op'[p] = op[p] /\ Deletion(p, op[p], n)
        BY <1>1, <2>1, <2>4 DEF DeleteInv
      <3>2. n # Now(r).node
        <4>1. n \in Active(p)
          BY <3>1, InHand DEF Deleting, Now
        <4>2. Now(r).node \in Active(r)
          BY <2>1, InHand
        <4> QED
          BY <1>1, <2>4, <4>1, <4>2 DEF AgreeInv
      <3>3. PICK g : g = op[p].old.graph
        OBVIOUS
      <3>4. Ahead(p, n, g) => Ahead(p, n, g)'
        BY <1>1, <2>2, AheadMovesUp
      <3>5. Reported(n, g) => Reported(n, g)'
        BY <2>2, <3>2 DEF Reported
      <3>6. n \in misreported => n \in misreported'
        BY <1>1
      <3> QED
        BY <1>1, <2>2, <3>1, <3>3, <3>4, <3>5, <3>6 DEF Deletion
    <2> QED
      BY <2>3, <2>4
  <1>4. CASE Shutdown
    <2>1. /\ op' = op /\ mirror' = mirror /\ errors' = errors /\ misreported' = misreported
          /\ queue # <<>> /\ queue' = Tail(queue) /\ Head(queue).type # "delete"
      BY <1>4 DEF Shutdown, history
    <2>2. Deletion(p, op[p], n)
      BY <1>1, <2>1 DEF DeleteInv
    <2>3. PICK g : g = op[p].old.graph
      OBVIOUS
    <2>4. Ahead(p, n, g) => Ahead(p, n, g)'
      BY <1>1, <2>1, AheadMovesUp
    <2>5. Reported(n, g) => Reported(n, g)'
      BY <2>1 DEF Reported
    <2> QED
      BY <1>1, <2>1, <2>2, <2>3, <2>4, <2>5 DEF Deletion
  <1>5. CASE DropBegins \/ DropJoins
    <2>1. /\ op' = op /\ mirror' = mirror /\ errors' = errors /\ misreported' = misreported
          /\ queue' = queue \/ queue' = Append(queue, [type |-> "shutdown"])
      BY <1>5 DEF DropBegins, DropJoins, outbox, history
    <2>2. [type |-> "shutdown"] \in Commands
      BY DEF Commands
    <2>3. queue' = queue \/ \E c \in Commands : queue' = Append(queue, c)
      BY <2>1, <2>2
    <2>4. Deletion(p, op[p], n)
      BY <1>1, <2>1 DEF DeleteInv
    <2> QED
      BY <1>1, <2>1, <2>3, <2>4, OthersKeepDelete
  <1> QED
    BY <1>2, <1>3, <1>4, <1>5 DEF Work

LEMMA NextDelete == TypeInv /\ AgreeInv /\ DeleteInv /\ [Next]_vars => DeleteInv'
  <1> SUFFICES ASSUME TypeInv, AgreeInv, DeleteInv, [Next]_vars PROVE DeleteInv'
    OBVIOUS
  <1>1. CASE Next
    BY <1>1, CallerDelete, WorkDelete DEF Next, DeleteInv
  <1>2. CASE UNCHANGED vars
    BY <1>2 DEF vars, outbox, history, DeleteInv, Deletion, Ahead, Reported, Current
  <1> QED
    BY <1>1, <1>2

\* When delete_node reports success the node is gone from the cache and from the graph
\* it was last written to, unless calls met on it since a write that met none, or another
\* caller's barrier took its error; graphs it was moved away from keep what was written
\* there.
THEOREM DeletesComplete == Spec => []DeleteCompletes
<1>1. Init => TypeInv /\ HomeInv /\ AgreeInv /\ DeleteInv
  BY InitTypeInv, InitHome, InitAgree, InitDelete
<1>2. TypeInv /\ HomeInv /\ AgreeInv /\ DeleteInv /\ [Next]_vars
        => (TypeInv /\ HomeInv /\ AgreeInv /\ DeleteInv)'
  BY NextTyped, NextHome, NextAgree, NextDelete
<1> QED
  BY <1>1, <1>2, DeleteShown, PTL DEF Spec

-----------------------------------------------------------------------------
(***************************************************************************)
(* Index.  On a node no two calls meet and no delete gave up on, the       *)
(* indices list the key of the cached line, except that a write lists      *)
(* nothing between unlinking the old line and putting the new one in, and  *)
(* a delete still lists the line it took out until it unlinks it.          *)
(***************************************************************************)
KeysOf(line) == IF line = NoLine THEN {} ELSE {line.key}
Listed(n) == {k \in Keys : n \in index[k]}

Off(o, n) == o.at = "put" /\ Head(o.todo).node = n
Out(o, n) == o.kind = "delete" /\ o.at \in {"draw", "send", "unlink"} /\ Head(o.todo).node = n

Books(n) ==
  /\ \A p \in Procs : Off(op[p], n) => op[p].old = cache[n] /\ Listed(n) = {}
  /\ \A p \in Procs : Out(op[p], n) => cache[n] = NoLine /\ Listed(n) = KeysOf(op[p].old)
  /\ (\A p \in Procs : ~Off(op[p], n) /\ ~Out(op[p], n)) => Listed(n) = KeysOf(cache[n])

BooksInv == \A n \in Nodes \ (raced \union leaked) : Books(n)

LEMMA FreshHandled == ASSUME NEW o, Fresh(o), NEW n PROVE ~Off(o, n) /\ ~Out(o, n)
  BY DEF Fresh, Off, Out

LEMMA OnActive ==
  ASSUME TypeInv, NEW p \in Procs, NEW n, Off(op[p], n) \/ Out(op[p], n)
  PROVE  n \in Active(p) /\ n = Now(p).node
  BY InHand DEF Off, Out, Now

LEMMA BooksIndex == TypeInv /\ BooksInv => IndexExact
  <1> SUFFICES ASSUME TypeInv, BooksInv, NEW n \in Nodes, Untouched(n), n \notin raced \union leaked
               PROVE  Listed(n) = KeysOf(cache[n])
    BY DEF IndexExact, Listed, KeysOf
  <1>1. \A p \in Procs : ~Off(op[p], n) /\ ~Out(op[p], n)
    BY OnActive DEF Untouched
  <1> QED
    BY <1>1 DEF BooksInv, Books

LEMMA InitBooks == Init => BooksInv
  <1> SUFFICES ASSUME Init, NEW n \in Nodes PROVE Books(n)
    BY DEF BooksInv
  <1>1. \A p \in Procs : op[p] = Idle
    BY DEF Init
  <1>2. ~Off(Idle, n) /\ ~Out(Idle, n)
    BY IdleSound DEF Off, Out
  <1>3. cache[n] = NoLine /\ Listed(n) = {}
    BY DEF Init, Listed
  <1> QED
    BY <1>1, <1>2, <1>3 DEF Books, KeysOf

\* A step of one call that touches neither the node's line nor its memberships, and
\* neither begins nor ends work on it.
LEMMA BooksKept ==
  ASSUME NEW n \in Nodes, Books(n), Listed(n)' = Listed(n), cache'[n] = cache[n],
         NEW p \in Procs, \A q \in Procs \ {p} : op'[q] = op[q],
         \/ ~Off(op[p], n) /\ ~Out(op[p], n) /\ ~Off(op'[p], n) /\ ~Out(op'[p], n)
         \/ /\ Out(op[p], n) /\ Out(op'[p], n) /\ op'[p].old = op[p].old
            /\ ~Off(op[p], n) /\ ~Off(op'[p], n)
  PROVE  Books(n)'
  <1>1. \A q \in Procs : /\ Off(op'[q], n) <=> Off(op[q], n)
                         /\ Out(op'[q], n) <=> Out(op[q], n)
    OBVIOUS
  <1>2. \A q \in Procs : Off(op[q], n) \/ Out(op[q], n) => op'[q].old = op[q].old
    OBVIOUS
  <1>3. PICK listed, line : listed = Listed(n) /\ line = cache[n]
    OBVIOUS
  <1>4. /\ \A q \in Procs : Off(op'[q], n) => op'[q].old = line /\ listed = {}
        /\ \A q \in Procs : Out(op'[q], n) => line = NoLine /\ listed = KeysOf(op'[q].old)
        /\ (\A q \in Procs : ~Off(op'[q], n) /\ ~Out(op'[q], n)) => listed = KeysOf(line)
    BY <1>1, <1>2, <1>3 DEF Books
  <1>5. Listed(n)' = listed /\ cache'[n] = line
    BY <1>3
  <1> QED
    BY <1>4, <1>5 DEF Books

\* What unlinking a line and listing a key do to the memberships.
LEMMA UnlistedListed ==
  ASSUME TypeInv, NEW m \in Nodes, NEW line \in Line, index' = Unlisted(m, line), NEW n \in Nodes
  PROVE  Listed(n)' = IF n = m THEN Listed(n) \ KeysOf(line) ELSE Listed(n)
  <1>1. CASE line = NoLine
    BY <1>1 DEF Unlisted, Listed, KeysOf
  <1>2. CASE line # NoLine
    <2>1. index' = [index EXCEPT ![line.key] = index[line.key] \ {m}] /\ line.key \in Keys
      BY <1>2 DEF Unlisted, Line
    <2>2. \A k \in Keys : index'[k] = IF k = line.key THEN index[k] \ {m} ELSE index[k]
      BY <2>1, Parts
    <2> QED
      BY <1>2, <2>2 DEF Listed, KeysOf
  <1> QED
    BY <1>1, <1>2

LEMMA PutListed ==
  ASSUME TypeInv, NEW p \in Procs, Put(p), NEW n \in Nodes
  PROVE  Listed(n)' = IF n = Now(p).node THEN Listed(n) \union {Now(p).key} ELSE Listed(n)
  <1>1. Now(p).key \in Keys /\ Now(p).node \in Nodes
    BY InHand DEF Put
  <1>2. PICK key, m : key = Now(p).key /\ m = Now(p).node
    OBVIOUS
  <1>3. index' = [index EXCEPT ![key] = index[key] \union {m}]
    BY <1>2 DEF Put
  <1>4. \A k \in Keys : index'[k] = IF k = key THEN index[k] \union {m} ELSE index[k]
    BY <1>1, <1>2, <1>3, Parts
  <1> QED
    BY <1>1, <1>2, <1>4 DEF Listed

LEMMA LookTakes ==
  ASSUME TypeInv, NEW p \in Procs, Look(p)
  PROVE  op'[p].old = cache[Now(p).node]
  <1>1. op[p] \in Op
    BY Parts
  <1>2. PICK line : line = cache[Now(p).node]
    OBVIOUS
  <1>3. PICK o : o = [op[p] EXCEPT !.old = line, !.at = "put"]
    OBVIOUS
  <1>4. op' = [op EXCEPT ![p] = o]
    BY <1>2, <1>3, Parts DEF Look
  <1>5. o.old = line
    BY <1>1, <1>3 DEF Op
  <1> QED
    BY <1>2, <1>4, <1>5, Parts

\* The line a write puts in.
LEMMA PutWhole ==
  ASSUME TypeInv, NEW p \in Procs, Put(p)
  PROVE  \E line \in Line : /\ cache' = [cache EXCEPT ![Now(p).node] = line] /\ line # NoLine
                            /\ line.key = Now(p).key /\ line.size = Now(p).size
  <1>1. op[p].at = "put" /\ op[p] \in Op
    BY Parts DEF Put
  <1>2. PICK line : line = [gen |-> op[p].gen, graph |-> Now(p).graph, key |-> Now(p).key,
                            size |-> Now(p).size]
    OBVIOUS
  <1>3. cache' = [cache EXCEPT ![Now(p).node] = line]
    BY <1>2 DEF Put
  <1>4. /\ Now(p).graph \in Graphs /\ Now(p).key \in Keys /\ Now(p).size \in 1..Wrap - 1
        /\ op[p].gen \in Nat
    BY <1>1, InHand DEF Op
  <1>5. line \in Line /\ line.key = Now(p).key /\ line.size = Now(p).size
    BY <1>2, <1>4 DEF Line
  <1>6. line # NoLine
    <2>1. line.size # 0 /\ NoLine.size = 0
      BY <1>4, <1>5, BlackboardAssumption DEF NoLine
    <2> QED
      BY <2>1
  <1> QED
    BY <1>3, <1>5, <1>6

LEMMA CallerBooks ==
  ASSUME TypeInv, AgreeInv, BooksInv, NEW p \in Procs, Step(p) \/ \E c \in Calls : Begin(p, c),
         NEW n \in Nodes, n \notin raced, n \notin leaked'
  PROVE  Books(n)'
  <1>1. leaked \subseteq leaked'
    BY BeginFrame DEF Step, Draw, Send, TimeOut, Look, Put, Uncache, Unlink, SendBarrier, Return, history
  <1>2. Books(n)
    BY <1>1 DEF BooksInv
  <1>3. \A q \in Procs \ {p} : op'[q] = op[q]
    BY DrawMoves, SendMoves, TimeOutMoves, LookMoves, ItemDoneMoves, UncacheMoves,
       DeleteMoves, BeginMoves DEF Step
  <1>4. ASSUME n \in Active(p)
        PROVE  \A q \in Procs \ {p} : ~Off(op[q], n) /\ ~Out(op[q], n) /\ ~Off(op'[q], n) /\ ~Out(op'[q], n)
    <2> SUFFICES ASSUME NEW q \in Procs \ {p}, Off(op[q], n) \/ Out(op[q], n) PROVE FALSE
      BY <1>3
    <2>1. n \in Active(q)
      BY OnActive
    <2> QED
      BY <1>4, <2>1 DEF AgreeInv
  <1>5. ASSUME op[p].at # "idle" PROVE Now(p).node \in Active(p) /\ Now(p).node \in Nodes /\ op[p] \in Op
    BY <1>5, InHand
  <1>6. ASSUME Listed(n)' = Listed(n), cache'[n] = cache[n],
               \/ ~Off(op[p], n) /\ ~Out(op[p], n) /\ ~Off(op'[p], n) /\ ~Out(op'[p], n)
               \/ /\ Out(op[p], n) /\ Out(op'[p], n) /\ op'[p].old = op[p].old
                  /\ ~Off(op[p], n) /\ ~Off(op'[p], n)
        PROVE  Books(n)'
    BY <1>2, <1>3, <1>6, BooksKept
  <1>7. ASSUME index' = index PROVE Listed(n)' = Listed(n)
    BY <1>7 DEF Listed
  <1>8. CASE Draw(p)
    <2>1. /\ op[p].at = "draw" /\ op'[p].at = "send" /\ op'[p].todo = op[p].todo
          /\ op'[p].kind = op[p].kind /\ op'[p].old = op[p].old
          /\ cache' = cache /\ index' = index
      BY <1>8, DrawMoves DEF Draw
    <2> QED
      BY <1>6, <1>7, <2>1 DEF Off, Out
  <1>9. CASE Send(p)
    <2>1. /\ op[p].at = "send" /\ op'[p].todo = op[p].todo /\ op'[p].kind = op[p].kind
          /\ op'[p].at = IF op[p].kind = "write" THEN "look" ELSE "unlink"
          /\ op'[p].old = op[p].old /\ op[p].kind \in {"write", "delete"}
          /\ cache' = cache /\ index' = index
      BY <1>9, SendMoves, InHand DEF Send
    <2> QED
      BY <1>6, <1>7, <2>1 DEF Off, Out
  <1>10. CASE TimeOut(p)
    <2>1. /\ cache' = cache /\ index' = index /\ op[p].at = "send"
          /\ leaked' = IF op[p].kind = "delete" THEN leaked \union {Now(p).node} ELSE leaked
      BY <1>10 DEF TimeOut
    <2>2. ~Off(op[p], n) /\ ~Out(op[p], n)
      BY <2>1 DEF Off, Out, Now
    <2>3. ~Off(op'[p], n) /\ ~Out(op'[p], n)
      BY <1>10, TimeOutMoves, FreshHandled
    <2> QED
      BY <1>6, <1>7, <2>1, <2>2, <2>3
  <1>11. CASE Look(p)
    <2>1. /\ op[p].at = "look" /\ op'[p].at = "put" /\ op'[p].todo = op[p].todo
          /\ op'[p].old = cache[Now(p).node] /\ cache' = cache
      BY <1>11, LookMoves, LookTakes DEF Look
    <2>2. ~Off(op[p], n) /\ ~Out(op[p], n) /\ ~Out(op'[p], n) /\ (Off(op'[p], n) <=> n = Now(p).node)
      BY <2>1 DEF Off, Out, Now
    <2>3. cache[Now(p).node] \in Line /\ index' = Unlisted(Now(p).node, cache[Now(p).node])
      BY <1>5, <1>11, <2>1, Parts DEF Look
    <2>4. Listed(n)' = IF n = Now(p).node THEN Listed(n) \ KeysOf(cache[Now(p).node]) ELSE Listed(n)
      BY <1>5, <2>1, <2>3, UnlistedListed
    <2>5. CASE n = Now(p).node
      <3>1. \A q \in Procs : ~Off(op[q], n) /\ ~Out(op[q], n)
        BY <1>4, <1>5, <2>1, <2>2, <2>5
      <3>2. Listed(n) = KeysOf(cache[n])
        BY <1>2, <3>1 DEF Books
      <3>3. Listed(n)' = {}
        BY <2>4, <2>5, <3>2
      <3>4. cache'[n] = op'[p].old
        BY <2>1, <2>5
      <3>5. \A q \in Procs \ {p} : ~Off(op'[q], n) /\ ~Out(op'[q], n)
        BY <1>4, <1>5, <2>1, <2>5
      <3> QED
        BY <2>2, <2>5, <3>3, <3>4, <3>5 DEF Books
    <2>6. CASE n # Now(p).node
      BY <1>6, <2>1, <2>2, <2>4, <2>6
    <2> QED
      BY <2>5, <2>6
  <1>12. CASE Put(p)
    <2>1. op[p].at = "put"
      BY <1>12 DEF Put
    <2>2. ~Off(op'[p], n) /\ ~Out(op'[p], n)
      BY <1>12, ItemDoneMoves, FreshHandled
    <2>3. Listed(n)' = IF n = Now(p).node THEN Listed(n) \union {Now(p).key} ELSE Listed(n)
      BY <1>12, PutListed
    <2>4. CASE n = Now(p).node
      <3>1. Off(op[p], n)
        BY <2>1, <2>4 DEF Off, Now
      <3>2. Listed(n) = {}
        BY <1>2, <3>1 DEF Books
      <3>3. PICK line \in Line : /\ cache' = [cache EXCEPT ![n] = line] /\ line # NoLine
                                 /\ line.key = Now(p).key
        BY <1>12, <2>4, PutWhole
      <3>4. cache'[n] = line
        BY <3>3, Parts
      <3>5. Listed(n)' = {line.key}
        BY <2>3, <2>4, <3>2, <3>3
      <3>6. Listed(n)' = KeysOf(cache'[n])
        BY <3>3, <3>4, <3>5 DEF KeysOf
      <3>7. \A q \in Procs : ~Off(op'[q], n) /\ ~Out(op'[q], n)
        BY <1>4, <1>5, <2>1, <2>2, <2>4
      <3> QED
        BY <3>6, <3>7 DEF Books
    <2>5. CASE n # Now(p).node
      <3>1. cache'[n] = cache[n]
        BY <1>12, <2>5, PutLine
      <3>2. ~Off(op[p], n) /\ ~Out(op[p], n)
        BY <2>1, <2>5 DEF Off, Out, Now
      <3> QED
        BY <1>6, <2>2, <2>3, <2>5, <3>1, <3>2
    <2> QED
      BY <2>4, <2>5
  <1>13. CASE Uncache(p)
    <2>1. op[p].at = "remove" /\ index' = index /\ ~Off(op[p], n) /\ ~Out(op[p], n)
      BY <1>13 DEF Uncache, Off, Out
    <2>2. cache'[n] = IF n = Now(p).node THEN NoLine ELSE cache[n]
      BY <1>13, UncacheLine
    <2>3. CASE cache[Now(p).node] = NoLine
      <3>1. cache'[n] = cache[n] /\ ~Off(op'[p], n) /\ ~Out(op'[p], n)
        BY <1>13, <2>2, <2>3, UncacheMoves, FreshHandled
      <3> QED
        BY <1>6, <1>7, <2>1, <3>1
    <2>4. CASE cache[Now(p).node] # NoLine
      <3>1. /\ op'[p].at = "draw" /\ op'[p].todo = op[p].todo /\ op'[p].kind = "delete"
            /\ op'[p].old = cache[Now(p).node]
        BY <1>13, <2>4, UncacheMoves
      <3>2. ~Off(op'[p], n) /\ (Out(op'[p], n) <=> n = Now(p).node)
        BY <3>1 DEF Off, Out, Now
      <3>3. CASE n = Now(p).node
        <4>1. \A q \in Procs : ~Off(op[q], n) /\ ~Out(op[q], n)
          BY <1>4, <1>5, <2>1, <3>3
        <4>2. Listed(n)' = KeysOf(op'[p].old) /\ cache'[n] = NoLine
          BY <1>2, <1>7, <2>1, <2>2, <3>1, <3>3, <4>1 DEF Books
        <4>3. \A q \in Procs \ {p} : ~Off(op'[q], n) /\ ~Out(op'[q], n)
          BY <1>4, <1>5, <2>1, <3>3
        <4> QED
          BY <3>2, <3>3, <4>2, <4>3 DEF Books
      <3>4. CASE n # Now(p).node
        BY <1>6, <1>7, <2>1, <2>2, <3>2, <3>4
      <3> QED
        BY <3>3, <3>4
    <2> QED
      BY <2>3, <2>4
  <1>14. CASE Unlink(p)
    <2>1. /\ op[p].at = "unlink" /\ op[p].kind = "delete" /\ cache' = cache
          /\ op[p].old \in Line /\ index' = Unlisted(Now(p).node, op[p].old)
      BY <1>14, Parts DEF Unlink, CallSound, Op
    <2>2. op'[p].at \in {"barrier", "await"}
      BY <1>14, DeleteMoves
    <2>3. ~Off(op'[p], n) /\ ~Out(op'[p], n)
      BY <2>2 DEF Off, Out
    <2>4. Listed(n)' = IF n = Now(p).node THEN Listed(n) \ KeysOf(op[p].old) ELSE Listed(n)
      BY <1>5, <2>1, UnlistedListed
    <2>5. CASE n = Now(p).node
      <3>1. Out(op[p], n)
        BY <2>1, <2>5 DEF Out, Now
      <3>2. cache[n] = NoLine /\ Listed(n) = KeysOf(op[p].old)
        BY <1>2, <3>1 DEF Books
      <3>3. Listed(n)' = {} /\ cache'[n] = NoLine
        BY <2>1, <2>4, <2>5, <3>2
      <3>4. \A q \in Procs : ~Off(op'[q], n) /\ ~Out(op'[q], n)
        BY <1>4, <1>5, <2>1, <2>3, <2>5
      <3>5. KeysOf(NoLine) = {}
        BY DEF KeysOf
      <3> QED
        BY <3>3, <3>4, <3>5 DEF Books
    <2>6. CASE n # Now(p).node
      <3>1. ~Off(op[p], n) /\ ~Out(op[p], n)
        BY <2>6 DEF Off, Out, Now
      <3> QED
        BY <1>6, <2>1, <2>3, <2>4, <2>6, <3>1
    <2> QED
      BY <2>5, <2>6
  <1>15. CASE SendBarrier(p)
    <2>1. cache' = cache /\ index' = index /\ op[p].at = "barrier"
      BY <1>15 DEF SendBarrier
    <2>2. op'[p].at \in {"barrier", "await"}
      BY <1>15, DeleteMoves
    <2> QED
      BY <1>6, <1>7, <2>1, <2>2 DEF Off, Out
  <1>16. CASE Return(p) \/ \E c \in Calls : Begin(p, c)
    <2>1. cache' = cache /\ index' = index /\ op[p].at \in {"returned", "idle"}
      BY <1>16, BeginFrame DEF Return
    <2>2. ~Off(op'[p], n) /\ ~Out(op'[p], n)
      BY <1>16, ItemDoneMoves, BeginMoves, FreshHandled
    <2> QED
      BY <1>6, <1>7, <2>1, <2>2 DEF Off, Out
  <1> QED
    BY <1>8, <1>9, <1>10, <1>11, <1>12, <1>13, <1>14, <1>15, <1>16 DEF Step

LEMMA WorkBooks ==
  ASSUME TypeInv, BooksInv, Work \/ DropBegins \/ DropJoins,
         NEW n \in Nodes, n \notin raced, n \notin leaked'
  PROVE  Books(n)'
  <1>1. cache' = cache /\ index' = index /\ leaked' = leaked
    BY DEF Work, Apply, ApplyFails, AnswerBarrier, Shutdown, DropBegins, DropJoins, history
  <1>2. Books(n) /\ Listed(n)' = Listed(n)
    BY <1>1 DEF BooksInv, Listed
  <1>3. CASE AnswerBarrier
    <2>1. PICK p \in Procs : /\ op[p].at = "await" /\ \A q \in Procs \ {p} : op'[q] = op[q]
                             /\ op'[p].at = "returned"
      BY <1>3, AnswerMoves
    <2>2. ~Off(op[p], n) /\ ~Out(op[p], n) /\ ~Off(op'[p], n) /\ ~Out(op'[p], n)
      BY <2>1 DEF Off, Out
    <2> QED
      BY <1>1, <1>2, <2>1, <2>2, BooksKept
  <1>4. CASE ~AnswerBarrier
    <2>1. op' = op
      BY <1>4 DEF Work, Apply, ApplyFails, Shutdown, DropBegins, DropJoins
    <2> QED
      BY <1>1, <1>2, <2>1 DEF Books
  <1> QED
    BY <1>3, <1>4

LEMMA NextBooks == TypeInv /\ AgreeInv /\ BooksInv /\ [Next]_vars => BooksInv'
  <1> SUFFICES ASSUME TypeInv, AgreeInv, BooksInv, [Next]_vars PROVE BooksInv'
    OBVIOUS
  <1>1. CASE Next
    <2>1. \A n \in Nodes : n \notin raced /\ n \notin leaked' => Books(n)'
      BY <1>1, CallerBooks, WorkBooks DEF Next
    <2> QED
      BY <1>1, <2>1, NextRaced DEF BooksInv
  <1>2. CASE UNCHANGED vars
    BY <1>2 DEF vars, history, BooksInv, Books, Listed
  <1> QED
    BY <1>1, <1>2

\* A node nobody works on is listed under the key of its line and under no other,
\* unless two calls for it overlapped or a delete of it gave up half-way.
THEOREM IndexFollowsCache == Spec => []IndexExact
<1>1. Init => TypeInv /\ AgreeInv /\ BooksInv
  BY InitTypeInv, InitAgree, InitBooks
<1>2. TypeInv /\ AgreeInv /\ BooksInv /\ [Next]_vars => (TypeInv /\ AgreeInv /\ BooksInv)'
  BY NextTyped, NextAgree, NextBooks
<1>3. TypeInv /\ BooksInv => IndexExact
  BY BooksIndex
<1> QED
  BY <1>1, <1>2, <1>3, PTL DEF Spec

-----------------------------------------------------------------------------
(***************************************************************************)
(* Sums over the cache.                                                    *)
(***************************************************************************)

\* A set of numbers that is not empty has a least element.
LEMMA LeastNumber ==
  ASSUME NEW S, S \subseteq Nat, S # {}
  PROVE  \E m \in S : \A n \in S : m <= n
<1>1. PICK m \in S : \A n \in S : ~ (<<n, m>> \in OpToRel(<, Nat))
  BY NatLessThanWellFounded, WFMin, Zenon
<1>2. \A n \in S : ~ (n < m)
  BY <1>1 DEF OpToRel
<1>3. QED BY <1>2

\* A set of numbers that holds 0, and with a number below a bound the next one,
\* holds every number up to the bound.
LEMMA ReachesBound ==
  ASSUME NEW P, NEW top \in Nat, 0 \in P, \A n \in 0..top : n \in P /\ n < top => n + 1 \in P
  PROVE  \A n \in 0..top : n \in P
<1> DEFINE Missing == {n \in 0..top : n \notin P}
<1>1. SUFFICES ASSUME Missing # {} PROVE FALSE
  OBVIOUS
<1>2. Missing \subseteq Nat
  OBVIOUS
<1>3. PICK m \in Missing : \A n \in Missing : m <= n
  <2> HIDE DEF Missing
  <2>1. QED BY <1>1, <1>2, LeastNumber
<1>4. m \in 1..top
  BY <1>3
<1>5. m - 1 \in 0..top /\ m - 1 < top /\ m - 1 \notin Missing
  BY <1>3, <1>4
<1>6. m - 1 + 1 \in P
  BY <1>5
<1>7. QED BY <1>3, <1>4, <1>6

Pick(T) == CHOOSE n \in T : TRUE
\* f gives for each subset of S the sum of its sizes.
Sums(f, lines, S) ==
  \A T \in SUBSET S : f[T] = IF T = {} THEN 0 ELSE lines[Pick(T)].size + f[T \ {Pick(T)}]

LEMMA Picked == ASSUME NEW T, T # {} PROVE Pick(T) \in T
  BY DEF Pick

LEMMA BytesSum ==
  ASSUME NEW S, IsFiniteSet(S), NEW lines
  PROVE  \E f : Sums(f, lines, S) /\ Bytes(lines, S) = f[S]
<1> DEFINE Upto(f, k) ==
             \A T \in SUBSET S : Cardinality(T) <= k =>
               f[T] = IF T = {} THEN 0 ELSE lines[Pick(T)].size + f[T \ {Pick(T)}]
           P == {k \in Nat : \E f : Upto(f, k)}
<1>1. \A T \in SUBSET S : /\ IsFiniteSet(T) /\ Cardinality(T) \in Nat
                          /\ Cardinality(T) <= Cardinality(S)
                          /\ Cardinality(T) = 0 <=> T = {}
  BY FS_Subset, FS_CardinalityType, FS_EmptySet
<1>2. \A T \in SUBSET S : T # {} =>
        T \ {Pick(T)} \in SUBSET S /\ Cardinality(T \ {Pick(T)}) = Cardinality(T) - 1
  <2>1. SUFFICES ASSUME NEW T \in SUBSET S, T # {}
                 PROVE  T \ {Pick(T)} \in SUBSET S
                        /\ Cardinality(T \ {Pick(T)}) = Cardinality(T) - 1
    OBVIOUS
  <2>2. IsFiniteSet(T) /\ Pick(T) \in T
    BY <1>1, <2>1, Picked
  <2>3. QED BY <2>2, FS_RemoveElement
<1>3. Cardinality(S) \in Nat
  BY <1>1
<1>4. 0 \in P
  <2>1. PICK f : f = [T \in SUBSET S |-> 0]
    OBVIOUS
  <2>2. Upto(f, 0)
    BY <1>1, <2>1
  <2>3. QED BY <2>2
<1>5. ASSUME NEW k \in 0..Cardinality(S), k \in P, k < Cardinality(S) PROVE k + 1 \in P
  <2>1. PICK f : Upto(f, k)
    BY <1>5
  <2>2. PICK h : h = [T \in SUBSET S |-> IF Cardinality(T) <= k THEN f[T]
                                         ELSE lines[Pick(T)].size + f[T \ {Pick(T)}]]
    OBVIOUS
  <2>3. ASSUME NEW T \in SUBSET S, Cardinality(T) <= k + 1
        PROVE  h[T] = IF T = {} THEN 0 ELSE lines[Pick(T)].size + h[T \ {Pick(T)}]
    <3>1. h[T] = IF Cardinality(T) <= k THEN f[T] ELSE lines[Pick(T)].size + f[T \ {Pick(T)}]
      BY <2>2
    <3>2. CASE T = {}
      <4>1. Cardinality(T) <= k
        BY <1>1, <3>2
      <4>2. QED BY <2>1, <3>1, <3>2, <4>1
    <3>3. CASE T # {}
      <4>1. PICK R \in SUBSET S : R = T \ {Pick(T)} /\ Cardinality(R) = Cardinality(T) - 1
        BY <1>2, <3>3
      <4>2. Cardinality(R) <= k /\ Cardinality(T) \in Nat
        BY <1>1, <2>3, <4>1
      <4>3. h[R] = f[R]
        BY <2>2, <4>2
      <4>4. h[T] = lines[Pick(T)].size + f[R]
        BY <2>1, <3>1, <3>3, <4>1
      <4>5. QED BY <3>3, <4>1, <4>3, <4>4
    <3>4. QED BY <3>2, <3>3
  <2>4. Upto(h, k + 1)
    BY <2>3
  <2>5. k + 1 \in Nat
    BY <1>3, <1>5
  <2> HIDE DEF Upto
  <2>6. QED BY <2>4, <2>5
<1>6. Cardinality(S) \in P
  <2> HIDE DEF P
  <2>1. \A k \in 0..Cardinality(S) : k \in P
    BY <1>3, <1>4, <1>5, ReachesBound
  <2>2. QED BY <1>3, <2>1
<1>7. PICK e : Upto(e, Cardinality(S))
  BY <1>6
<1>8. PICK g : g = [T \in SUBSET S |-> e[T]]
  OBVIOUS
<1>9. \A T \in SUBSET S : g[T] = IF T = {} THEN 0 ELSE lines[Pick(T)].size + g[T \ {Pick(T)}]
  <2>1. SUFFICES ASSUME NEW T \in SUBSET S
                 PROVE  g[T] = IF T = {} THEN 0 ELSE lines[Pick(T)].size + g[T \ {Pick(T)}]
    OBVIOUS
  <2>2. e[T] = IF T = {} THEN 0 ELSE lines[Pick(T)].size + e[T \ {Pick(T)}]
    BY <1>1, <1>7
  <2>3. g[T] = e[T] /\ (T # {} => g[T \ {Pick(T)}] = e[T \ {Pick(T)}])
    BY <1>2, <1>8
  <2>4. QED BY <2>2, <2>3
<1> DEFINE Run(f) == f = [T \in SUBSET S |-> IF T = {} THEN 0
                                             ELSE lines[Pick(T)].size + f[T \ {Pick(T)}]]
<1>10. \E f : Run(f)
  <2>1. g = [T \in SUBSET S |-> g[T]]
    BY <1>8
  <2>2. [T \in SUBSET S |-> g[T]]
          = [T \in SUBSET S |-> IF T = {} THEN 0 ELSE lines[Pick(T)].size + g[T \ {Pick(T)}]]
    BY <1>9
  <2>3. Run(g)
    BY <2>1, <2>2
  <2>4. QED BY <2>3
<1>11. PICK f : Run(f) /\ Bytes(lines, S) = f[S]
  BY <1>10, Zenon DEF Bytes, Pick
<1>12. Sums(f, lines, S)
  BY <1>11 DEF Sums
<1>13. QED BY <1>11, <1>12

LEMMA OneLess ==
  ASSUME NEW T, IsFiniteSet(T), NEW m \in T, NEW k \in Nat, Cardinality(T) = k + 1
  PROVE  Cardinality(T \ {m}) = k
<1>1. Cardinality(T \ {m}) = Cardinality(T) - 1
  BY FS_RemoveElement
<1>2. QED BY <1>1

\* Two sums of sizes that agree are one.
LEMMA SumsAgree ==
  ASSUME NEW S, IsFiniteSet(S), NEW R, NEW f, NEW g, NEW lines, NEW others,
         Sums(f, lines, S), Sums(g, others, R), S \subseteq R,
         \A n \in S : lines[n].size = others[n].size
  PROVE  f[S] = g[S]
<1> DEFINE P == {k \in Nat : \A T \in SUBSET S : Cardinality(T) = k => f[T] = g[T]}
<1>1. \A T \in SUBSET S : /\ IsFiniteSet(T) /\ Cardinality(T) \in Nat
                          /\ Cardinality(T) <= Cardinality(S)
                          /\ Cardinality(T) = 0 <=> T = {}
  BY FS_Subset, FS_CardinalityType, FS_EmptySet
<1>2. Cardinality(S) \in Nat
  BY <1>1
<1>3. 0 \in P
  <2>1. f[{}] = 0 /\ g[{}] = 0
    BY DEF Sums
  <2>2. QED BY <1>1, <2>1
<1>4. ASSUME NEW k \in 0..Cardinality(S), k \in P, k < Cardinality(S) PROVE k + 1 \in P
  <2>1. ASSUME NEW T \in SUBSET S, Cardinality(T) = k + 1 PROVE f[T] = g[T]
    <3>1. T # {} /\ IsFiniteSet(T)
      BY <1>1, <1>2, <2>1
    <3>2. PICK n : n = Pick(T) /\ n \in T
      BY <3>1, Picked
    <3>0. k \in Nat
      BY <1>2
    <3>3. T \ {n} \in SUBSET S /\ Cardinality(T \ {n}) = k
      BY <2>1, <3>0, <3>1, <3>2, OneLess
    <3>4. f[T \ {n}] = g[T \ {n}]
      BY <1>4, <3>3
    <3>5. f[T] = lines[n].size + f[T \ {n}]
      BY <3>1, <3>2 DEF Sums
    <3>6. T \in SUBSET R
      BY <2>1
    <3>7. g[T] = others[n].size + g[T \ {n}]
      BY <3>1, <3>2, <3>6 DEF Sums
    <3>8. QED BY <3>2, <3>4, <3>5, <3>7
  <2>2. k + 1 \in Nat
    BY <1>2, <1>4
  <2>3. QED BY <2>1, <2>2
<1>5. Cardinality(S) \in P
  <2> HIDE DEF P
  <2>1. \A k \in 0..Cardinality(S) : k \in P
    BY <1>2, <1>3, <1>4, ReachesBound
  <2>2. QED BY <1>2, <2>1
<1>6. QED BY <1>5

\* The order in which a sum is taken does not matter.
LEMMA SumsExchange ==
  ASSUME NEW S, IsFiniteSet(S), NEW f, NEW lines, Sums(f, lines, S),
         \A n \in S : lines[n].size \in Nat
  PROVE  \A m \in S : f[S] = lines[m].size + f[S \ {m}] /\ f[S] \in Nat
<1> DEFINE P == {k \in Nat : \A T \in SUBSET S : Cardinality(T) <= k =>
                               /\ f[T] \in Nat
                               /\ \A m \in T : f[T] = lines[m].size + f[T \ {m}]}
<1>1. \A T \in SUBSET S : /\ IsFiniteSet(T) /\ Cardinality(T) \in Nat
                          /\ Cardinality(T) <= Cardinality(S)
                          /\ Cardinality(T) = 0 <=> T = {}
  BY FS_Subset, FS_CardinalityType, FS_EmptySet
<1>2. Cardinality(S) \in Nat
  BY <1>1
<1>3. \A T \in SUBSET S : \A m \in T :
        T \ {m} \in SUBSET S /\ Cardinality(T \ {m}) = Cardinality(T) - 1
  <2>1. SUFFICES ASSUME NEW T \in SUBSET S, NEW m \in T
                 PROVE  T \ {m} \in SUBSET S /\ Cardinality(T \ {m}) = Cardinality(T) - 1
    OBVIOUS
  <2>2. IsFiniteSet(T)
    BY <1>1
  <2>3. QED BY <2>2, FS_RemoveElement
<1>4. 0 \in P
  <2>1. f[{}] = 0
    BY DEF Sums
  <2>2. QED BY <1>1, <2>1
<1>5. ASSUME NEW k \in 0..Cardinality(S), k \in P, k < Cardinality(S) PROVE k + 1 \in P
  <2>1. ASSUME NEW R \in SUBSET S, Cardinality(R) <= k
        PROVE  f[R] \in Nat /\ \A m \in R : f[R] = lines[m].size + f[R \ {m}]
    BY <1>5, <2>1
  <2>2. ASSUME NEW T \in SUBSET S, Cardinality(T) = k + 1
        PROVE  f[T] \in Nat /\ \A m \in T : f[T] = lines[m].size + f[T \ {m}]
    <3>1. T # {} /\ k \in Nat
      BY <1>1, <1>2, <2>2
    <3>2. PICK n : n = Pick(T) /\ n \in T
      BY <3>1, Picked
    <3>0. IsFiniteSet(T) /\ T \in SUBSET S
      BY <1>1, <2>2
    <3>9. \A m \in T : T \ {m} \in SUBSET S /\ Cardinality(T \ {m}) = k
      BY <2>2, <3>0, <3>1, OneLess
    <3>3. PICK A : A = T \ {n} /\ A \in SUBSET S /\ Cardinality(A) = k
      BY <3>9, <3>2
    <3>10. f[T] = lines[Pick(T)].size + f[T \ {Pick(T)}]
      BY <3>0, <3>1 DEF Sums
    <3>11. k <= k
      BY <3>1
    <3>4. f[T] = lines[n].size + f[A] /\ f[A] \in Nat
      BY <2>1, <3>2, <3>3, <3>10, <3>11
    <3>5. lines[n].size \in Nat
      BY <2>2, <3>2
    <3>6. ASSUME NEW m \in T, m # n PROVE f[T] = lines[m].size + f[T \ {m}]
      <4>1. f[A] = lines[m].size + f[A \ {m}]
        BY <2>1, <3>3, <3>6
      <4>2. PICK B : B = T \ {m} /\ B \in SUBSET S /\ Cardinality(B) = k
        BY <3>9, <3>6
      <4>3. f[B] = lines[n].size + f[B \ {n}]
        BY <2>1, <3>2, <3>6, <4>2
      <4>4. A \ {m} = B \ {n}
        BY <3>3, <4>2
      <4>5. PICK C : C = A \ {m} /\ C \in SUBSET S /\ Cardinality(C) = k - 1
        BY <1>3, <3>1, <3>3, <3>6
      <4>6. lines[m].size \in Nat
        BY <2>2
      <4>7. f[B] = lines[n].size + f[C] /\ f[A] = lines[m].size + f[C]
        BY <4>1, <4>3, <4>4, <4>5
      <4>8. f[C] \in Nat
        BY <2>1, <3>1, <4>5
      <4>9. QED BY <3>4, <3>5, <4>2, <4>6, <4>7, <4>8
    <3>7. f[T] \in Nat
      BY <3>4, <3>5
    <3>8. QED BY <3>2, <3>3, <3>4, <3>6, <3>7
  <2>3. k + 1 \in Nat
    BY <1>2, <1>5
  <2>4. ASSUME NEW T \in SUBSET S, Cardinality(T) <= k + 1
        PROVE  f[T] \in Nat /\ \A m \in T : f[T] = lines[m].size + f[T \ {m}]
    <3>1. Cardinality(T) \in Nat /\ k \in Nat
      BY <1>1, <1>2
    <3>2. Cardinality(T) <= k \/ Cardinality(T) = k + 1
      BY <2>4, <3>1
    <3>3. QED BY <2>1, <2>2, <3>2
  <2>5. QED BY <2>3, <2>4
<1>6. Cardinality(S) \in P
  <2> HIDE DEF P
  <2>1. \A k \in 0..Cardinality(S) : k \in P
    BY <1>2, <1>4, <1>5, ReachesBound
  <2>2. QED BY <1>2, <2>1
<1>7. QED BY <1>6

LEMMA BytesTyped ==
  ASSUME NEW S, IsFiniteSet(S), NEW lines, \A n \in S : lines[n].size \in Nat
  PROVE  Bytes(lines, S) \in Nat
<1>1. PICK f : Sums(f, lines, S) /\ Bytes(lines, S) = f[S]
  BY BytesSum
<1>2. CASE S = {}
  <2>1. f[{}] = 0
    BY <1>1, Zenon DEF Sums
  <2>2. QED BY <1>1, <1>2, <2>1
<1>3. CASE S # {}
  BY <1>1, <1>3, SumsExchange
<1>4. QED BY <1>2, <1>3

\* A sum depends on the sizes of its members alone.
LEMMA BytesMatch ==
  ASSUME NEW S, IsFiniteSet(S), NEW lines, NEW others,
         \A n \in S : lines[n].size = others[n].size
  PROVE  Bytes(lines, S) = Bytes(others, S)
<1>1. PICK f : Sums(f, lines, S) /\ Bytes(lines, S) = f[S]
  BY BytesSum
<1>2. PICK g : Sums(g, others, S) /\ Bytes(others, S) = g[S]
  BY BytesSum
<1>3. f[S] = g[S]
  BY <1>1, <1>2, SumsAgree
<1>4. QED BY <1>1, <1>2, <1>3

LEMMA BytesWithout ==
  ASSUME NEW S, IsFiniteSet(S), NEW lines, \A m \in S : lines[m].size \in Nat, NEW n \in S
  PROVE  Bytes(lines, S) = Bytes(lines, S \ {n}) + lines[n].size
<1>1. PICK f : Sums(f, lines, S) /\ Bytes(lines, S) = f[S]
  BY BytesSum
<1>2. PICK R : R = S \ {n} /\ R \subseteq S /\ IsFiniteSet(R)
  BY FS_RemoveElement
<1>3. PICK g : Sums(g, lines, R) /\ Bytes(lines, R) = g[R]
  BY <1>2, BytesSum
<1>4. f[S] = lines[n].size + f[R]
  BY <1>1, <1>2, SumsExchange
<1>5. g[R] = f[R]
  <2>1. \A m \in R : lines[m].size = lines[m].size
    OBVIOUS
  <2>2. QED BY <1>1, <1>2, <1>3, <2>1, SumsAgree
<1>6. Bytes(lines, R) \in Nat
  <2>1. \A m \in R : lines[m].size \in Nat
    BY <1>2
  <2>2. QED BY <1>2, <2>1, BytesTyped
<1>7. lines[n].size \in Nat
  OBVIOUS
<1>8. QED BY <1>1, <1>2, <1>3, <1>4, <1>5, <1>6, <1>7

\* The nodes that have a line.
Filled(f) == {n \in Nodes : f[n] # NoLine}
\* A line counts for one node.
One(line) == IF line = NoLine THEN 0 ELSE 1

LEMMA SizesTyped == ASSUME NEW f \in [Nodes -> Line] PROVE \A n \in Nodes : f[n].size \in Nat
<1>1. \A n \in Nodes : f[n] \in Line
  OBVIOUS
<1>2. QED BY <1>1, SizeOfLine, BlackboardAssumption

\* The sum and the number of the lines, one of them set apart.
LEMMA FilledSplit ==
  ASSUME NEW f \in [Nodes -> Line], NEW n \in Nodes, IsFiniteSet(Filled(f) \ {n})
  PROVE  /\ IsFiniteSet(Filled(f))
         /\ Bytes(f, Filled(f)) = Bytes(f, Filled(f) \ {n}) + f[n].size
         /\ Cardinality(Filled(f)) = Cardinality(Filled(f) \ {n}) + One(f[n])
         /\ Bytes(f, Filled(f) \ {n}) \in Nat /\ Cardinality(Filled(f) \ {n}) \in Nat
<1>1. PICK S : S = Filled(f) \ {n} /\ S \subseteq Nodes /\ IsFiniteSet(S)
  BY DEF Filled
<1>2. PICK R : R = Filled(f) /\ R \subseteq Nodes
  BY DEF Filled
<1>3. \A m \in Nodes : f[m].size \in Nat
  BY SizesTyped
<1>4. Bytes(f, S) \in Nat /\ Cardinality(S) \in Nat
  <2>1. \A m \in S : f[m].size \in Nat
    BY <1>1, <1>3
  <2>2. QED BY <1>1, <2>1, BytesTyped, FS_CardinalityType
<1>5. CASE f[n] = NoLine
  <2>1. n \notin R
    BY <1>2, <1>5 DEF Filled
  <2>2. R = S
    BY <1>1, <1>2, <2>1
  <2>3. f[n].size = 0 /\ One(f[n]) = 0
    BY <1>5 DEF One, NoLine
  <2>4. Bytes(f, S) = Bytes(f, S) + f[n].size /\ Cardinality(S) = Cardinality(S) + One(f[n])
    BY <1>4, <2>3
  <2>5. QED BY <1>1, <1>2, <1>4, <2>2, <2>4
<1>6. CASE f[n] # NoLine
  <2>1. n \in R /\ n \notin S /\ One(f[n]) = 1
    BY <1>1, <1>2, <1>6 DEF Filled, One
  <2>2. R = S \union {n} /\ S = R \ {n}
    BY <1>1, <1>2, <2>1
  <2>3. IsFiniteSet(R) /\ Cardinality(R) = Cardinality(S) + 1
    BY <1>1, <2>1, <2>2, FS_AddElement
  <2>4. \A m \in R : f[m].size \in Nat
    BY <1>2, <1>3
  <2>5. Bytes(f, R) = Bytes(f, R \ {n}) + f[n].size
    BY <2>1, <2>3, <2>4, BytesWithout
  <2>6. QED BY <1>1, <1>2, <1>4, <2>1, <2>2, <2>3, <2>5
<1>7. QED BY <1>5, <1>6

\* What the sum and the number of the lines become when one line changes.
LEMMA LineChanges ==
  ASSUME NEW f \in [Nodes -> Line], IsFiniteSet(Filled(f)), NEW n \in Nodes, NEW line \in Line,
         NEW g, g = [f EXCEPT ![n] = line]
  PROVE  /\ IsFiniteSet(Filled(g))
         /\ Bytes(f, Filled(f)) \in Nat /\ Bytes(g, Filled(g)) \in Nat
         /\ Cardinality(Filled(f)) \in Nat /\ Cardinality(Filled(g)) \in Nat
         /\ Bytes(g, Filled(g)) + f[n].size = Bytes(f, Filled(f)) + line.size
         /\ Cardinality(Filled(g)) + One(f[n]) = Cardinality(Filled(f)) + One(line)
<1>1. g \in [Nodes -> Line] /\ g[n] = line /\ \A m \in Nodes \ {n} : g[m] = f[m]
  OBVIOUS
<1>2. PICK S : S = Filled(f) \ {n} /\ S \subseteq Nodes /\ n \notin S /\ IsFiniteSet(S)
  BY FS_RemoveElement, FS_Subset DEF Filled
<1>3. Filled(g) \ {n} = S
  BY <1>1, <1>2 DEF Filled
<1>4. Bytes(f, S) = Bytes(g, S)
  <2>1. \A m \in S : f[m].size = g[m].size
    BY <1>1, <1>2
  <2>2. QED BY <1>2, <2>1, BytesMatch
<1>5. f[n].size \in Nat /\ line.size \in Nat /\ One(f[n]) \in Nat /\ One(line) \in Nat
  BY <1>1, SizesTyped DEF One
<1>6. /\ Bytes(f, Filled(f)) = Bytes(f, S) + f[n].size
      /\ Cardinality(Filled(f)) = Cardinality(S) + One(f[n])
      /\ Bytes(f, S) \in Nat /\ Cardinality(S) \in Nat
  BY <1>2, FilledSplit
<1>7. /\ IsFiniteSet(Filled(g))
      /\ Bytes(g, Filled(g)) = Bytes(g, S) + g[n].size
      /\ Cardinality(Filled(g)) = Cardinality(S) + One(g[n])
  BY <1>1, <1>2, <1>3, FilledSplit
<1>8. QED BY <1>1, <1>4, <1>5, <1>6, <1>7

-----------------------------------------------------------------------------
(***************************************************************************)
(* Counters.  A line is counted from the step that puts it into the cache  *)
(* to the one that replaces or unlinks it: a delete takes it out of the    *)
(* cache before.  The counters are 64-bit numbers, so the theorems suppose *)
(* that the lines counted at a time are fewer than 2^64 bytes.             *)
(***************************************************************************)
CountedAt(lines, n) ==
  /\ \A p \in Procs : Out(op[p], n) => lines[n] = op[p].old
  /\ (\A p \in Procs : ~Out(op[p], n)) => lines[n] = cache[n]

Counted(lines) ==
  /\ lines \in [Nodes -> Line] /\ IsFiniteSet(Filled(lines))
  /\ \A n \in Nodes : CountedAt(lines, n)

MemoryFits ==
  \A lines \in [Nodes -> Line] : Counted(lines) =>
    Bytes(lines, Filled(lines)) < Wrap /\ Cardinality(Filled(lines)) < Wrap

Sums64(lines) == totalBytes = Bytes(lines, Filled(lines)) /\ nodeCount = Cardinality(Filled(lines))

CountInv == raced = {} /\ leaked = {} => \E lines : Counted(lines) /\ Sums64(lines)

LEMMA SmallModulo == \A x \in 0..Wrap - 1 : x % Wrap = x /\ (x + Wrap) % Wrap = x
  BY BlackboardAssumption

LEMMA CountBytes ==
  ASSUME NEW a \in 0..Wrap - 1, NEW old \in 0..Wrap - 1, NEW size \in 0..Wrap - 1,
         NEW b \in 0..Wrap - 1, b + old = a + size
  PROVE  b = IF size >= old THEN Add64(a, size - old) ELSE Sub64(a, old - size)
<1>0. Wrap \in Nat \ {0}
  BY BlackboardAssumption
<1>1. CASE size >= old
  <2>1. a + (size - old) = b
    BY <1>0
  <2>2. b % Wrap = b
    BY SmallModulo
  <2>3. QED BY <1>1, <2>1, <2>2 DEF Add64
<1>2. CASE ~(size >= old)
  <2>1. a + Wrap - (old - size) = b + Wrap
    BY <1>0
  <2>2. (b + Wrap) % Wrap = b
    BY SmallModulo
  <2>3. QED BY <1>2, <2>1, <2>2 DEF Sub64
<1>3. QED BY <1>1, <1>2

LEMMA CountersFollow ==
  ASSUME TypeInv, CountInv, \A p \in Procs : op[p].at = "idle", raced = {}, leaked = {}
  PROVE  nodeCount = Cardinality(Live) /\ totalBytes = Bytes(cache, Live)
<1>1. PICK lines : Counted(lines) /\ Sums64(lines)
  BY DEF CountInv
<1>2. \A n \in Nodes : \A p \in Procs : ~Out(op[p], n)
  BY DEF Out
<1>3. \A n \in Nodes : lines[n] = cache[n]
  BY <1>1, <1>2 DEF Counted, CountedAt
<1>4. lines = cache
  BY <1>1, <1>3, Parts DEF Counted
<1>5. Filled(lines) = Live
  BY <1>4 DEF Filled, Live
<1>6. QED BY <1>1, <1>4, <1>5 DEF Sums64

LEMMA InitCount == Init => CountInv
  <1> SUFFICES ASSUME Init PROVE Counted(cache) /\ Sums64(cache)
    BY DEF CountInv
  <1>1. cache \in [Nodes -> Line] /\ Filled(cache) = {}
    BY DEF Init, Filled, Line
  <1>2. IsFiniteSet(Filled(cache)) /\ Cardinality(Filled(cache)) = 0
    BY <1>1, FS_EmptySet
  <1>3. Bytes(cache, Filled(cache)) = 0
    <2>1. PICK S : S = {} /\ IsFiniteSet(S) /\ Filled(cache) = S
      BY <1>1, <1>2
    <2>2. PICK f : Sums(f, cache, S) /\ Bytes(cache, S) = f[S]
      BY <2>1, BytesSum
    <2>3. f[{}] = 0
      BY <2>2, Zenon DEF Sums
    <2> QED
      BY <2>1, <2>2, <2>3
  <1>4. \A n \in Nodes : \A p \in Procs : ~Out(op[p], n)
    BY IdleSound DEF Init, Out
  <1>5. totalBytes = 0 /\ nodeCount = 0
    BY DEF Init
  <1> QED
    BY <1>1, <1>2, <1>3, <1>4, <1>5 DEF Counted, CountedAt, Sums64

\* A step of one call that leaves the node's line alone and neither begins nor ends
\* taking it out.
LEMMA CountedKept ==
  ASSUME NEW n \in Nodes, NEW lines, CountedAt(lines, n), cache'[n] = cache[n],
         NEW p \in Procs, \A q \in Procs \ {p} : op'[q] = op[q],
         \/ ~Out(op[p], n) /\ ~Out(op'[p], n)
         \/ Out(op[p], n) /\ Out(op'[p], n) /\ op'[p].old = op[p].old
  PROVE  CountedAt(lines, n)'
  <1>1. \A q \in Procs : Out(op'[q], n) <=> Out(op[q], n)
    OBVIOUS
  <1>2. \A q \in Procs : Out(op[q], n) => op'[q].old = op[q].old
    OBVIOUS
  <1> QED
    BY <1>1, <1>2 DEF CountedAt

\* A line replaced in what is counted.
LEMMA Recounted ==
  ASSUME TypeInv, NEW lines, Counted(lines), Sums64(lines), NEW n \in Nodes, NEW line \in Line,
         NEW others, others = [lines EXCEPT ![n] = line],
         \A m \in Nodes : CountedAt(others, m)', MemoryFits'
  PROVE  /\ Counted(others)'
         /\ Bytes(others, Filled(others)) \in 0..Wrap - 1
         /\ Cardinality(Filled(others)) \in 0..Wrap - 1
         /\ Bytes(others, Filled(others)) + lines[n].size = totalBytes + line.size
         /\ Cardinality(Filled(others)) + One(lines[n]) = nodeCount + One(line)
  <1>1. /\ IsFiniteSet(Filled(others)) /\ Bytes(others, Filled(others)) \in Nat
        /\ Cardinality(Filled(others)) \in Nat
        /\ Bytes(others, Filled(others)) + lines[n].size = Bytes(lines, Filled(lines)) + line.size
        /\ Cardinality(Filled(others)) + One(lines[n]) = Cardinality(Filled(lines)) + One(line)
    BY LineChanges DEF Counted
  <1>2. others \in [Nodes -> Line]
    BY DEF Counted
  <1>3. Counted(others)'
    BY <1>1, <1>2 DEF Counted
  <1>4. Bytes(others, Filled(others)) < Wrap /\ Cardinality(Filled(others)) < Wrap
    BY <1>2, <1>3 DEF MemoryFits
  <1> QED
    BY <1>1, <1>3, <1>4, BlackboardAssumption DEF Sums64

\* The steps that leave the counters alone.
LEMMA QuietCount ==
  ASSUME CountInv, raced = {}, leaked = {}, totalBytes' = totalBytes, nodeCount' = nodeCount,
         NEW p \in Procs, \A q \in Procs \ {p} : op'[q] = op[q],
         \A n \in Nodes : \A lines : CountedAt(lines, n) => CountedAt(lines, n)'
  PROVE  CountInv'
<1>1. PICK lines : Counted(lines) /\ Sums64(lines)
  BY DEF CountInv
<1>2. Counted(lines)'
  BY <1>1 DEF Counted
<1>3. Sums64(lines)'
  BY <1>1 DEF Sums64
<1>4. QED BY <1>2, <1>3 DEF CountInv

LEMMA PutCounts ==
  ASSUME TypeInv, AgreeInv, BooksInv, CountInv, MemoryFits', raced = {}, leaked = {},
         NEW p \in Procs, Put(p)
  PROVE  /\ CountInv' /\ cache[Now(p).node].size <= totalBytes
         /\ totalBytes' + cache[Now(p).node].size = totalBytes + Now(p).size
  <1>1. PICK lines : Counted(lines) /\ Sums64(lines)
    BY DEF CountInv
  <1>2. PICK n \in Nodes : n = Now(p).node
    BY InHand DEF Put
  <1>3. PICK size : size = Now(p).size
    OBVIOUS
  <1>4. op[p].at = "put" /\ n \in Active(p) /\ size \in 0..Wrap - 1
    BY <1>2, <1>3, InHand, BlackboardAssumption DEF Put
  <1>5. PICK line \in Line : /\ cache' = [cache EXCEPT ![n] = line] /\ line # NoLine
                             /\ line.size = size
    BY <1>2, <1>3, PutWhole
  <1>6. \A q \in Procs \ {p} : op'[q] = op[q]
    BY ItemDoneMoves
  <1>7. \A m \in Nodes : ~Out(op[p], m) /\ ~Out(op'[p], m)
    BY <1>4, ItemDoneMoves, FreshHandled DEF Out
  <1>8. \A q \in Procs : ~Out(op[q], n) /\ ~Out(op'[q], n)
    <2> SUFFICES ASSUME NEW q \in Procs \ {p}, Out(op[q], n) PROVE FALSE
      BY <1>6, <1>7
    <2>1. n \in Active(q)
      BY OnActive
    <2> QED
      BY <1>4, <2>1 DEF AgreeInv
  <1>9. op[p].old = cache[n] /\ lines[n] = cache[n]
    <2>1. Off(op[p], n)
      BY <1>2, <1>4 DEF Off, Now
    <2>2. op[p].old = cache[n]
      BY <2>1 DEF BooksInv, Books
    <2>3. lines[n] = cache[n]
      BY <1>1, <1>8 DEF Counted, CountedAt
    <2> QED
      BY <2>2, <2>3
  <1>10. PICK others : others = [lines EXCEPT ![n] = line]
    OBVIOUS
  <1>11. others[n] = line /\ \A m \in Nodes \ {n} : others[m] = lines[m]
    BY <1>1, <1>10 DEF Counted
  <1>12. \A m \in Nodes : CountedAt(others, m)'
    <2>1. CountedAt(others, n)'
      <3>1. cache'[n] = line
        BY <1>5, Parts
      <3> QED
        BY <1>8, <1>11, <3>1 DEF CountedAt
    <2>2. ASSUME NEW m \in Nodes \ {n} PROVE CountedAt(others, m)'
      <3>1. CountedAt(lines, m) /\ cache'[m] = cache[m]
        BY <1>1, <1>5, Parts DEF Counted
      <3>2. CountedAt(others, m)
        BY <1>11, <3>1 DEF CountedAt
      <3> QED
        BY <1>6, <1>7, <3>1, <3>2, CountedKept
    <2> QED
      BY <2>1, <2>2
  <1>13. PICK old \in Line : old = cache[n] /\ old.size \in 0..Wrap - 1
    BY SizeOfLine, Parts
  <1>14. PICK b \in 0..Wrap - 1 : b = Bytes(others, Filled(others)) /\ b + old.size = totalBytes + size
    <2>1. /\ Bytes(others, Filled(others)) \in 0..Wrap - 1
          /\ Cardinality(Filled(others)) \in 0..Wrap - 1
          /\ Bytes(others, Filled(others)) + lines[n].size = totalBytes + line.size
          /\ Cardinality(Filled(others)) + One(lines[n]) = nodeCount + One(line)
      BY <1>1, <1>10, <1>12, Recounted
    <2> QED
      BY <1>5, <1>9, <1>13, <2>1
  <1>15. PICK c \in 0..Wrap - 1 : c = Cardinality(Filled(others)) /\ c + One(old) = nodeCount + One(line)
    <2>1. /\ Bytes(others, Filled(others)) \in 0..Wrap - 1
          /\ Cardinality(Filled(others)) \in 0..Wrap - 1
          /\ Bytes(others, Filled(others)) + lines[n].size = totalBytes + line.size
          /\ Cardinality(Filled(others)) + One(lines[n]) = nodeCount + One(line)
      BY <1>1, <1>10, <1>12, Recounted
    <2> QED
      BY <1>5, <1>9, <1>13, <2>1
  <1>16. totalBytes \in 0..Wrap - 1 /\ nodeCount \in 0..Wrap - 1
    BY Parts
  <1>17. Count(old, size)
    BY <1>2, <1>3, <1>9, <1>13 DEF Put
  <1>18. totalBytes' = b
    BY <1>4, <1>13, <1>14, <1>16, <1>17, CountBytes DEF Count
  <1>19. nodeCount' = c
    <2>1. CASE old = NoLine
      <3>1. c = nodeCount + 1
        BY <1>5, <1>15, <1>16, <2>1 DEF One
      <3>2. c % Wrap = c
        BY <1>15, SmallModulo
      <3> QED
        BY <1>17, <2>1, <3>1, <3>2 DEF Count, Add64
    <2>2. CASE old # NoLine
      <3>1. c = nodeCount
        BY <1>5, <1>15, <1>16, <2>2, BlackboardAssumption DEF One
      <3> QED
        BY <1>17, <2>2, <3>1 DEF Count
    <2> QED
      BY <2>1, <2>2
  <1>20. Counted(others)'
    BY <1>1, <1>5, <1>10, <1>12, Recounted
  <1>21. Sums64(others)'
    BY <1>14, <1>15, <1>18, <1>19 DEF Sums64
  <1>22. old.size <= totalBytes
    <2>1. PICK none \in Line : none = NoLine /\ none.size = 0
      <3>1. NoLine \in Line /\ NoLine.size = 0
        BY DEF Line, NoLine
      <3> QED
        BY <3>1
    <2>2. PICK rest : rest = [lines EXCEPT ![n] = none]
      OBVIOUS
    <2>3. /\ Bytes(rest, Filled(rest)) \in Nat /\ Bytes(lines, Filled(lines)) \in Nat
          /\ Bytes(rest, Filled(rest)) + lines[n].size = Bytes(lines, Filled(lines)) + none.size
      BY <1>1, <2>2, LineChanges DEF Counted
    <2> QED
      BY <1>1, <1>9, <1>13, <2>1, <2>3, BlackboardAssumption DEF Sums64
  <1> QED
    BY <1>2, <1>3, <1>13, <1>14, <1>18, <1>20, <1>21, <1>22 DEF CountInv

LEMMA UnlinkCounts ==
  ASSUME TypeInv, AgreeInv, BooksInv, CountInv, MemoryFits', raced = {}, leaked = {},
         NEW p \in Procs, Unlink(p)
  PROVE  CountInv' /\ totalBytes' <= totalBytes
  <1>1. PICK lines : Counted(lines) /\ Sums64(lines)
    BY DEF CountInv
  <1>2. PICK n \in Nodes : n = Now(p).node
    BY InHand DEF Unlink
  <1>3. /\ op[p].at = "unlink" /\ op[p].kind = "delete" /\ n \in Active(p) /\ op[p] \in Op
        /\ op[p].old \in FullLine
    BY <1>2, InHand, Parts DEF Unlink, CallSound
  <1>4. PICK old \in Line : old = op[p].old /\ old # NoLine /\ old.size \in 0..Wrap - 1
    BY <1>3, SizeOfLine, NoLineIsNotFull DEF Op
  <1>5. \A q \in Procs \ {p} : op'[q] = op[q]
    BY DeleteMoves
  <1>6. op'[p].at \in {"barrier", "await"}
    BY DeleteMoves
  <1>7. Out(op[p], n) /\ \A m \in Nodes : ~Out(op'[p], m) /\ (m # n => ~Out(op[p], m))
    BY <1>2, <1>3, <1>6 DEF Out, Now
  <1>8. \A q \in Procs : ~Out(op'[q], n)
    <2> SUFFICES ASSUME NEW q \in Procs \ {p}, Out(op[q], n) PROVE FALSE
      BY <1>5, <1>7
    <2>1. n \in Active(q)
      BY OnActive
    <2> QED
      BY <1>3, <2>1 DEF AgreeInv
  <1>9. lines[n] = old /\ cache[n] = NoLine /\ cache' = cache
    <2>1. lines[n] = old
      BY <1>1, <1>4, <1>7 DEF Counted, CountedAt
    <2>2. cache[n] = NoLine
      BY <1>7 DEF BooksInv, Books
    <2> QED
      BY <2>1, <2>2 DEF Unlink
  <1>10. PICK none \in Line : none = NoLine /\ none.size = 0 /\ One(none) = 0
    BY DEF Line, NoLine, One
  <1>11. PICK others : others = [lines EXCEPT ![n] = none]
    OBVIOUS
  <1>12. others[n] = none /\ \A m \in Nodes \ {n} : others[m] = lines[m]
    BY <1>1, <1>11 DEF Counted
  <1>13. \A m \in Nodes : CountedAt(others, m)'
    <2>1. CountedAt(others, n)'
      BY <1>8, <1>9, <1>10, <1>12 DEF CountedAt
    <2>2. ASSUME NEW m \in Nodes \ {n} PROVE CountedAt(others, m)'
      <3>1. CountedAt(lines, m) /\ cache'[m] = cache[m]
        BY <1>1, <1>9 DEF Counted
      <3>2. CountedAt(others, m)
        BY <1>12, <3>1 DEF CountedAt
      <3> QED
        BY <1>5, <1>7, <3>1, <3>2, CountedKept
    <2> QED
      BY <2>1, <2>2
  <1>14. PICK b \in 0..Wrap - 1 : b = Bytes(others, Filled(others)) /\ b + old.size = totalBytes + 0
    <2>1. /\ Bytes(others, Filled(others)) \in 0..Wrap - 1
          /\ Cardinality(Filled(others)) \in 0..Wrap - 1
          /\ Bytes(others, Filled(others)) + lines[n].size = totalBytes + none.size
          /\ Cardinality(Filled(others)) + One(lines[n]) = nodeCount + One(none)
      BY <1>1, <1>11, <1>13, Recounted
    <2> QED
      BY <1>9, <1>10, <2>1
  <1>15. PICK c \in 0..Wrap - 1 : c = Cardinality(Filled(others)) /\ c + One(old) = nodeCount + 0
    <2>1. /\ Bytes(others, Filled(others)) \in 0..Wrap - 1
          /\ Cardinality(Filled(others)) \in 0..Wrap - 1
          /\ Bytes(others, Filled(others)) + lines[n].size = totalBytes + none.size
          /\ Cardinality(Filled(others)) + One(lines[n]) = nodeCount + One(none)
      BY <1>1, <1>11, <1>13, Recounted
    <2> QED
      BY <1>9, <1>10, <2>1
  <1>16. totalBytes \in 0..Wrap - 1 /\ nodeCount \in 0..Wrap - 1 /\ Wrap \in Nat \ {0}
    BY Parts, BlackboardAssumption
  <1>17. totalBytes' = b
    <2>1. totalBytes + Wrap - old.size = b + Wrap
      BY <1>4, <1>14, <1>16
    <2>2. (b + Wrap) % Wrap = b
      BY SmallModulo
    <2> QED
      BY <1>4, <2>1, <2>2 DEF Unlink, Sub64
  <1>18. nodeCount' = c
    <2>1. nodeCount + Wrap - 1 = c + Wrap
      BY <1>4, <1>15, <1>16 DEF One
    <2>2. (c + Wrap) % Wrap = c
      BY SmallModulo
    <2> QED
      BY <2>1, <2>2 DEF Unlink, Sub64
  <1>19. Counted(others)'
    BY <1>1, <1>10, <1>11, <1>13, Recounted
  <1>20. Sums64(others)'
    BY <1>14, <1>15, <1>17, <1>18 DEF Sums64
  <1>21. b <= totalBytes
    BY <1>4, <1>14, <1>16
  <1> QED
    BY <1>17, <1>19, <1>20, <1>21 DEF CountInv

LEMMA CallerCount ==
  ASSUME TypeInv, AgreeInv, BooksInv, CountInv, MemoryFits', raced = {}, leaked' = {},
         NEW p \in Procs, Step(p) \/ \E c \in Calls : Begin(p, c)
  PROVE  CountInv'
  <1>1. leaked = {}
    BY BeginFrame DEF Step, Draw, Send, TimeOut, Look, Put, Uncache, Unlink, SendBarrier, Return, history
  <1>2. \A q \in Procs \ {p} : op'[q] = op[q]
    BY DrawMoves, SendMoves, TimeOutMoves, LookMoves, ItemDoneMoves, UncacheMoves,
       DeleteMoves, BeginMoves DEF Step
  <1>3. CASE Put(p)
    BY <1>1, <1>3, PutCounts
  <1>4. CASE Unlink(p)
    BY <1>1, <1>4, UnlinkCounts
  <1>5. CASE ~Put(p) /\ ~Unlink(p)
    <2>1. totalBytes' = totalBytes /\ nodeCount' = nodeCount
      BY <1>5, BeginFrame DEF Step, Draw, Send, TimeOut, Look, Uncache, SendBarrier, Return, counters
    <2>2. ASSUME NEW n \in Nodes, NEW lines, CountedAt(lines, n) PROVE CountedAt(lines, n)'
      <3>1. CASE Uncache(p) /\ cache[n] # NoLine /\ n = Now(p).node
        <4>1. /\ op[p].at = "remove" /\ op'[p].old = cache[n]
              /\ n \in Active(p)
          BY <3>1, UncacheMoves, InHand DEF Uncache
        <4>2. \A q \in Procs : ~Out(op[q], n)
          <5> SUFFICES ASSUME NEW q \in Procs, Out(op[q], n) PROVE FALSE
            OBVIOUS
          <5>1. n \in Active(q) /\ q # p
            BY <4>1, OnActive DEF Out
          <5> QED
            BY <4>1, <5>1 DEF AgreeInv
        <4>3. \A q \in Procs : Out(op'[q], n) => q = p
          BY <1>2, <4>2
        <4>4. Out(op'[p], n)
          BY <3>1, UncacheMoves DEF Out, Now
        <4> QED
          BY <2>2, <4>1, <4>2, <4>3, <4>4 DEF CountedAt
      <3>2. CASE ~(Uncache(p) /\ cache[n] # NoLine /\ n = Now(p).node)
        <4>1. cache'[n] = cache[n]
          <5>1. CASE Uncache(p)
            BY <3>2, <5>1, UncacheLine
          <5>2. CASE ~Uncache(p)
            BY <1>5, <5>2, BeginFrame DEF Step, Draw, Send, TimeOut, Look, SendBarrier, Return
          <5> QED
            BY <5>1, <5>2
        <4>2. \/ ~Out(op[p], n) /\ ~Out(op'[p], n)
              \/ Out(op[p], n) /\ Out(op'[p], n) /\ op'[p].old = op[p].old
          <5>1. CASE Draw(p)
            BY <5>1, DrawMoves DEF Out
          <5>2. CASE Send(p)
            BY <5>2, SendMoves DEF Out
          <5>3. CASE TimeOut(p)
            <6>1. op[p].kind # "delete" /\ ~Out(op'[p], n)
              BY <5>3, TimeOutMoves, FreshHandled DEF TimeOut
            <6> QED
              BY <6>1 DEF Out
          <5>4. CASE Look(p)
            BY <5>4, LookMoves DEF Out
          <5>5. CASE Return(p)
            BY <5>5, ItemDoneMoves, FreshHandled DEF Return, Out
          <5>6. CASE Uncache(p)
            <6>1. op[p].at = "remove"
              BY <5>6, UncacheMoves
            <6>2. CASE cache[Now(p).node] = NoLine
              BY <5>6, <6>1, <6>2, UncacheMoves, FreshHandled DEF Out
            <6>3. CASE cache[Now(p).node] # NoLine
              <7>1. n # Now(p).node
                BY <3>2, <5>6, <6>3
              <7>2. op'[p].todo = op[p].todo
                BY <5>6, <6>3, UncacheMoves
              <7> QED
                BY <6>1, <7>1, <7>2 DEF Out, Now
            <6> QED
              BY <6>2, <6>3
          <5>7. CASE SendBarrier(p)
            BY <5>7, DeleteMoves DEF SendBarrier, Out
          <5>8. CASE \E c \in Calls : Begin(p, c)
            BY <5>8, BeginMoves, FreshHandled DEF Out
          <5> QED
            BY <1>5, <5>1, <5>2, <5>3, <5>4, <5>5, <5>6, <5>7, <5>8 DEF Step
        <4> QED
          BY <1>2, <2>2, <4>1, <4>2, CountedKept
      <3> QED
        BY <3>1, <3>2
    <2> QED
      BY <1>1, <1>2, <2>1, <2>2, QuietCount
  <1> QED
    BY <1>3, <1>4, <1>5

LEMMA WorkCount ==
  ASSUME TypeInv, CountInv, Work \/ DropBegins \/ DropJoins, raced' = {}, leaked' = {}
  PROVE  CountInv'
  <1>1. /\ cache' = cache /\ leaked' = leaked /\ raced' = raced
        /\ totalBytes' = totalBytes /\ nodeCount' = nodeCount
    BY DEF Work, Apply, ApplyFails, AnswerBarrier, Shutdown, DropBegins, DropJoins, history, counters
  <1>2. CASE AnswerBarrier
    <2>1. PICK p \in Procs : /\ op[p].at = "await" /\ \A q \in Procs \ {p} : op'[q] = op[q]
                             /\ op'[p].at = "returned"
      BY <1>2, AnswerMoves
    <2>2. \A n \in Nodes : ~Out(op[p], n) /\ ~Out(op'[p], n)
      BY <2>1 DEF Out
    <2>3. \A n \in Nodes : \A lines : CountedAt(lines, n) => CountedAt(lines, n)'
      <3> SUFFICES ASSUME NEW n \in Nodes, NEW lines, CountedAt(lines, n) PROVE CountedAt(lines, n)'
        OBVIOUS
      <3> QED
        BY <1>1, <2>1, <2>2, CountedKept
    <2> QED
      BY <1>1, <2>1, <2>3, QuietCount
  <1>3. CASE ~AnswerBarrier
    <2>1. op' = op
      BY <1>3 DEF Work, Apply, ApplyFails, Shutdown, DropBegins, DropJoins
    <2> QED
      BY <1>1, <2>1 DEF CountInv, Counted, CountedAt, Sums64
  <1> QED
    BY <1>2, <1>3

LEMMA NextCount ==
  TypeInv /\ AgreeInv /\ BooksInv /\ CountInv /\ MemoryFits' /\ [Next]_vars => CountInv'
  <1> SUFFICES ASSUME TypeInv, AgreeInv, BooksInv, CountInv, MemoryFits', [Next]_vars,
                      raced' = {}, leaked' = {}
               PROVE  CountInv'
    BY DEF CountInv
  <1>1. CASE Next
    <2>1. raced = {}
      BY <1>1, NextRaced
    <2> QED
      BY <1>1, <2>1, CallerCount, WorkCount DEF Next
  <1>2. CASE UNCHANGED vars
    BY <1>2 DEF vars, history, counters, CountInv, Counted, CountedAt, Sums64
  <1> QED
    BY <1>1, <1>2

\* Between calls the counters are the number and the bytes of the cached nodes,
\* unless two calls for a node overlapped or a delete gave up half-way, and as long
\* as what they count stays below 2^64.
THEOREM CountersFollowCache == Spec /\ []MemoryFits => []CountersExact
<1>1. Init => TypeInv /\ AgreeInv /\ BooksInv /\ CountInv
  BY InitTypeInv, InitAgree, InitBooks, InitCount
<1>2. TypeInv /\ AgreeInv /\ BooksInv /\ CountInv /\ MemoryFits' /\ [Next]_vars
        => (TypeInv /\ AgreeInv /\ BooksInv /\ CountInv)'
  BY NextTyped, NextAgree, NextBooks, NextCount
<1>3. TypeInv /\ CountInv => CountersExact
  BY CountersFollow DEF CountersExact
<1> QED
  BY <1>1, <1>2, <1>3, PTL DEF Spec

-----------------------------------------------------------------------------
(***************************************************************************)
(* Capacity.  As long as no two calls overlap and none is cut short, what  *)
(* the items a write has left will come to is within the limit, and so is  *)
(* the total when no write runs.                                           *)
(***************************************************************************)
\* Projected, with the counter and the sizes it starts from as parameters.
Projection(base, sizes, todo) ==
  LET after[k \in 0..Len(todo)] ==
        IF k = 0 THEN [total |-> base, sizes |-> sizes]
        ELSE Staged(after[k - 1], todo[k])
  IN  after[Len(todo)].total

Runs(after, base, sizes, todo) ==
  /\ after[0] = [total |-> base, sizes |-> sizes]
  /\ \A k \in 1..Len(todo) : after[k] = Staged(after[k - 1], todo[k])

LEMMA ProjectionRuns ==
  ASSUME NEW todo, Len(todo) \in Nat, NEW base, NEW sizes
  PROVE  \E after : Runs(after, base, sizes, todo) /\ Projection(base, sizes, todo) = after[Len(todo)].total
<1> DEFINE Upto(f, top) == /\ f[0] = [total |-> base, sizes |-> sizes]
                           /\ \A k \in 1..top : f[k] = Staged(f[k - 1], todo[k])
           P == {top \in Nat : \E f : Upto(f, top)}
           Run(f) == f = [k \in 0..Len(todo) |-> IF k = 0 THEN [total |-> base, sizes |-> sizes]
                                                 ELSE Staged(f[k - 1], todo[k])]
<1>1. 0 \in P
  <2>1. PICK f : f = [k \in {0} |-> [total |-> base, sizes |-> sizes]]
    OBVIOUS
  <2>2. f[0] = [total |-> base, sizes |-> sizes]
    BY <2>1
  <2>3. Upto(f, 0)
    BY <2>2
  <2>4. QED BY <2>3
<1>2. ASSUME NEW top \in 0..Len(todo), top \in P, top < Len(todo) PROVE top + 1 \in P
  <2>1. PICK f : Upto(f, top)
    BY <1>2
  <2>2. PICK last : last = Staged(f[top], todo[top + 1])
    OBVIOUS
  <2>3. PICK h : h = [k \in 0..top + 1 |-> IF k = top + 1 THEN last ELSE f[k]]
    OBVIOUS
  <2>4. h[top + 1] = last /\ \A k \in 0..top : h[k] = f[k]
    BY <2>3
  <2>5. ASSUME NEW k \in 1..top + 1 PROVE h[k] = Staged(h[k - 1], todo[k])
    <3>1. CASE k = top + 1
      <4>1. h[k - 1] = f[top] /\ k - 1 = top
        BY <2>4, <3>1
      <4>2. QED BY <2>2, <2>4, <3>1, <4>1
    <3>2. CASE k # top + 1
      <4>1. k \in 1..top /\ k - 1 \in 0..top /\ k \in 0..top
        BY <3>2
      <4>2. h[k] = f[k] /\ h[k - 1] = f[k - 1]
        BY <2>4, <4>1
      <4>3. f[k] = Staged(f[k - 1], todo[k])
        BY <2>1, <4>1
      <4>4. QED BY <4>2, <4>3
    <3>3. QED BY <3>1, <3>2
  <2>6. h[0] = [total |-> base, sizes |-> sizes]
    BY <2>1, <2>4
  <2>7. Upto(h, top + 1)
    BY <2>5, <2>6
  <2>8. top + 1 \in Nat
    OBVIOUS
  <2> HIDE DEF Upto
  <2>9. QED BY <2>7, <2>8
<1>3. Len(todo) \in P
  <2> HIDE DEF P
  <2>1. \A k \in 0..Len(todo) : k \in P
    BY <1>1, <1>2, ReachesBound
  <2>2. QED BY <2>1
<1>4. PICK e : Upto(e, Len(todo))
  BY <1>3
<1>5. PICK g : g = [k \in 0..Len(todo) |-> e[k]]
  OBVIOUS
<1>6. \A k \in 0..Len(todo) : g[k] = IF k = 0 THEN [total |-> base, sizes |-> sizes]
                                     ELSE Staged(g[k - 1], todo[k])
  <2>1. SUFFICES ASSUME NEW k \in 0..Len(todo)
                 PROVE  g[k] = IF k = 0 THEN [total |-> base, sizes |-> sizes]
                               ELSE Staged(g[k - 1], todo[k])
    OBVIOUS
  <2>2. CASE k = 0
    BY <1>4, <1>5, <2>2
  <2>3. CASE k # 0
    <3>1. k \in 1..Len(todo) /\ k - 1 \in 0..Len(todo)
      BY <2>3
    <3>2. g[k] = e[k] /\ g[k - 1] = e[k - 1]
      BY <1>5, <3>1
    <3>3. e[k] = Staged(e[k - 1], todo[k])
      BY <1>4, <3>1
    <3>4. QED BY <2>3, <3>2, <3>3
  <2>4. QED BY <2>2, <2>3
<1>7. \E f : Run(f)
  <2>1. g = [k \in 0..Len(todo) |-> g[k]]
    BY <1>5
  <2>2. [k \in 0..Len(todo) |-> g[k]]
          = [k \in 0..Len(todo) |-> IF k = 0 THEN [total |-> base, sizes |-> sizes]
                                    ELSE Staged(g[k - 1], todo[k])]
    BY <1>6
  <2>3. Run(g)
    BY <2>1, <2>2
  <2>4. QED BY <2>3
<1>8. PICK f : Run(f) /\ Projection(base, sizes, todo) = f[Len(todo)].total
  BY <1>7, Zenon DEF Projection
<1>9. ASSUME NEW k \in 0..Len(todo)
      PROVE  f[k] = IF k = 0 THEN [total |-> base, sizes |-> sizes] ELSE Staged(f[k - 1], todo[k])
  BY <1>8
<1>10. f[0] = [total |-> base, sizes |-> sizes]
  BY <1>9
<1>11. ASSUME NEW k \in 1..Len(todo) PROVE f[k] = Staged(f[k - 1], todo[k])
  <2>1. k \in 0..Len(todo) /\ k # 0
    OBVIOUS
  <2>2. QED BY <1>9, <2>1
<1>12. Runs(f, base, sizes, todo)
  BY <1>10, <1>11 DEF Runs
<1>13. QED BY <1>8, <1>12

LEMMA ProjectionEmpty == \A base, sizes : Projection(base, sizes, <<>>) = base
<1>1. SUFFICES ASSUME NEW base, NEW sizes PROVE Projection(base, sizes, <<>>) = base
  OBVIOUS
<1>2. PICK todo : todo = <<>> /\ Len(todo) = 0
  OBVIOUS
<1>3. PICK f : Runs(f, base, sizes, todo) /\ Projection(base, sizes, todo) = f[0].total
  BY <1>2, ProjectionRuns
<1>4. f[0].total = base
  BY <1>3 DEF Runs
<1>5. QED BY <1>2, <1>3, <1>4

\* What is left comes to the same after the first item is done.
LEMMA ProjectionTail ==
  ASSUME NEW todo \in Seq(Item), todo # <<>>, NEW base, NEW sizes
  PROVE  Projection(base, sizes, todo)
           = Projection(SatSub(base, sizes[Head(todo).node]) + Head(todo).size,
                        [sizes EXCEPT ![Head(todo).node] = Head(todo).size], Tail(todo))
<1>1. PICK len \in Nat : /\ Len(todo) = len + 1 /\ Len(Tail(todo)) = len /\ Head(todo) = todo[1]
                         /\ \A k \in 1..len : Tail(todo)[k] = todo[k + 1]
  <2>1. Len(todo) \in Nat \ {0} /\ Len(Tail(todo)) = Len(todo) - 1 /\ Head(todo) = todo[1]
    OBVIOUS
  <2>2. \A k \in 1..Len(todo) - 1 : Tail(todo)[k] = todo[k + 1]
    OBVIOUS
  <2>3. Len(todo) - 1 \in Nat /\ Len(todo) = Len(todo) - 1 + 1
    BY <2>1
  <2>4. QED BY <2>1, <2>2, <2>3
<1>2. PICK rest : rest = Tail(todo)
  OBVIOUS
<1>3. PICK total : total = SatSub(base, sizes[todo[1].node]) + todo[1].size
  OBVIOUS
<1>4. PICK others : others = [sizes EXCEPT ![todo[1].node] = todo[1].size]
  OBVIOUS
<1>5. PICK f : Runs(f, base, sizes, todo) /\ Projection(base, sizes, todo) = f[len + 1].total
  <2>1. Len(todo) \in Nat
    BY <1>1
  <2>2. PICK f : Runs(f, base, sizes, todo) /\ Projection(base, sizes, todo) = f[Len(todo)].total
    BY <2>1, ProjectionRuns
  <2>3. QED BY <1>1, <2>2
<1>6. PICK g : Runs(g, total, others, rest) /\ Projection(total, others, rest) = g[len].total
  <2>1. Len(rest) \in Nat /\ Len(rest) = len
    BY <1>1, <1>2
  <2>2. PICK g : Runs(g, total, others, rest) /\ Projection(total, others, rest) = g[Len(rest)].total
    BY <2>1, ProjectionRuns
  <2>3. QED BY <2>1, <2>2
<1> DEFINE P == {k \in Nat : f[k + 1] = g[k]}
<1>7. 0 \in P
  <2>1. f[1] = Staged(f[0], todo[1])
    <3>1. 1 \in 1..Len(todo) /\ 1 - 1 = 0
      BY <1>1
    <3>2. QED BY <1>5, <3>1 DEF Runs
  <2>2. f[0] = [total |-> base, sizes |-> sizes]
    BY <1>5 DEF Runs
  <2>3. Staged([total |-> base, sizes |-> sizes], todo[1]) = [total |-> total, sizes |-> others]
    BY <1>3, <1>4 DEF Staged
  <2>4. g[0] = [total |-> total, sizes |-> others]
    BY <1>6 DEF Runs
  <2>5. f[0 + 1] = g[0]
    BY <2>1, <2>2, <2>3, <2>4
  <2>6. QED BY <2>5
<1>8. ASSUME NEW k \in 0..len, k \in P, k < len PROVE k + 1 \in P
  <2>1. k + 1 \in 1..len /\ k + 2 \in 1..len + 1 /\ k + 2 - 1 = k + 1 /\ k + 1 - 1 = k /\ k + 1 + 1 = k + 2
    BY <1>8
  <2>2. f[k + 2] = Staged(f[k + 1], todo[k + 2])
    BY <1>1, <1>5, <2>1 DEF Runs
  <2>3. g[k + 1] = Staged(g[k], rest[k + 1])
    BY <1>1, <1>2, <1>6, <2>1 DEF Runs
  <2>4. rest[k + 1] = todo[k + 2]
    BY <1>1, <1>2, <2>1
  <2>5. f[k + 1] = g[k]
    BY <1>8
  <2>6. f[k + 1 + 1] = g[k + 1]
    BY <2>1, <2>2, <2>3, <2>4, <2>5
  <2>7. QED BY <2>1, <2>6
<1>9. len \in P
  <2> HIDE DEF P
  <2>1. \A k \in 0..len : k \in P
    BY <1>7, <1>8, ReachesBound
  <2>2. QED BY <2>1
<1>10. Projection(base, sizes, todo) = Projection(total, others, rest)
  BY <1>5, <1>6, <1>9
<1>11. QED BY <1>1, <1>2, <1>3, <1>4, <1>10

Sizes == [n \in Nodes |-> cache[n].size]
Writer(o) == o.kind = "write" /\ o.at # "idle"

SoloInv ==
  /\ leaked \subseteq lapsed
  /\ ~overlapped => raced = {} /\ \A p, q \in Procs : p # q => op[p].at = "idle" \/ op[q].at = "idle"

CapacityInv ==
  MaxBytes > 0 /\ ~overlapped /\ lapsed = {} =>
    /\ \A p \in Procs : Writer(op[p]) => Projection(totalBytes, Sizes, op[p].todo) <= MaxBytes
    /\ (\A p \in Procs : ~Writer(op[p])) => totalBytes <= MaxBytes

LEMMA ProjectedIs == \A todo : Projected(todo) = Projection(totalBytes, Sizes, todo)
  BY DEF Projected, Projection, Sizes

\* The rest of a call is of its kind.
LEMMA AfterItemRest ==
  ASSUME NEW o \in Op, o.todo # <<>>
  PROVE  \/ AfterItem(o).at = "idle" /\ Tail(o.todo) = <<>>
         \/ /\ AfterItem(o).at # "idle" /\ AfterItem(o).kind = o.kind
            /\ AfterItem(o).todo = Tail(o.todo)
  <1>1. CASE Len(o.todo) = 1
    <2>1. AfterItem(o) = Idle
      BY <1>1 DEF AfterItem
    <2>2. PICK todo : todo = o.todo /\ todo \in Seq(Item)
      BY DEF Op
    <2>3. Tail(todo) = <<>>
      <3>1. Len(todo) = 1
        BY <1>1, <2>2
      <3>2. Tail(todo) \in Seq(Item) /\ Len(Tail(todo)) = 0
        BY <2>2, <3>1
      <3>3. PICK rest \in Seq(Item) : rest = Tail(todo) /\ Len(rest) = 0
        BY <3>2
      <3>4. rest = <<>>
        BY <3>3
      <3> QED
        BY <3>3, <3>4
    <2> QED
      BY <1>1, <2>1, <2>2, <2>3, IdleSound
  <1>2. CASE Len(o.todo) # 1
    <2>1. PICK at : at = IF o.kind = "write" THEN "draw" ELSE "remove"
      OBVIOUS
    <2>2. PICK todo : todo = Tail(o.todo)
      OBVIOUS
    <2>3. AfterItem(o) = [kind |-> o.kind, at |-> at, todo |-> todo, gen |-> 0,
                          old |-> NoLine, ok |-> TRUE]
      BY <1>2, <2>1, <2>2 DEF AfterItem, Idle
    <2>4. AfterItem(o).kind = o.kind /\ AfterItem(o).at = at /\ AfterItem(o).todo = todo
      BY <2>3
    <2> QED
      BY <2>1, <2>2, <2>4
  <1> QED
    BY <1>1, <1>2

LEMMA BeginKind ==
  ASSUME TypeInv, NEW p \in Procs, NEW c \in Calls, Begin(p, c)
  PROVE  op'[p].kind = c.kind /\ op'[p].todo = c.todo /\ c.kind \in {"write", "delete"}
  <1>1. PICK at : at = IF c.kind = "write" THEN "draw" ELSE "remove"
    OBVIOUS
  <1>2. PICK o : o = [Idle EXCEPT !.kind = c.kind, !.todo = c.todo, !.at = at]
    OBVIOUS
  <1>3. op' = [op EXCEPT ![p] = o]
    BY <1>1, <1>2 DEF Begin
  <1>4. o.kind = c.kind /\ o.todo = c.todo /\ c.kind \in {"write", "delete"}
    BY <1>2, IdleSound, BlackboardAssumption DEF Op
  <1> QED
    BY <1>3, <1>4, Parts

\* What a step that ends an item leaves of the call.
LEMMA ItemEnds ==
  ASSUME TypeInv, NEW p \in Procs,
         Put(p) \/ Return(p) \/ (Uncache(p) /\ cache[Now(p).node] = NoLine)
  PROVE  \/ op'[p].at = "idle" /\ Tail(op[p].todo) = <<>>
         \/ op'[p].at # "idle" /\ op'[p].kind = op[p].kind /\ op'[p].todo = Tail(op[p].todo)
  <1>1. op[p] \in Op /\ op[p].todo # <<>>
    BY InHand DEF Put, Return, Uncache
  <1>2. PICK o : o = AfterItem(op[p])
    OBVIOUS
  <1>3. op' = [op EXCEPT ![p] = o]
    BY <1>2 DEF Put, Return, Uncache
  <1>4. op'[p] = AfterItem(op[p])
    BY <1>2, <1>3, Parts
  <1> QED
    BY <1>1, <1>4, AfterItemRest

LEMMA InitCapacity == Init => SoloInv /\ CapacityInv
  <1> SUFFICES ASSUME Init PROVE SoloInv /\ CapacityInv
    OBVIOUS
  <1>1. \A p \in Procs : op[p].at = "idle"
    BY IdleSound DEF Init
  <1>2. raced = {} /\ leaked = {} /\ totalBytes = 0
    BY DEF Init
  <1>3. totalBytes <= MaxBytes
    BY <1>2, BlackboardAssumption
  <1> QED
    BY <1>1, <1>2, <1>3 DEF SoloInv, CapacityInv, Writer

LEMMA NextSolo == TypeInv /\ SoloInv /\ [Next]_vars => SoloInv'
  <1> SUFFICES ASSUME TypeInv, SoloInv, [Next]_vars PROVE SoloInv'
    OBVIOUS
  <1>1. ASSUME NEW p \in Procs, NEW c \in Calls, Begin(p, c) PROVE SoloInv'
    <2>1. leaked' = leaked /\ lapsed' = lapsed
      BY <1>1 DEF Begin
    <2>2. ASSUME ~overlapped'
          PROVE  raced' = {} /\ \A q, r \in Procs : q # r => op'[q].at = "idle" \/ op'[r].at = "idle"
      <3>1. ~overlapped /\ \A q \in Procs : op[q].at = "idle"
        BY <1>1, <2>2 DEF Begin
      <3>2. \A q \in Procs : Active(q) = {}
        <4>1. \A q \in Procs : op[q].todo = <<>>
          BY <3>1, Parts DEF CallSound
        <4>2. NodesOf(<<>>) = {}
          BY IdleSound DEF NodesOf
        <4> QED
          BY <4>1, <4>2 DEF Active
      <3>3. raced' = {}
        <4>1. raced = {}
          BY <3>1 DEF SoloInv
        <4>2. raced' = raced \union Met(c)
          BY <1>1 DEF Begin
        <4> QED
          BY <3>2, <4>1, <4>2 DEF Met
      <3>4. \A q \in Procs \ {p} : op'[q].at = "idle"
        BY <1>1, <3>1, BeginMoves
      <3> QED
        BY <3>3, <3>4
    <2> QED
      BY <2>1, <2>2 DEF SoloInv
  <1>2. ASSUME NEW p \in Procs, Step(p) PROVE SoloInv'
    <2>1. raced' = raced /\ overlapped' = overlapped
      BY <1>2 DEF Step, Draw, Send, TimeOut, Look, Put, Uncache, Unlink, SendBarrier, Return, history
    <2>2. leaked' \subseteq lapsed'
      <3>1. CASE TimeOut(p)
        BY <3>1 DEF TimeOut, SoloInv
      <3>2. CASE ~TimeOut(p)
        <4>1. leaked' = leaked /\ lapsed' = lapsed
          BY <1>2, <3>2 DEF Step, Draw, Send, Look, Put, Uncache, Unlink, SendBarrier, Return, history
        <4> QED
          BY <4>1 DEF SoloInv
      <3> QED
        BY <3>1, <3>2
    <2>3. \A q \in Procs \ {p} : op'[q] = op[q]
      BY <1>2, DrawMoves, SendMoves, TimeOutMoves, LookMoves, ItemDoneMoves, UncacheMoves,
         DeleteMoves DEF Step
    <2>4. op[p].at # "idle"
      BY <1>2 DEF Step, Draw, Send, TimeOut, Look, Put, Uncache, Unlink, SendBarrier, Return
    <2> QED
      BY <2>1, <2>2, <2>3, <2>4 DEF SoloInv
  <1>3. CASE Work \/ DropBegins \/ DropJoins
    <2>1. raced' = raced /\ overlapped' = overlapped /\ leaked' = leaked /\ lapsed \subseteq lapsed'
      BY <1>3 DEF Work, Apply, ApplyFails, AnswerBarrier, Shutdown, DropBegins, DropJoins, history
    <2>2. \A p \in Procs : op[p].at = "idle" => op'[p].at = "idle"
      <3>1. CASE AnswerBarrier
        BY <3>1, AnswerMoves
      <3>2. CASE ~AnswerBarrier
        BY <1>3, <3>2 DEF Work, Apply, ApplyFails, Shutdown, DropBegins, DropJoins
      <3> QED
        BY <3>1, <3>2
    <2> QED
      BY <2>1, <2>2 DEF SoloInv
  <1>4. CASE UNCHANGED vars
    BY <1>4 DEF vars, history, SoloInv
  <1> QED
    BY <1>1, <1>2, <1>3, <1>4 DEF Next

\* A step that leaves counter, cache and the writers' items alone.
LEMMA CapacityKept ==
  ASSUME CapacityInv, ~overlapped' => ~overlapped, lapsed \subseteq lapsed',
         totalBytes' = totalBytes, cache' = cache,
         \A p \in Procs : /\ Writer(op'[p]) <=> Writer(op[p])
                          /\ Writer(op[p]) => op'[p].todo = op[p].todo
  PROVE  CapacityInv'
  <1>1. Sizes' = Sizes
    BY DEF Sizes
  <1>2. PICK total, sizes : total = totalBytes /\ sizes = Sizes
    OBVIOUS
  <1>3. lapsed' = {} => lapsed = {}
    OBVIOUS
  <1>4. MaxBytes > 0 /\ ~overlapped' /\ lapsed' = {} =>
          /\ \A p \in Procs : Writer(op'[p]) => Projection(total, sizes, op'[p].todo) <= MaxBytes
          /\ (\A p \in Procs : ~Writer(op'[p])) => total <= MaxBytes
    BY <1>2, <1>3 DEF CapacityInv
  <1>5. totalBytes' = total /\ Sizes' = sizes
    BY <1>1, <1>2
  <1> QED
    BY <1>4, <1>5 DEF CapacityInv

\* A step after which, as before it, no write runs.
LEMMA CapacityLower ==
  ASSUME TypeInv, TypeInv', CapacityInv, ~overlapped' => ~overlapped, lapsed \subseteq lapsed',
         totalBytes' <= totalBytes,
         ~overlapped' => \A p \in Procs : ~Writer(op[p]) /\ ~Writer(op'[p])
  PROVE  CapacityInv'
  <1>1. totalBytes \in Nat /\ MaxBytes \in Nat
    BY Parts, BlackboardAssumption
  <1>2. totalBytes' \in Nat
    BY BlackboardAssumption DEF TypeInv, TypeOK
  <1>3. lapsed' = {} => lapsed = {}
    OBVIOUS
  <1>4. MaxBytes > 0 /\ ~overlapped' /\ lapsed' = {} => totalBytes <= MaxBytes
    BY <1>3 DEF CapacityInv
  <1>5. MaxBytes > 0 /\ ~overlapped' /\ lapsed' = {} => totalBytes' <= MaxBytes
    BY <1>1, <1>2, <1>4
  <1> QED
    BY <1>5 DEF CapacityInv

\* What the items left come to does not change when one is put in.
LEMMA PutCapacity ==
  ASSUME TypeInv, TypeInv', AgreeInv, BooksInv, CountInv, SoloInv, CapacityInv, MemoryFits',
         NEW p \in Procs, Put(p)
  PROVE  CapacityInv'
  <1> SUFFICES ASSUME MaxBytes > 0, ~overlapped', lapsed' = {}
               PROVE  /\ \A q \in Procs : Writer(op'[q]) => Projection(totalBytes', Sizes', op'[q].todo) <= MaxBytes
                      /\ (\A q \in Procs : ~Writer(op'[q])) => totalBytes' <= MaxBytes
    BY DEF CapacityInv
  <1>1. overlapped' = overlapped /\ lapsed' = lapsed /\ leaked' = leaked /\ op[p].at = "put"
    BY DEF Put, history
  <1>2. raced = {} /\ leaked = {} /\ \A q \in Procs \ {p} : op[q].at = "idle"
    BY <1>1 DEF SoloInv
  <1>3. PICK n, size : n = Now(p).node /\ size = Now(p).size
    OBVIOUS
  <1>4. n \in Nodes /\ size \in Nat /\ op[p].todo \in Seq(Item) /\ op[p].todo # <<>> /\ op[p].kind = "write"
    BY <1>1, <1>3, InHand, Parts, BlackboardAssumption DEF CallSound
  <1>5. PICK old \in Nat : /\ old = cache[n].size /\ old <= totalBytes
                           /\ totalBytes' + old = totalBytes + size
    <2>1. cache[n].size \in Nat
      BY <1>4, Parts, SizesTyped
    <2> QED
      BY <1>2, <1>3, <2>1, PutCounts
  <1>6. totalBytes \in Nat /\ totalBytes' \in Nat
    BY BlackboardAssumption DEF TypeInv, TypeOK
  <1>7. PICK total, sizes, todo : total = totalBytes /\ sizes = Sizes /\ todo = op[p].todo
    OBVIOUS
  <1>8. sizes[n] = old
    BY <1>4, <1>5, <1>7 DEF Sizes
  <1>9. totalBytes' = SatSub(total, sizes[n]) + size
    <2>1. PICK after \in Nat : after = totalBytes' /\ total \in Nat /\ old <= total /\ after + old = total + size
      BY <1>5, <1>6, <1>7
    <2>2. SatSub(total, old) = total - old
      BY <2>1 DEF SatSub
    <2>3. after = total - old + size
      BY <1>4, <1>5, <2>1
    <2> QED
      BY <1>8, <2>1, <2>2, <2>3
  <1>10. Sizes' = [sizes EXCEPT ![n] = size]
    <2>1. PICK line \in Line : cache' = [cache EXCEPT ![n] = line] /\ line.size = size
      BY <1>3, PutWhole
    <2>2. \A m \in Nodes : cache'[m].size = IF m = n THEN size ELSE cache[m].size
      BY <1>4, <2>1, Parts
    <2>3. Sizes' = [m \in Nodes |-> IF m = n THEN size ELSE cache[m].size]
      BY <2>2 DEF Sizes
    <2> QED
      BY <1>7, <2>3 DEF Sizes
  <1>11. Projection(total, sizes, todo) <= MaxBytes
    <2>1. Writer(op[p])
      BY <1>1, <1>4 DEF Writer
    <2> QED
      BY <1>1, <1>7, <2>1 DEF CapacityInv
  <1>12. Projection(totalBytes', Sizes', Tail(todo)) <= MaxBytes
    <2>1. PICK after, others : after = SatSub(total, sizes[n]) + size /\ others = [sizes EXCEPT ![n] = size]
      OBVIOUS
    <2>2. Head(todo).node = n /\ Head(todo).size = size
      BY <1>3, <1>7 DEF Now
    <2>3. Projection(total, sizes, todo) = Projection(after, others, Tail(todo))
      BY <1>4, <1>7, <2>1, <2>2, ProjectionTail
    <2> QED
      BY <1>9, <1>10, <1>11, <2>1, <2>3
  <1>13. \A q \in Procs \ {p} : ~Writer(op'[q])
    BY <1>2, ItemDoneMoves DEF Writer
  <1>14. CASE op'[p].at = "idle" /\ Tail(todo) = <<>>
    <2>1. PICK after : after = totalBytes' /\ after <= MaxBytes
      BY <1>12, <1>14, ProjectionEmpty
    <2> QED
      BY <1>13, <1>14, <2>1 DEF Writer
  <1>15. CASE op'[p].at # "idle" /\ op'[p].kind = op[p].kind /\ op'[p].todo = Tail(todo)
    <2>1. Writer(op'[p])
      BY <1>4, <1>15 DEF Writer
    <2> QED
      BY <1>12, <1>13, <1>15, <2>1
  <1> QED
    BY <1>7, <1>14, <1>15, ItemEnds

LEMMA BeginCapacity ==
  ASSUME TypeInv, CapacityInv, NEW p \in Procs, NEW c \in Calls, Begin(p, c)
  PROVE  CapacityInv'
  <1> SUFFICES ASSUME MaxBytes > 0, ~overlapped', lapsed' = {}
               PROVE  /\ \A q \in Procs : Writer(op'[q]) => Projection(totalBytes', Sizes', op'[q].todo) <= MaxBytes
                      /\ (\A q \in Procs : ~Writer(op'[q])) => totalBytes' <= MaxBytes
    BY DEF CapacityInv
  <1>1. /\ lapsed' = lapsed /\ totalBytes' = totalBytes /\ cache' = cache
        /\ ~overlapped /\ \A q \in Procs : op[q].at = "idle"
    BY DEF Begin, counters
  <1>2. totalBytes <= MaxBytes
    BY <1>1 DEF CapacityInv, Writer
  <1>3. \A q \in Procs \ {p} : ~Writer(op'[q])
    BY <1>1, BeginMoves DEF Writer
  <1>4. ASSUME Writer(op'[p]) PROVE Projection(totalBytes', Sizes', op'[p].todo) <= MaxBytes
    <2>1. c.kind = "write" /\ op'[p].todo = c.todo
      BY <1>4, BeginKind DEF Writer
    <2>2. Projected(c.todo) <= MaxBytes
      BY <2>1, BlackboardAssumption DEF Begin, HasCapacity
    <2>3. PICK total, sizes : total = totalBytes /\ sizes = Sizes
      OBVIOUS
    <2>4. Projection(total, sizes, c.todo) <= MaxBytes
      BY <2>2, <2>3, ProjectedIs
    <2>5. totalBytes' = total /\ Sizes' = sizes
      BY <1>1, <2>3 DEF Sizes
    <2> QED
      BY <2>1, <2>4, <2>5
  <1> QED
    BY <1>1, <1>2, <1>3, <1>4

LEMMA StepCapacity ==
  ASSUME TypeInv, TypeInv', AgreeInv, BooksInv, CountInv, SoloInv, CapacityInv, MemoryFits',
         NEW p \in Procs, Step(p)
  PROVE  CapacityInv'
  <1>1. overlapped' = overlapped /\ lapsed \subseteq lapsed' /\ op[p].at # "idle"
    BY DEF Step, Draw, Send, TimeOut, Look, Put, Uncache, Unlink, SendBarrier, Return, history
  <1>2. \A q \in Procs \ {p} : op'[q] = op[q]
    BY DrawMoves, SendMoves, TimeOutMoves, LookMoves, ItemDoneMoves, UncacheMoves,
       DeleteMoves DEF Step
  <1>3. ~overlapped' => \A q \in Procs \ {p} : op[q].at = "idle" /\ ~Writer(op[q]) /\ ~Writer(op'[q])
    BY <1>1, <1>2 DEF SoloInv, Writer
  <1>4. CASE Put(p)
    BY <1>4, PutCapacity
  <1>5. CASE TimeOut(p)
    <2>1. lapsed' # {}
      BY <1>5 DEF TimeOut
    <2> QED
      BY <2>1 DEF CapacityInv
  <1>6. CASE Draw(p) \/ Send(p) \/ Look(p)
    <2>1. totalBytes' = totalBytes /\ cache' = cache
      BY <1>6 DEF Draw, Send, Look, counters
    <2>2. op'[p].kind = op[p].kind /\ op'[p].at # "idle" /\ op'[p].todo = op[p].todo
      BY <1>6, DrawMoves, SendMoves, LookMoves
    <2>3. \A q \in Procs : /\ Writer(op'[q]) <=> Writer(op[q])
                           /\ Writer(op[q]) => op'[q].todo = op[q].todo
      BY <1>1, <1>2, <2>2 DEF Writer
    <2> QED
      BY <1>1, <2>1, <2>3, CapacityKept
  <1>7. CASE Uncache(p) \/ SendBarrier(p) \/ Return(p)
    <2>1. totalBytes' = totalBytes
      BY <1>7 DEF Uncache, SendBarrier, Return, counters
    <2>2. op[p].kind = "delete"
      BY <1>7, Parts DEF Uncache, SendBarrier, Return, CallSound
    <2>3. op'[p].kind = op[p].kind \/ op'[p].at = "idle"
      <3>1. CASE Uncache(p)
        BY <3>1, <2>2, UncacheMoves, ItemEnds
      <3>2. CASE SendBarrier(p)
        BY <3>2, DeleteMoves
      <3>3. CASE Return(p)
        BY <3>3, ItemEnds
      <3> QED
        BY <1>7, <3>1, <3>2, <3>3
    <2>4. ~Writer(op[p]) /\ ~Writer(op'[p])
      BY <2>2, <2>3 DEF Writer
    <2>5. totalBytes' <= totalBytes
      <3>1. totalBytes \in Nat
        BY Parts, BlackboardAssumption
      <3> QED
        BY <2>1, <3>1
    <2> QED
      BY <1>1, <1>3, <2>4, <2>5, CapacityLower
  <1>8. CASE Unlink(p)
    <2>1. op[p].kind = "delete" /\ op'[p].kind = op[p].kind
      BY <1>8, Parts, DeleteMoves DEF Unlink, CallSound
    <2>2. ~Writer(op[p]) /\ ~Writer(op'[p])
      BY <2>1 DEF Writer
    <2>3. CASE ~overlapped' /\ lapsed' = {}
      <3>1. raced = {} /\ leaked = {}
        BY <1>1, <2>3 DEF SoloInv
      <3>2. totalBytes' <= totalBytes
        BY <1>8, <3>1, UnlinkCounts
      <3> QED
        BY <1>1, <1>3, <2>2, <3>2, CapacityLower
    <2>4. CASE ~(~overlapped' /\ lapsed' = {})
      BY <2>4 DEF CapacityInv
    <2> QED
      BY <2>3, <2>4
  <1> QED
    BY <1>4, <1>5, <1>6, <1>7, <1>8 DEF Step

LEMMA WorkCapacity ==
  ASSUME TypeInv, CapacityInv, Work \/ DropBegins \/ DropJoins
  PROVE  CapacityInv'
  <1>1. /\ cache' = cache /\ totalBytes' = totalBytes
        /\ overlapped' = overlapped /\ lapsed \subseteq lapsed'
    BY DEF Work, Apply, ApplyFails, AnswerBarrier, Shutdown, DropBegins, DropJoins, history, counters
  <1>2. \A p \in Procs : /\ Writer(op'[p]) <=> Writer(op[p])
                         /\ Writer(op[p]) => op'[p].todo = op[p].todo
    <2>1. CASE AnswerBarrier
      BY <2>1, AnswerMoves DEF Writer
    <2>2. CASE ~AnswerBarrier
      BY <2>2 DEF Work, Apply, ApplyFails, Shutdown, DropBegins, DropJoins
    <2> QED
      BY <2>1, <2>2
  <1> QED
    BY <1>1, <1>2, CapacityKept

LEMMA NextCapacity ==
  /\ TypeInv /\ TypeInv' /\ AgreeInv /\ BooksInv /\ CountInv /\ SoloInv /\ CapacityInv /\ MemoryFits'
  /\ [Next]_vars
  => CapacityInv'
  <1> SUFFICES ASSUME TypeInv, TypeInv', AgreeInv, BooksInv, CountInv, SoloInv, CapacityInv,
                      MemoryFits', [Next]_vars
               PROVE  CapacityInv'
    OBVIOUS
  <1>1. CASE Next
    BY <1>1, BeginCapacity, StepCapacity, WorkCapacity DEF Next
  <1>2. CASE UNCHANGED vars
    <2>1. /\ totalBytes' = totalBytes /\ cache' = cache /\ op' = op
          /\ overlapped' = overlapped /\ lapsed' = lapsed
      BY <1>2 DEF vars, history, counters
    <2> QED
      BY <2>1, CapacityKept
  <1> QED
    BY <1>1, <1>2

\* The bookkeeping beside the cache is right: counters and index as above, and
\* between calls the total is within the configured capacity, if no call overlapped
\* another and none was cut short.
THEOREM BookkeepingIsExact == Spec /\ []MemoryFits => []BookkeepingExact
<1> DEFINE Books64 == TypeInv /\ AgreeInv /\ BooksInv /\ CountInv /\ SoloInv /\ CapacityInv
<1>1. Init => Books64
  BY InitTypeInv, InitAgree, InitBooks, InitCount, InitCapacity
<1>2. Books64 /\ MemoryFits' /\ [Next]_vars => Books64'
  BY NextTyped, NextAgree, NextBooks, NextCount, NextSolo, NextCapacity
<1>3. Books64 => BookkeepingExact
  <2> SUFFICES ASSUME Books64 PROVE BookkeepingExact
    OBVIOUS
  <2>1. CountersExact
    BY CountersFollow DEF CountersExact
  <2>2. IndexExact
    BY BooksIndex
  <2>3. CapacityHeld
    BY DEF CapacityHeld, CapacityInv, Writer
  <2> QED
    BY <2>1, <2>2, <2>3 DEF BookkeepingExact
<1> HIDE DEF Books64
<1> QED
  BY <1>1, <1>2, <1>3, PTL DEF Spec
=============================================================================
