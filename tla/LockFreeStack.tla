--------------------------- MODULE LockFreeStack ---------------------------
(***************************************************************************)
(* class LockFreeStack and its workers (src/lock-free-hft/                *)
(* lock_free_queue.cpp): a Treiber stack of heap nodes.  Memory is a set  *)
(* of addresses; new may return any address not in use, including one    *)
(* that delete has just freed, as malloc does.  Each atomic load and      *)
(* compare_exchange_weak of head_ is a step, and so is every plain read   *)
(* or write of a node.  A read of a node that has been deleted is         *)
(* undefined behaviour: it may yield any address (the memory may hold     *)
(* allocator data or a new node).                                          *)
(***************************************************************************)
EXTENDS Naturals, Sequences, FiniteSets

CONSTANTS
  Threads,   \* worker ids
  Ops,       \* OPERATIONS_PER_THREAD
  Addrs,     \* heap addresses new can return
  Null       \* nullptr

VARIABLES
  head,      \* head_
  node,      \* node[a]: the Node at address a, [data, next]
  live,      \* addresses allocated and not yet deleted
  pc,        \* pc[t]: where worker t is
  i,         \* i[t]: the loop counter of worker t
  oldHead,   \* oldHead[t]: the local old_head of push or pop
  newNode,   \* newNode[t]: the local new_node of push
  next       \* next[t]: the value pop read from old_head->next

vars == <<head, node, live, pc, i, oldHead, newNode, next>>

Value(t, n) == n * t
Ptr == Addrs \cup {Null}

Start(n) == IF n >= Ops THEN "done" ELSE IF n % 2 = 0 THEN "alloc" ELSE "pload"

Init ==
  /\ head = Null
  /\ node = [a \in Addrs |-> [data |-> 0, next |-> Null]]
  /\ live = {}
  /\ pc = [t \in Threads |-> Start(0)]
  /\ i = [t \in Threads |-> 0]
  /\ oldHead = [t \in Threads |-> Null]
  /\ newNode = [t \in Threads |-> Null]
  /\ next = [t \in Threads |-> Null]

\* the operation returns and the for loop goes on with ++i
Return(t) ==
  /\ i' = [i EXCEPT ![t] = @ + 1]
  /\ pc' = [pc EXCEPT ![t] = Start(i[t] + 1)]

(* push(value) *)
\* Node* new_node = new Node(value): any free address
Alloc(t) ==
  /\ pc[t] = "alloc"
  /\ \E a \in Addrs \ live :
       /\ live' = live \cup {a}
       /\ node' = [node EXCEPT ![a] = [data |-> Value(t, i[t]), next |-> Null]]
       /\ newNode' = [newNode EXCEPT ![t] = a]
  /\ pc' = [pc EXCEPT ![t] = "load"]
  /\ UNCHANGED <<head, i, oldHead, next>>

\* Node* old_head = head_.load(relaxed)
Load(t) ==
  /\ pc[t] = "load"
  /\ oldHead' = [oldHead EXCEPT ![t] = head]
  /\ pc' = [pc EXCEPT ![t] = "link"]
  /\ UNCHANGED <<head, node, live, i, newNode, next>>

\* new_node->next = old_head
Link(t) ==
  /\ pc[t] = "link"
  /\ node' = [node EXCEPT ![newNode[t]].next = oldHead[t]]
  /\ pc' = [pc EXCEPT ![t] = "cas"]
  /\ UNCHANGED <<head, live, i, oldHead, newNode, next>>

\* compare_exchange_weak(old_head, new_node): on failure (also spurious)
\* old_head is reloaded and the loop links again
PushCas(t) ==
  /\ pc[t] = "cas"
  /\ \/ /\ head = oldHead[t]
        /\ head' = newNode[t]
        /\ Return(t)
        /\ UNCHANGED oldHead
     \/ /\ oldHead' = [oldHead EXCEPT ![t] = head]
        /\ pc' = [pc EXCEPT ![t] = "link"]
        /\ UNCHANGED <<head, i>>
  /\ UNCHANGED <<node, live, newNode, next>>

(* pop(value) *)
\* Node* old_head = head_.load(relaxed)
PopLoad(t) ==
  /\ pc[t] = "pload"
  /\ oldHead' = [oldHead EXCEPT ![t] = head]
  /\ pc' = [pc EXCEPT ![t] = "ptest"]
  /\ UNCHANGED <<head, node, live, i, newNode, next>>

\* while (old_head != nullptr) ... return false
PopTest(t) ==
  /\ pc[t] = "ptest"
  /\ IF oldHead[t] = Null
     THEN Return(t)
     ELSE /\ pc' = [pc EXCEPT ![t] = "next"]
          /\ UNCHANGED i
  /\ UNCHANGED <<head, node, live, oldHead, newNode, next>>

\* the argument old_head->next: a plain read, of freed memory if another
\* thread has deleted old_head meanwhile
ReadNext(t) ==
  /\ pc[t] = "next"
  /\ IF oldHead[t] \in live
     THEN next' = [next EXCEPT ![t] = node[oldHead[t]].next]
     ELSE \E p \in Ptr : next' = [next EXCEPT ![t] = p]
  /\ pc' = [pc EXCEPT ![t] = "pcas"]
  /\ UNCHANGED <<head, node, live, i, oldHead, newNode>>

\* compare_exchange_weak(old_head, old_head->next): on success
\* value = old_head->data and delete old_head follow; on failure
\* old_head is reloaded and the while test runs again
PopCas(t) ==
  /\ pc[t] = "pcas"
  /\ \/ /\ head = oldHead[t]
        /\ head' = next[t]
        /\ pc' = [pc EXCEPT ![t] = "free"]
        /\ UNCHANGED oldHead
     \/ /\ oldHead' = [oldHead EXCEPT ![t] = head]
        /\ pc' = [pc EXCEPT ![t] = "ptest"]
        /\ UNCHANGED head
  /\ UNCHANGED <<node, live, i, newNode, next>>

\* value = old_head->data; delete old_head; return true
Free(t) ==
  /\ pc[t] = "free"
  /\ live' = live \ {oldHead[t]}
  /\ Return(t)
  /\ UNCHANGED <<head, node, oldHead, newNode, next>>

Worker(t) ==
  \/ Alloc(t) \/ Load(t) \/ Link(t) \/ PushCas(t)
  \/ PopLoad(t) \/ PopTest(t) \/ ReadNext(t) \/ PopCas(t) \/ Free(t)

Next == \E t \in Threads : Worker(t)

Spec == Init /\ [][Next]_vars

-----------------------------------------------------------------------------
TypeOK ==
  /\ head \in Ptr /\ live \subseteq Addrs
  /\ node \in [Addrs -> [data : Nat, next : Ptr]]
  /\ pc \in [Threads -> {"alloc", "load", "link", "cas", "pload", "ptest",
                         "next", "pcas", "free", "done"}]
  /\ i \in [Threads -> 0..Ops]
  /\ oldHead \in [Threads -> Ptr] /\ newNode \in [Threads -> Ptr]
  /\ next \in [Threads -> Ptr]

\* the nodes reachable from head_ through next pointers
RECURSIVE Chain(_, _)
Chain(p, k) == IF p = Null \/ k = 0 THEN {} ELSE {p} \cup Chain(node[p].next, k - 1)

(* The stack never links an unallocated node: every node reachable from *)
(* head_ is allocated.  A pop whose old_head another pop has deleted     *)
(* reads old_head->next from freed memory, which may hold any pointer;   *)
(* if a push gets old_head's address back from new before the CAS, the  *)
(* CAS succeeds (ABA) and installs that value as head_.                  *)
ReachableLive == Chain(head, 1 + Cardinality(Addrs)) \subseteq live
=============================================================================
