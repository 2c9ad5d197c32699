--------------------------------- MODULE Hmap ---------------------------------
(***************************************************************************)
(* The hash table of lib/hmap.c and hmap.h, at the level of its pointers:  *)
(* an array of chains that starts as the one bucket inside struct hmap and *)
(* is replaced by a larger one from the heap as the table fills.  compact.c*)
(* walks it with HMAP_FOR_EACH_SAFE and removes nodes on the way, under    *)
(* the lock of the table, so that nothing else happens during a walk.      *)
(*                                                                         *)
(* A memory M holds the struct hmap objects (the table, and tmp while      *)
(* resize runs), the arrays, and the nodes.  The array inside a struct     *)
(* goes by the name of the struct.                                         *)
(***************************************************************************)
EXTENDS Integers, FiniteSets

CONSTANTS
  HmapNodes, NULL,
  Arrays,                   \* bound: arrays that malloc can return
  HashOf                    \* the hash value of each node's key

Hashes == {HashOf[x] : x \in HmapNodes}

ASSUME HmapAssumption ==
  /\ IsFiniteSet(HmapNodes) /\ NULL \notin HmapNodes /\ HashOf \in [HmapNodes -> Nat]
  /\ Arrays \cap {"hmap", "tmp", "none"} = {} /\ \E a, b \in Arrays : a # b

VARIABLES
  mem,                      \* memory
  members,                  \* history: what was inserted and not removed
  iter, nxt,                \* the iterators of a walk; NULL outside it
  walked,                   \* the nodes that the walk has visited
  due                       \* the nodes that were there when it started

tableVars == <<mem, members, iter, nxt, walked, due>>

Freed == [i \in {} |-> NULL]   \* an array that is not allocated

Slot(M, s, h) == h % (M.mask[s] + 1)

Bucket(M, s, i) == M.array[M.buckets[s]][i]

-----------------------------------------------------------------------------
(* The functions that change a table. *)

HmapInit(M, s) ==
  [M EXCEPT !.buckets[s] = s, !.array[s] = [i \in {0} |-> NULL],
            !.mask[s] = 0, !.n[s] = 0]

HmapInsertFast(M, s, node, h) ==
  LET i == Slot(M, s, h)
  IN [M EXCEPT !.hash[node] = h,
               !.next[node] = Bucket(M, s, i),
               !.array[M.buckets[s]][i] = node,
               !.n[s] = @ + 1]

\* The struct was copied: a table of one bucket has it inside its struct.
HmapMoved(M, s) == IF M.mask[s] = 0 THEN [M EXCEPT !.buckets[s] = s] ELSE M

\* The structs change places, each with the bucket inside it.
HmapSwap(M, a, b) ==
  LET S == [M EXCEPT !.buckets[a] = M.buckets[b], !.buckets[b] = M.buckets[a],
                     !.array[a] = M.array[b], !.array[b] = M.array[a],
                     !.mask[a] = M.mask[b], !.mask[b] = M.mask[a],
                     !.n[a] = M.n[b], !.n[b] = M.n[a]]
  IN HmapMoved(HmapMoved(S, a), b)

HmapDestroy(M, s) ==
  IF M.buckets[s] = s THEN M ELSE [M EXCEPT !.array[M.buckets[s]] = Freed]

\* calc_mask: all ones from the highest bit of half the capacity down, and two
\* bits at least.
CalcMask(capacity) ==
  LET half == capacity \div 2
      ones[b \in 0..(half + 2)] == IF b = 0 THEN 0 ELSE 2 * ones[b - 1] + 1
      enough == {b \in 2..(half + 2) : half <= ones[b]}
  IN IF half = 0 THEN 0 ELSE ones[CHOOSE b \in enough : \A c \in enough : b <= c]

\* hmap_next__: the first node in the buckets from start on.
FirstFrom(M, s, start) ==
  LET full == {i \in start..M.mask[s] : Bucket(M, s, i) # NULL}
  IN IF full = {} THEN NULL
     ELSE Bucket(M, s, CHOOSE i \in full : \A j \in full : i <= j)

HmapFirst(M, s) == FirstFrom(M, s, 0)

\* Mutation of HmapNext: the bucket is visited again.
HmapNextSameBucket(M, s, node) ==
  IF M.next[node] # NULL THEN M.next[node]
  ELSE FirstFrom(M, s, Slot(M, s, M.hash[node]))

HmapNext(M, s, node) ==
  IF M.next[node] # NULL THEN M.next[node]
  ELSE FirstFrom(M, s, Slot(M, s, M.hash[node]) + 1)

\* One turn of resize's loops, which go through the table as HmapNext does: the
\* node is put into tmp, after its next was read.
Move(r) ==
  IF r.node = NULL THEN r
  ELSE [node |-> HmapNext(r.mem, "hmap", r.node),
        mem |-> HmapInsertFast(r.mem, "tmp", r.node, r.mem.hash[r.node])]

\* resize: every node of the table, chain by chain, into a new array.
Resize(M, newMask) ==
  LET a == CHOOSE a \in Arrays : M.array[a] = Freed
      tmp == [HmapInit(M, "tmp") EXCEPT
                !.buckets["tmp"] = a, !.mask["tmp"] = newMask,
                !.array[a] = [i \in 0..newMask |-> NULL]]
      after[k \in 0..Cardinality(HmapNodes)] ==
        IF k = 0 THEN [node |-> HmapFirst(M, "hmap"), mem |-> tmp] ELSE Move(after[k - 1])
  IN HmapDestroy(HmapSwap(after[Cardinality(HmapNodes)].mem, "hmap", "tmp"), "tmp")

HmapExpand(M) ==
  LET newMask == CalcMask(M.n["hmap"])
  IN IF newMask > M.mask["hmap"] THEN Resize(M, newMask) ELSE M

HmapInsert(M, node, h) ==
  LET I == HmapInsertFast(M, "hmap", node, h)
  IN IF I.n["hmap"] \div 2 > I.mask["hmap"] THEN HmapExpand(I) ELSE I

\* The pointer that leads to node in its chain: a bucket or a next field.
Unlink(M, node, to) ==
  LET i == Slot(M, "hmap", M.hash[node])
      before == {x \in HmapNodes : M.next[x] = node}
  IN IF Bucket(M, "hmap", i) = node
     THEN [M EXCEPT !.array[M.buckets["hmap"]][i] = to]
     ELSE [M EXCEPT !.next[CHOOSE x \in before : TRUE] = to]

\* Mutation of HmapRemove: the node is taken for the first of its bucket.
HmapRemoveFirst(M, node) ==
  LET i == Slot(M, "hmap", M.hash[node])
  IN [M EXCEPT !.array[M.buckets["hmap"]][i] = M.next[node],
               !.n["hmap"] = @ - 1]

HmapRemove(M, node) == [Unlink(M, node, M.next[node]) EXCEPT !.n["hmap"] = @ - 1]

HmapReplace(M, old, new) ==
  [Unlink(M, old, new) EXCEPT !.hash[new] = M.hash[old], !.next[new] = M.next[old]]

-----------------------------------------------------------------------------
(* Lookup: HMAP_FOR_EACH_WITH_HASH. *)

\* The chain from node on; NULL after its end.
Chain(M, node) ==
  LET at[k \in 0..Cardinality(HmapNodes)] ==
        IF k = 0 THEN node
        ELSE IF at[k - 1] = NULL THEN NULL ELSE M.next[at[k - 1]]
  IN at

\* hmap_first_with_hash and hmap_next_with_hash go along one chain.
WithHash(M, h) == Chain(M, Bucket(M, "hmap", Slot(M, "hmap", h)))

-----------------------------------------------------------------------------
TableInit ==
  /\ mem = HmapInit([buckets |-> [s \in {"hmap", "tmp"} |-> "none"],
                     array |-> [a \in Arrays \cup {"hmap", "tmp", "none"} |-> Freed],
                     mask |-> [s \in {"hmap", "tmp"} |-> 0],
                     n |-> [s \in {"hmap", "tmp"} |-> 0],
                     hash |-> [x \in HmapNodes |-> 0],
                     next |-> [x \in HmapNodes |-> NULL]], "hmap")
  /\ members = {}
  /\ iter = NULL /\ nxt = NULL
  /\ walked = {} /\ due = {}

\* free: the fields of the node mean nothing any more.
FreeNode(M, node) == [M EXCEPT !.next[node] = NULL, !.hash[node] = 0]

\* tmp is a local variable of resize.
LeaveResize(M) ==
  [M EXCEPT !.buckets["tmp"] = "none", !.array["tmp"] = Freed,
            !.mask["tmp"] = 0, !.n["tmp"] = 0]

TableInsert(node) ==
  /\ iter = NULL /\ node \notin members
  /\ mem' = LeaveResize(HmapInsert(mem, node, HashOf[node]))
  /\ members' = members \cup {node}
  /\ UNCHANGED <<iter, nxt, walked, due>>

TableReplace(old, new) ==
  /\ iter = NULL /\ old \in members /\ new \notin members
  /\ HashOf[old] = HashOf[new]
  /\ mem' = FreeNode(HmapReplace(mem, old, new), old)
  /\ members' = (members \ {old}) \cup {new}
  /\ UNCHANGED <<iter, nxt, walked, due>>

At(node, M) ==
  /\ iter' = node
  /\ nxt' = IF node = NULL THEN NULL ELSE HmapNext(M, "hmap", node)

WalkStart ==
  /\ iter = NULL /\ HmapFirst(mem, "hmap") # NULL
  /\ At(HmapFirst(mem, "hmap"), mem)
  /\ walked' = {} /\ due' = members
  /\ UNCHANGED <<mem, members>>

\* The next node, or the end of the walk.
Advance(M) ==
  /\ iter # NULL
  /\ IF nxt = NULL THEN walked' = {} /\ due' = {}
     ELSE walked' = walked \cup {iter} /\ UNCHANGED due
  /\ At(nxt, M)

\* The node has not timed out.
WalkKeep == Advance(mem) /\ UNCHANGED <<mem, members>>

\* The node has timed out: hmap_remove, free.
WalkRemove ==
  /\ iter # NULL
  /\ mem' = FreeNode(HmapRemove(mem, iter), iter)
  /\ members' = members \ {iter}
  /\ Advance(mem')

TableNext ==
  \/ \E node \in HmapNodes : TableInsert(node)
  \/ \E old, new \in HmapNodes : TableReplace(old, new)
  \/ WalkStart \/ WalkKeep \/ WalkRemove

TableSpec == TableInit /\ [][TableNext]_tableVars

-----------------------------------------------------------------------------
\* A lookup finds exactly the nodes that were inserted with that hash value and
\* not removed, each once, and ends, whatever growing and removals did to the
\* chains.
LookupComplete ==
  \A h \in Hashes :
    LET chain == WithHash(mem, h)
        found == {k \in DOMAIN chain : chain[k] # NULL /\ mem.hash[chain[k]] = h}
    IN /\ {chain[k] : k \in found} = {x \in members : HashOf[x] = h}
       /\ \A j, k \in found : chain[j] = chain[k] => j = k
       /\ chain[Cardinality(HmapNodes)] = NULL

\* The table grows as it fills: at most two nodes for each bucket and one more.
\* No array leaks, is used after it was freed, or belongs to resize, and free
\* is called for no bucket inside a struct.
TableSound ==
  /\ mem.n["hmap"] = Cardinality(members)
  /\ mem.n["hmap"] \div 2 <= mem.mask["hmap"]
  /\ {a \in Arrays : mem.array[a] # Freed} = Arrays \cap {mem.buckets["hmap"]}
  /\ mem.buckets["hmap"] \in Arrays \cup {"hmap"} /\ mem.array["hmap"] # Freed

\* timer_event, which removes nodes as it goes, never stands at a node that it
\* has visited or freed, and when it ends it has visited all.
WalkComplete ==
  iter # NULL =>
    /\ iter \in members /\ iter \in due \ walked
    /\ nxt = NULL => walked \cup {iter} = due

\* Growing, insertions and removals keep the chains and the arrays in order.
TableComplete == LookupComplete /\ TableSound
=============================================================================
