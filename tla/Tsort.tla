-------------------------------- MODULE Tsort --------------------------------
(***************************************************************************)
(* tsort, and the hash table it and other tools keep their names in.       *)
(***************************************************************************)
EXTENDS Naturals, SequencesExt, FiniteSets

-----------------------------------------------------------------------------
(* tsort (third_party/openbsd/usr.bin/tsort/tsort.c): names are read in      *)
(* pairs, nodes nobody points at are printed, and what is left is broken one *)
(* cycle at a time.  A node's arcs are the list insert_arc made; traverse    *)
(* is the arc a search of cycles stopped at, and outlives the search.        *)

CONSTANTS NodesInTable,   \* the names, in the order of the hash table
          Inputs,         \* [names, hints]: the words of the pairs and of the hints file
          NO_ORDER

VARIABLES phase,          \* "read", "split", "sort", "done", or an error
          flag,           \* [hints, first, long, reverse]: -h, -f, -l, -r
          input,
          arcs, refs, order,
          traverse,       \* per node: which of its arcs, 0 for none
          aux,            \* unreferenced nodes: a stack, or with hints a heap
          remaining,      \* the nodes that were referenced at first
          out, cycle,
          cut             \* the nodes at which a cycle was broken

tsortVars == <<phase, flag, input, arcs, refs, order, traverse, aux, remaining, out, cycle, cut>>

Names == ToSet(NodesInTable)
None == "none"

(* Mutant: without looking for the arc first.                                *)
InsertArcAnyway(g, a, b) ==
  [g EXCEPT !.refs[b] = @ + 1, !.arcs[a] = <<b>> \o @]

(* insert_arc: at the head of the list, once.                                *)
InsertArc(g, a, b) ==
  IF \E k \in DOMAIN g.arcs[a] : g.arcs[a][k] = b THEN g
  ELSE [g EXCEPT !.refs[b] = @ + 1, !.arcs[a] = <<b>> \o @]

(* read_hints: the first mention of a name counts.                           *)
Hinted(g, name) ==
  IF g.order[name] = NO_ORDER THEN [g EXCEPT !.order[name] = g.next, !.next = @ + 1] ELSE g

RECURSIVE ReadHints(_, _)
ReadHints(g, hints) == IF hints = <<>> THEN g ELSE ReadHints(Hinted(g, Head(hints)), Tail(hints))

(* read_pairs: the first of a pair is ordered with -f.                       *)
RECURSIVE ReadFrom(_, _)
ReadFrom(g, names) ==
  IF Len(names) < 2 THEN g
  ELSE LET a == names[1]
           b == names[2]
           h == IF flag.first THEN Hinted(g, a) ELSE g
       IN  ReadFrom(IF a = b THEN h ELSE IF flag.reverse THEN InsertArc(h, b, a) ELSE InsertArc(h, a, b),
                    SubSeq(names, 3, Len(names)))

ReadPairs ==
  /\ phase = "read"
  /\ LET empty == [refs |-> refs, arcs |-> arcs, order |-> order, next |-> 0]
         g == ReadFrom(IF flag.hints THEN ReadHints(empty, input.hints) ELSE empty, input.names)
     IN  arcs' = g.arcs /\ refs' = g.refs /\ order' = g.order
  /\ phase' = IF Len(input.names) % 2 = 1 THEN "odd" ELSE "split"
  /\ UNCHANGED <<flag, input, traverse, aux, remaining, out, cycle, cut>>

(* Every node of the table.                                                  *)
Table == SelectSeq(NodesInTable,
                   LAMBDA n : n \in ToSet(input.names) \cup (IF flag.hints THEN ToSet(input.hints) ELSE {}))

(* make_transparent: a node without an order takes the least of those it     *)
(* points at, first where all of them have one.                              *)
LeastOf(ord, n) ==
  LET set == {ord[arcs[n][k]] : k \in DOMAIN arcs[n]}
  IN  IF set = {} THEN NO_ORDER ELSE CHOOSE x \in set : \A y \in set : x <= y

Complete(ord, n) == \A k \in DOMAIN arcs[n] : ord[arcs[n][k]] # NO_ORDER

RECURSIVE Adjusted(_, _, _)
Adjusted(ord, nodes, all) ==
  IF nodes = <<>> THEN ord
  ELSE LET n == Head(nodes)
           set == ord[n] = NO_ORDER /\ (all => Complete(ord, n))
       IN  Adjusted(IF set THEN [ord EXCEPT ![n] = LeastOf(ord, n)] ELSE ord, Tail(nodes), all)

RECURSIVE Passes(_, _)
Passes(ord, all) ==
  LET next == Adjusted(ord, Table, all)
  IN  IF next = ord THEN ord ELSE Passes(next, all)

MakeTransparent(ord) == Passes(Passes(ord, TRUE), FALSE)

(* The heap: heap_down, heapify, dequeue and enqueue.                        *)
Swapped(h, i, j) == [h EXCEPT ![i] = h[j], ![j] = h[i]]

RECURSIVE HeapDown(_, _, _)
HeapDown(ord, h, i) ==
  LET j == IF 2 * i < Len(h) /\ ord[h[IF 2 * i < Len(h) THEN 2 * i + 1 ELSE 1]] < ord[h[2 * i]]
           THEN 2 * i + 1 ELSE 2 * i
  IN  IF 2 * i > Len(h) THEN h
      ELSE IF ord[h[i]] <= ord[h[j]] THEN h
      ELSE HeapDown(ord, Swapped(h, i, j), j)

RECURSIVE Heapify(_, _, _)
Heapify(ord, h, i) == IF i = 0 THEN h ELSE Heapify(ord, HeapDown(ord, h, i), i - 1)

Dequeue(h) ==
  IF ~flag.hints THEN Front(h)
  ELSE IF Len(h) = 1 THEN <<>>
  ELSE HeapDown(order, [Front(h) EXCEPT ![1] = Last(h)], 1)

RECURSIVE HeapUp(_, _)
HeapUp(h, i) ==
  IF i = 1 THEN h
  ELSE IF order[h[i \div 2]] < order[h[i]] THEN h
  ELSE HeapUp(Swapped(h, i, i \div 2), i \div 2)

Enqueue(h, n) == IF flag.hints THEN HeapUp(Append(h, n), Len(h) + 1) ELSE Append(h, n)

(* split_nodes and heapify.                                                  *)
SplitNodes ==
  /\ phase = "split"
  /\ LET ord == IF flag.hints THEN MakeTransparent(order) ELSE order
         free == SelectSeq(Table, LAMBDA n : refs[n] = 0)
     IN  /\ order' = ord
         /\ aux' = IF flag.hints THEN Heapify(ord, free, Len(free)) ELSE free
         /\ remaining' = SelectSeq(Table, LAMBDA n : refs[n] # 0)
  /\ phase' = "sort"
  /\ UNCHANGED <<flag, input, arcs, refs, traverse, out, cycle, cut>>

(* One turn of the inner loop of tsort: print a node, and let go of the      *)
(* nodes it points at.                                                       *)
RECURSIVE LetGo(_, _, _)
LetGo(r, h, list) ==
  IF list = <<>> THEN [refs |-> r, aux |-> h]
  ELSE LET m == Head(list)
       IN  IF r[m] = 0 THEN LetGo(r, h, Tail(list))
           ELSE LetGo([r EXCEPT ![m] = @ - 1], IF r[m] = 1 THEN Enqueue(h, m) ELSE h, Tail(list))

PrintNode ==
  /\ phase = "sort" /\ aux # <<>>
  /\ LET n == IF flag.hints THEN aux[1] ELSE Last(aux)
         g == LetGo(refs, Dequeue(aux), arcs[n])
     IN  out' = Append(out, n) /\ refs' = g.refs /\ aux' = g.aux
  /\ cycle' = <<>>
  /\ UNCHANGED <<phase, flag, input, arcs, order, traverse, remaining, cut>>

(* find_cycle_from: depth first along live nodes; path is the way back.      *)
NextArc(n, from) ==
  LET good == {k \in DOMAIN arcs[n] : k >= from /\ refs[arcs[n][k]] # 0}
  IN  IF good = {} THEN 0 ELSE CHOOSE k \in good : \A j \in good : k <= j

RECURSIVE FindCycleFrom(_, _)
FindCycleFrom(path, tr) ==
  LET n == Last(path)
      k == NextArc(n, tr[n] + 1)
      moved == [tr EXCEPT ![n] = k]
      go == IF k = 0 THEN None ELSE arcs[n][k]
      at == {i \in DOMAIN path : path[i] = go}
  IN  CASE k = 0 -> IF Len(path) = 1 THEN [at |-> None, cycle |-> <<>>, traverse |-> moved]
                    ELSE FindCycleFrom(Front(path), moved)
        [] k # 0 /\ at # {} -> [at |-> go, traverse |-> moved,
                                cycle |-> Reverse(SubSeq(path, CHOOSE i \in at : TRUE, Len(path)))]
        [] OTHER -> FindCycleFrom(Append(path, go), moved)

(* find_good_cycle_break, find_smallest_node, find_predecessor.              *)
FirstOf(set) ==
  IF set = {} THEN None
  ELSE remaining[CHOOSE i \in DOMAIN remaining :
                   remaining[i] \in set /\ \A j \in 1 .. i - 1 : remaining[j] \notin set]

FindGoodCycleBreak ==
  LET live == {n \in ToSet(remaining) : refs[n] # 0}
  IN  FirstOf({n \in live : \A m \in live : refs[n] <= refs[m]})

FindSmallestNode ==
  LET live == {n \in ToSet(remaining) : refs[n] # 0 /\ order[n] < NO_ORDER}
  IN  FirstOf({n \in live : \A m \in live : order[n] <= order[m]})

FindPredecessor(n) == FirstOf({m \in ToSet(remaining) : refs[m] # 0 /\ n \in ToSet(arcs[m])})

RECURSIVE FindNormalCycle(_, _, _)
FindNormalCycle(n, tr, tries) ==
  IF n = None \/ tries = 0 THEN [at |-> None, cycle |-> <<>>, traverse |-> tr]
  ELSE LET found == FindCycleFrom(<<n>>, tr)
       IN  IF found.at # None THEN found ELSE FindNormalCycle(FindPredecessor(n), found.traverse, tries - 1)

(* traverse_node: every way on from a node that is not on the path, but for  *)
(* the nodes an earlier call has finished; the longest cycle so far.         *)
RECURSIVE TraverseArcs(_, _, _, _)
TraverseArcs(path, k, done, best) ==
  LET n == Last(path)
      j == NextArc(n, k)
      go == IF j = 0 THEN None ELSE arcs[n][j]
      at == {i \in DOMAIN path : path[i] = go}
      size == IF at = {} THEN 0 ELSE Len(path) + 1 - (CHOOSE i \in at : TRUE)
      ring == <<go>> \o Reverse(SubSeq(path, (CHOOSE i \in at : TRUE) + 1, Len(path)))
  IN  CASE j = 0 -> best
        [] j # 0 /\ at # {} ->
             TraverseArcs(path, j + 1, done,
                          IF size > Len(best) THEN ring ELSE best)
        [] j # 0 /\ at = {} /\ go \in done -> TraverseArcs(path, j + 1, done, best)
        [] OTHER -> TraverseArcs(path, j + 1, done, TraverseArcs(Append(path, go), 1, done, best))

RECURSIVE Reached(_)
Reached(set) ==
  LET more == set \cup {m \in Names : refs[m] # 0 /\ \E n \in set : m \in ToSet(arcs[n])}
  IN  IF more = set THEN set ELSE Reached(more)

RECURSIVE LongestFrom(_, _, _)
LongestFrom(i, done, best) ==
  IF i > Len(remaining) THEN best
  ELSE IF refs[remaining[i]] = 0 \/ remaining[i] \in done THEN LongestFrom(i + 1, done, best)
  ELSE LongestFrom(i + 1, done \cup Reached({remaining[i]}),
                   TraverseArcs(<<remaining[i]>>, 1, done, best))

FindLongestCycle ==
  LET c == LongestFrom(1, {}, <<>>)
      few == {i \in DOMAIN c : \A j \in DOMAIN c : refs[c[i]] <= refs[c[j]]}
  IN  [at |-> IF c = <<>> THEN None ELSE c[CHOOSE i \in few : \A j \in few : i <= j],
       cycle |-> c, traverse |-> traverse]

(* The outer loop: no node is free but some are left.                        *)
BreakCycle ==
  /\ phase = "sort" /\ aux = <<>> /\ Len(out) < Len(Table)
  /\ LET first == IF flag.hints THEN FindSmallestNode ELSE FindGoodCycleBreak
         found == IF flag.long THEN FindLongestCycle
                  ELSE FindNormalCycle(first, traverse, 3 * Cardinality(Names))
     IN  IF found.at = None
         THEN /\ phase' = IF first = None /\ ~flag.long THEN "assert" ELSE "stuck"
              /\ UNCHANGED <<refs, aux, cycle, traverse, cut>>
         ELSE /\ refs' = [refs EXCEPT ![found.at] = 0]
              /\ aux' = <<found.at>>
              /\ cycle' = found.cycle /\ traverse' = found.traverse
              /\ cut' = cut \cup {found.at}
              /\ UNCHANGED phase
  /\ UNCHANGED <<flag, input, arcs, order, remaining, out>>

Done ==
  /\ phase = "sort" /\ aux = <<>> /\ Len(out) = Len(Table)
  /\ phase' = "done" /\ cycle' = <<>>
  /\ UNCHANGED <<flag, input, arcs, refs, order, traverse, aux, remaining, out, cut>>

TsortInit ==
       /\ phase = "read"
       /\ input \in Inputs
       /\ flag \in [hints : BOOLEAN, first : BOOLEAN, long : BOOLEAN, reverse : BOOLEAN]
       /\ flag.first => flag.hints
       /\ arcs = [n \in Names |-> <<>>] /\ refs = [n \in Names |-> 0]
       /\ order = [n \in Names |-> NO_ORDER] /\ traverse = [n \in Names |-> 0]
       /\ aux = <<>> /\ remaining = <<>> /\ out = <<>> /\ cycle = <<>> /\ cut = {}

TsortNext == ReadPairs \/ SplitNodes \/ PrintNode \/ BreakCycle \/ Done

TsortSpec == TsortInit /\ [][TsortNext]_tsortVars

-----------------------------------------------------------------------------
(* What tsort says is so, whatever cycles the pairs have: every name is      *)
(* printed once; a name precedes those its pairs put after it, unless a      *)
(* cycle was broken just there; a cycle it reports is one, of names not yet  *)
(* printed, and with -l none of them is longer; with hints the next name is  *)
(* the first of the free ones; the counts of references are right; and the   *)
(* search for a cycle, resumed where the last one stopped, never gives up.   *)
Unprinted == Names \ ToSet(out)
Arc(a, b) == b \in ToSet(arcs[a])
IsCycle(c) == /\ Cardinality(ToSet(c)) = Len(c)
              /\ \A i \in DOMAIN c : Arc(c[i], c[IF i = 1 THEN Len(c) ELSE i - 1])

TsortTrue ==
  /\ phase # "stuck"
  /\ Cardinality(ToSet(out)) = Len(out)
  /\ phase = "done" => ToSet(out) = ToSet(Table)
  /\ \A n \in Names : refs[n] # 0 => refs[n] = Cardinality({m \in Unprinted : Arc(m, n)})
  /\ \A i, j \in DOMAIN out : i < j /\ Arc(out[j], out[i]) => out[i] \in cut
  /\ cycle # <<>> =>
       /\ IsCycle(cycle) /\ ToSet(cycle) \subseteq Unprinted /\ aux[1] \in ToSet(cycle)
       /\ flag.long => \A c \in SeqOf(Unprinted, Cardinality(Unprinted)) :
                          c # <<>> /\ IsCycle(c) => Len(c) <= Len(cycle)
  /\ flag.hints /\ aux # <<>> => \A i \in DOMAIN aux : order[aux[1]] <= order[aux[i]]

(* "assert(u != NULL)" (tsort.c:610): when a cycle is left, the hints name a *)
(* live node to begin the search at.                                         *)
SmallestNodeFound == phase # "assert"

-----------------------------------------------------------------------------
(* The hash table of libutil (third_party/openbsd/lib/libutil/ohash.c):      *)
(* double hashing, removed entries marked DELETED and reused, and the table  *)
(* made again, larger or smaller, when too much of it is used or deleted.    *)

CONSTANTS Keys, Hash,      \* Hash[k]: what ohash_interval gives for k
          MINSIZE, MINDELETED

VARIABLES table,               \* [size, t, total, deleted]; t maps 0 .. size - 1 to [hv, p]
          entries,         \* the keys entered and not removed
          endless          \* a search met no free place

ohashVars == <<table, entries, endless>>

NULL == "null"
DELETED == "deleted"
Free == [hv |-> 0, p |-> NULL]

Start(hv, size) == hv % size
Incr(hv, size) == (((hv % (size - 2)) \div 2) * 2) + 1

(* The place a record moves to in the new table.                             *)
RECURSIVE PlaceFrom(_, _, _, _)
PlaceFrom(n, ns, i, incr) ==
  IF n[i].p = NULL THEN i ELSE PlaceFrom(n, ns, (i + incr) % ns, incr)

RECURSIVE Moved(_, _, _, _)
Moved(old, j, n, ns) ==
  IF j = old.size THEN n
  ELSE LET r == old.t[j]
       IN  Moved(old, j + 1,
                 IF r.p \in {NULL, DELETED} THEN n
                 ELSE [n EXCEPT ![PlaceFrom(n, ns, Start(r.hv, ns), Incr(r.hv, ns))] = r],
                 ns)

NewSize(s) ==
  LET ns == IF 4 * s.deleted < s.total THEN 2 * s.size
            ELSE IF 3 * s.deleted > 2 * s.total THEN s.size \div 2
            ELSE s.size
  IN  IF ns < MINSIZE THEN MINSIZE ELSE ns

(* ohash_resize                                                              *)
Resize(s) ==
  LET ns == NewSize(s)
  IN  [size |-> ns, t |-> Moved(s, 0, [i \in 0 .. ns - 1 |-> Free], ns),
       total |-> s.total - s.deleted, deleted |-> 0]

(* ohash_lookup_interval: the place of the key, or where it would go; an     *)
(* entry found behind a deleted one takes its place.                         *)
RECURSIVE LookupFrom(_, _, _, _, _)
LookupFrom(s, k, i, empty, steps) ==
  LET hv == Hash[k]
      next == (i + Incr(hv, s.size)) % s.size
      at == IF empty # s.size THEN empty ELSE i
  IN  IF steps = 0 THEN [s |-> s, i |-> 0, endless |-> TRUE]
      ELSE IF s.t[i].p = NULL THEN [s |-> [s EXCEPT !.t[at].hv = hv], i |-> at, endless |-> FALSE]
      ELSE IF s.t[i].p = DELETED THEN LookupFrom(s, k, next, at, steps - 1)
      ELSE IF s.t[i].hv # hv \/ s.t[i].p # k THEN LookupFrom(s, k, next, empty, steps - 1)
      ELSE [s |-> IF at = i THEN s
                  ELSE [s EXCEPT !.t[at] = s.t[i], !.t[i].p = DELETED],
            i |-> at, endless |-> FALSE]

Lookup(s, k) == LookupFrom(s, k, Start(Hash[k], s.size), s.size, s.size + 1)

(* ohash_find                                                                *)
Find(s, i) == IF s.t[i].p = DELETED THEN NULL ELSE s.t[i].p

(* Mutant: a place that was deleted is counted again.                        *)
InsertCountsTwice(s, i, k) ==
  LET put == [s EXCEPT !.t[i].p = k, !.total = @ + 1]
  IN  IF put.total * 4 > s.size * 3 THEN Resize(put) ELSE put

(* ohash_insert                                                              *)
Insert(s, i, k) ==
  LET put == [s EXCEPT !.t[i].p = k]
      more == [put EXCEPT !.total = @ + 1]
  IN  IF s.t[i].p = DELETED THEN [put EXCEPT !.deleted = @ - 1]
      ELSE IF more.total * 4 > s.size * 3 THEN Resize(more)
      ELSE more

(* ohash_remove                                                              *)
OhashRemove(s, i) ==
       LET gone == [s EXCEPT !.t[i].p = DELETED, !.deleted = @ + 1]
       IN  IF s.t[i].p \in {NULL, DELETED} THEN s
           ELSE IF gone.deleted >= MINDELETED /\ 4 * gone.deleted > gone.total THEN Resize(gone)
           ELSE gone

(* What the callers do with it: node_lookup of tsort enters what it does not *)
(* find; a lookup alone may move an entry; an entry may be removed.          *)
NodeLookup(k) ==
  LET l == Lookup(table, k)
  IN  /\ endless' = l.endless
      /\ table' = IF Find(l.s, l.i) = NULL THEN Insert(l.s, l.i, k) ELSE l.s
      /\ entries' = entries \cup {k}

LookOnly(k) ==
  LET l == Lookup(table, k)
  IN  endless' = l.endless /\ table' = l.s /\ UNCHANGED entries

RemoveKey(k) ==
  LET l == Lookup(table, k)
  IN  endless' = l.endless /\ table' = OhashRemove(l.s, l.i) /\ entries' = entries \ {k}

OhashInit ==
       /\ table = [size |-> MINSIZE, t |-> [i \in 0 .. MINSIZE - 1 |-> Free], total |-> 0, deleted |-> 0]
       /\ entries = {} /\ endless = FALSE

OhashNext == \E k \in Keys : NodeLookup(k) \/ LookOnly(k) \/ RemoveKey(k)

OhashSpec == OhashInit /\ [][OhashNext]_ohashVars

-----------------------------------------------------------------------------
(* The table holds each entered key once, and a lookup finds it, whatever    *)
(* was entered, removed and moved before; its counts (ohash_entries) are     *)
(* those of its places; and a search ends, since a place stays free.         *)
TableTrue ==
  /\ ~endless
  /\ \A k \in Keys : Cardinality({i \in 0 .. table.size - 1 : table.t[i].p = k}) = IF k \in entries THEN 1 ELSE 0
  /\ \A k \in Keys : Find(Lookup(table, k).s, Lookup(table, k).i) = IF k \in entries THEN k ELSE NULL
  /\ table.deleted = Cardinality({i \in 0 .. table.size - 1 : table.t[i].p = DELETED})
  /\ table.total - table.deleted = Cardinality(entries)
=============================================================================
