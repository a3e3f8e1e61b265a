------------------------------ MODULE MCKernel ------------------------------
(* One instance for TLC of every part of the kernel that stands alone: the    *)
(* sleeping lock, the heap, frames and page tables, namespaces, the FAT       *)
(* driver.  A behaviour runs one of them, `part`, and leaves the others in    *)
(* their initial states.                                                      *)
EXTENDS Mutex, Memory, Namespace, Fat, TLC

CONSTANTS m1, m2, m3, m4, c1, c2, n1, n2, root, a, x

VARIABLE part

MCThread == {m1, m2, m3, m4}
MCFrames == 1..5
MCChild == (<<root, "a">> :> a) @@ (<<root, "x">> :> x)
MCPaths == {<<>>, <<"a">>, <<"x">>}
MCBoot == << [path |-> <<"a">>, loc |-> <<a>>] >>
MCNames == {[stem |-> "a", long |-> 0], [stem |-> "l", long |-> 1]}

\* c1 and c2 are the two processes, threads or handles of whichever part runs.
Symmetric == Permutations({c1, c2})

KInit == /\ part \in {"mutex", "heap", "memory", "namespace", "fat"}
         /\ Init /\ HeapInit /\ MemoryInit /\ NamespaceInit /\ FatInit
         /\ part # "fat" => \A i \in DOMAIN disk.slots[0] : disk.slots[0][i] = End

KNext ==
    /\ UNCHANGED part
    /\ \/ part = "mutex" /\ Next /\ UNCHANGED <<heapVars, memoryVars, namespaceVars, fatVars>>
       \/ part = "heap" /\ HeapNext /\ UNCHANGED <<vars, memoryVars, namespaceVars, fatVars>>
       \/ part = "memory" /\ MemoryNext /\ UNCHANGED <<vars, heapVars, namespaceVars, fatVars>>
       \/ part = "namespace" /\ NamespaceNext /\ UNCHANGED <<vars, heapVars, memoryVars, fatVars>>
       \/ part = "fat" /\ FatNext /\ UNCHANGED <<vars, heapVars, memoryVars, namespaceVars>>

KSpec == KInit /\ [][KNext]_<<part, vars, heapVars, memoryVars, namespaceVars, fatVars>>
=============================================================================
