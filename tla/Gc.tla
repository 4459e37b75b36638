---------------------------------- MODULE Gc ----------------------------------
(***************************************************************************)
(* The garbage collector of a request (lib/objects/duda_gc.c): the memory  *)
(* that services and objects register is freed when the request ends, and  *)
(* the cells serve the next request of the connection.                     *)
(***************************************************************************)
EXTENDS Integers, SequencesExt

CONSTANTS
    Entries,     \* DUDA_GC_ENTRIES: the cells of a new collector
    Chunk,       \* DUDA_GC_CHUNK: the cells it grows by
    CellBytes,   \* sizeof(struct duda_gc_entry)
    MaxPointers  \* bound of the model: pointers handed out

\* 64 entries, chunks of 16 and cells of 16 bytes in the source: what the
\* growth asks for has room for the cells it counts.
ASSUME GcAssumption ==
    /\ Entries \in Nat \ {0} /\ Chunk \in Nat \ {0} /\ CellBytes \in Nat \ {0}
    /\ Entries >= CellBytes /\ MaxPointers \in Nat

VARIABLES
    cells,       \* gc.cells: 0 free, 1 used, or any other status, and a pointer
    used,        \* gc.used
    bytes,       \* the bytes allocated for the cells
    pointers,    \* history: the pointers handed out
    registered,  \* history: the pointers add returned 0 for, and not freed yet
    frees,       \* history: how often a pointer has been freed
    wild,        \* history: a cell that nobody wrote was used by chance
    ended        \* history: the last request has ended

gcVars == <<cells, used, bytes, pointers, registered, frees, wild, ended>>

NoPointer == 0
Cell(status, p) == [status |-> status, p |-> p]

\* duda_gc_init, in duda_service_run for a connection's first request.
GcInit ==
    /\ cells = [i \in 1..Entries |-> Cell(0, NoPointer)]
    /\ used = 0 /\ bytes = Entries * CellBytes
    /\ pointers = 0 /\ registered = {}
    /\ frees = [p \in 1..MaxPointers |-> 0] /\ wild = FALSE /\ ended = TRUE

Full == used >= Len(cells)

\* What realloc leaves in the new cells: anything.
Grown(garbage) == cells \o [i \in 1..Chunk |-> Cell(garbage[i], NoPointer)]
NewBytes == Len(cells) * Entries + CellBytes * Chunk

\* Registering p in the cells cs: the first free one takes it.
Store(cs, p) ==
    LET i == SelectInSeq(cs, LAMBDA c : c.status = 0) IN
    /\ cells' = IF i = 0 THEN cs ELSE [cs EXCEPT ![i] = Cell(1, p)]
    /\ used' = IF i = 0 THEN used ELSE used + 1
    /\ registered' = IF i = 0 THEN registered ELSE registered \cup {p}

\* duda_gc_add of a pointer just allocated (duda_gc_alloc and the callers of
\* add alike).  The third case is an allocation that fails: -1, and p leaks.
duda_gc_add ==
    /\ pointers < MaxPointers
    /\ pointers' = pointers + 1
    /\ \/ ~Full /\ Store(cells, pointers + 1) /\ UNCHANGED <<bytes, wild>>
       \/ /\ Full
          /\ \E garbage \in [1..Chunk -> 0..2] :
                /\ Store(Grown(garbage), pointers + 1)
                /\ wild' = (wild \/ \E i \in 1..Chunk : garbage[i] = 1)
          /\ bytes' = NewBytes
       \/ Full /\ UNCHANGED <<cells, used, bytes, registered, wild>>
    /\ ended' = FALSE /\ UNCHANGED frees

\* Mutant: the loop ends with the first free cell.
VisitedShort == {i \in DOMAIN cells : \A j \in 1..i : cells[j].status = 1}

\* duda_gc_free_content, at the end of a request: the used cells in order,
\* until as many are freed as the count says.
Visited ==
    {i \in DOMAIN cells :
        cells[i].status = 1 /\ Cardinality({j \in 1..(i - 1) : cells[j].status = 1}) < used}
duda_gc_free_content ==
    /\ cells' = [i \in DOMAIN cells |-> IF i \in Visited THEN Cell(0, NoPointer) ELSE cells[i]]
    /\ used' = used - Cardinality(Visited)
    /\ frees' = [p \in 1..MaxPointers |-> frees[p] + Cardinality({i \in Visited : cells[i].p = p})]
    /\ registered' = registered \ {cells[i].p : i \in Visited}
    /\ ended' = TRUE /\ UNCHANGED <<bytes, pointers, wild>>

GcNext == duda_gc_add \/ duda_gc_free_content

GcSpec == GcInit /\ [][GcNext]_gcVars

\* Every registered pointer sits in one used cell and has not been freed, no
\* pointer is freed twice, the count is the number of used cells, the cells
\* fit the memory they are in; and after the end of a request nothing that
\* was registered is left.  All of it as long as the memory that the
\* collector grows into does not happen to look like a used cell.
GcFreesOnce ==
    /\ bytes >= Len(cells) * CellBytes
    /\ ~wild =>
       /\ \A p \in registered :
             frees[p] = 0 /\ Cardinality({i \in DOMAIN cells : cells[i] = Cell(1, p)}) = 1
       /\ \A p \in 1..pointers : frees[p] <= 1
       /\ used = Cardinality({i \in DOMAIN cells : cells[i].status = 1})
       /\ ended => registered = {} /\ used = 0
       /\ \A p \in (1..pointers) \ registered : frees[p] = 1 \/ ~ \E i \in DOMAIN cells : cells[i] = Cell(1, p)
=============================================================================
