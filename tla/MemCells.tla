------------------------------ MODULE MemCells ------------------------------
(***************************************************************************)
(* The memory cells of ctrl_plane_backend.c: a stack of unused cells and a *)
(* list of used ones, linked through next and prev.  touch_mem_cell moves  *)
(* the first unused cell to the front of the used list; detouch_mem_cell   *)
(* unlinks a cell from anywhere in the used list.  Both hold memlock from  *)
(* the first to the last statement.  Cells are numbered in the order of    *)
(* create_backend's loop, and 0 is the null pointer.                       *)
(*                                                                         *)
(* The history variables unused and used are the two lists as they ought   *)
(* to be.                                                                  *)
(***************************************************************************)
EXTENDS Integers, Sequences

CONSTANT NCells   \* queue_size

ASSUME NCellsAssumption == NCells \in Nat \ {0}

Cells == 1 .. NCells
Null  == 0

MaxFreed == 2     \* bound: a double free is not counted further

VARIABLES
    next, prev,              \* of each cell
    unused_head, used_head,
    phase,                   \* "running", then destroy_backend's two loops
    freed,                   \* how often each cell was freed
    unused, used             \* history

links == <<next, prev, unused_head, used_head>>
lists == <<unused, used>>
vars  == <<links, phase, freed, lists>>

Init ==
    /\ next = [c \in Cells |-> c - 1]
    /\ prev = [c \in Cells |-> Null]
    /\ unused_head = NCells /\ used_head = Null
    /\ phase = "running"
    /\ freed = [c \in Cells |-> 0]
    /\ unused = [i \in Cells |-> NCells + 1 - i]
    /\ used = <<>>

(* p->prev = v, where p may be null and then nothing is done *)
SetPrev(f, p, v) == IF p = Null THEN f ELSE [f EXCEPT ![p] = v]
-----------------------------------------------------------------------------
(* Mutants: the used cells are not linked to the new one; the first used    *)
(* cell is linked to itself.                                                *)
TouchLosesUsed ==
    /\ phase = "running" /\ unused_head # Null
    /\ LET result == unused_head
       IN  /\ unused_head' = next[result]
           /\ prev' = SetPrev(SetPrev(prev, next[result], Null), used_head, result)
           /\ next' = [next EXCEPT ![result] = Null]
           /\ used_head' = result
    /\ unused' = Tail(unused)
    /\ used' = <<Head(unused)>> \o used
    /\ UNCHANGED <<phase, freed>>

TouchMakesRing ==
    /\ phase = "running" /\ unused_head # Null /\ unused # <<>>
    /\ LET result == unused_head
       IN  /\ unused_head' = next[result]
           /\ prev' = SetPrev(SetPrev(prev, next[result], Null), used_head, result)
           /\ used_head' = result
           /\ next' = [next EXCEPT ![result] = used_head']
    /\ unused' = Tail(unused)
    /\ used' = <<Head(unused)>> \o used
    /\ UNCHANGED <<phase, freed>>

touch_mem_cell ==
    /\ phase = "running" /\ unused_head # Null
    /\ LET result == unused_head
       IN  /\ unused_head' = next[result]
           /\ prev' = SetPrev(SetPrev(prev, next[result], Null), used_head, result)
           /\ next' = [next EXCEPT ![result] = used_head]
           /\ used_head' = result
    /\ unused' = Tail(unused)
    /\ used' = <<Head(unused)>> \o used
    /\ UNCHANGED <<phase, freed>>

(* The caller has the cell in hand, so it is on the used list. *)
Without(s, c) ==
    LET n == CHOOSE i \in DOMAIN s : s[i] = c
    IN  [i \in 1 .. Len(s) - 1 |-> IF i < n THEN s[i] ELSE s[i + 1]]

(* Mutants: cell->next->prev is not updated; the unused cells are not       *)
(* linked to the one given back.                                            *)
DetouchKeepsPrev(cell) ==
    /\ phase = "running"
    /\ \E i \in DOMAIN used : used[i] = cell
    /\ IF used_head # cell
       THEN /\ next' = [next EXCEPT ![prev[cell]] = next[cell],
                                    ![cell] = unused_head]
            /\ UNCHANGED used_head
       ELSE /\ next' = [next EXCEPT ![cell] = unused_head]
            /\ used_head' = next[cell]
    /\ prev' = [SetPrev(prev, unused_head, cell) EXCEPT ![cell] = Null]
    /\ unused_head' = cell
    /\ used' = Without(used, cell)
    /\ unused' = <<cell>> \o unused
    /\ UNCHANGED <<phase, freed>>

DetouchLosesUnused(cell) ==
    /\ phase = "running"
    /\ \E i \in DOMAIN used : used[i] = cell
    /\ IF used_head # cell
       THEN next' = [next EXCEPT ![prev[cell]] = next[cell], ![cell] = Null]
            /\ UNCHANGED used_head
       ELSE /\ next' = [next EXCEPT ![cell] = Null]
            /\ used_head' = next[cell]
    /\ prev' = [SetPrev(SetPrev(prev, next[cell], prev[cell]), unused_head, cell)
                   EXCEPT ![cell] = Null]
    /\ unused_head' = cell
    /\ used' = Without(used, cell)
    /\ unused' = <<cell>> \o unused
    /\ UNCHANGED <<phase, freed>>

detouch_mem_cell(cell) ==
    /\ phase = "running"
    /\ \E i \in DOMAIN used : used[i] = cell
    /\ IF used_head # cell
       THEN /\ next' = [next EXCEPT ![prev[cell]] = next[cell],
                                    ![cell] = unused_head]
            /\ UNCHANGED used_head
       ELSE /\ next' = [next EXCEPT ![cell] = unused_head]
            /\ used_head' = next[cell]
    /\ prev' = [SetPrev(SetPrev(prev, next[cell], prev[cell]), unused_head, cell)
                   EXCEPT ![cell] = Null]
    /\ unused_head' = cell
    /\ used' = Without(used, cell)
    /\ unused' = <<cell>> \o unused
    /\ UNCHANGED <<phase, freed>>
-----------------------------------------------------------------------------
(* destroy_backend: free the used cells, then the unused ones *)
Free(c) == freed' = [freed EXCEPT ![c] = IF @ < MaxFreed THEN @ + 1 ELSE @]

(* Mutant: only the unused cells are freed. *)
StartDestroyUnused ==
    /\ phase = "running" /\ phase' = "free_unused"
    /\ UNCHANGED <<links, freed, lists>>

StartDestroy ==
    /\ phase = "running" /\ phase' = "free_used"
    /\ UNCHANGED <<links, freed, lists>>

FreeUsed ==
    /\ phase = "free_used"
    /\ IF used_head # Null
       THEN used_head' = next[used_head] /\ Free(used_head) /\ UNCHANGED phase
       ELSE phase' = "free_unused" /\ UNCHANGED <<used_head, freed>>
    /\ UNCHANGED <<next, prev, unused_head, lists>>

FreeUnused ==
    /\ phase = "free_unused"
    /\ IF unused_head # Null
       THEN unused_head' = next[unused_head] /\ Free(unused_head) /\ UNCHANGED phase
       ELSE phase' = "destroyed" /\ UNCHANGED <<unused_head, freed>>
    /\ UNCHANGED <<next, prev, used_head, lists>>

Next ==
    \/ touch_mem_cell
    \/ \E c \in Cells : detouch_mem_cell(c)
    \/ StartDestroy \/ FreeUsed \/ FreeUnused

Spec == Init /\ [][Next]_vars

(* destroy_backend, once called, runs to its end. *)
FairSpec == Spec /\ WF_vars(FreeUsed \/ FreeUnused)
-----------------------------------------------------------------------------
(* Every pointer is null or points to a cell. *)
TypeOK ==
    /\ next \in [Cells -> Cells \cup {Null}] /\ prev \in [Cells -> Cells \cup {Null}]
    /\ unused_head \in Cells \cup {Null} /\ used_head \in Cells \cup {Null}
    /\ phase \in {"running", "free_used", "free_unused", "destroyed"}
    /\ freed \in [Cells -> 0 .. MaxFreed]
    /\ unused \in Seq(Cells) /\ used \in Seq(Cells)

(* Starting at head and following next one meets the elements of s and no   *)
(* others.                                                                  *)
Linked(head, s) ==
    /\ head = IF s = <<>> THEN Null ELSE s[1]
    /\ \A i \in DOMAIN s : next[s[i]] = IF i = Len(s) THEN Null ELSE s[i + 1]

(* Going back in it works too.  On the unused list, where create_backend    *)
(* leaves every prev null and nobody reads it, only the head's matters: it  *)
(* becomes the head of the used list.                                       *)
LinkedBack(s) == \A i \in DOMAIN s : prev[s[i]] = IF i = 1 THEN Null ELSE s[i - 1]

(* Whatever the order in which cells come back, the pointers spell out the  *)
(* two lists: detouch_mem_cell reads cell->prev, which three other          *)
(* statements have to keep right.                                           *)
ListsLinked ==
    /\ TypeOK
    /\ phase = "running" =>
          /\ Linked(unused_head, unused) /\ Linked(used_head, used)
          /\ LinkedBack(used)
          /\ unused # <<>> => prev[unused[1]] = Null

(* The cells one meets from head, by the pointers alone: Steps(head)[n] are *)
(* the pointers met in n steps.                                             *)
Steps(head) ==
    LET step[n \in 0 .. NCells] ==
            IF n = 0 THEN {head}
            ELSE step[n - 1] \cup {next[c] : c \in step[n - 1] \ {Null}}
    IN  step

Reached(head) == Steps(head)[NCells] \ {Null}

(* Every cell can be reached from one of the two heads and none from both:  *)
(* no cell drops out of the lists, where even destroy_backend would miss it.*)
EachCellInOneList ==
    phase = "running" =>
        /\ Reached(unused_head) \cup Reached(used_head) = Cells
        /\ Reached(unused_head) \cap Reached(used_head) = {}

(* What can be reached from unused_head is the set of free cells that the   *)
(* rest of the backend relies on.                                           *)
Pool == INSTANCE CellPool WITH
            unused <- IF phase = "running" THEN Reached(unused_head)
                      ELSE {unused[i] : i \in DOMAIN unused}
ImplementsPool == Pool!Spec

(* destroy_backend frees every cell, none twice, also those that are still  *)
(* on the used list because a thread or a queue had them.                   *)
AllFreedOnce ==
    \A c \in Cells : freed[c] <= 1 /\ (phase = "destroyed" => freed[c] = 1)

(* Its loops end: no list has become a ring. *)
DestroyEnds == phase = "free_used" ~> phase = "destroyed"
=============================================================================
