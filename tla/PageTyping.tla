----------------------------- MODULE PageTyping -----------------------------
(***************************************************************************)
(* What the KSM promises, stated without its internal steps: page-table    *)
(* pages carry a type, and once the monitor is on, every change of a type  *)
(* or of an entry is one atomic step that leaves every typed page with     *)
(* entries of the right type only.                                         *)
(***************************************************************************)
EXTENDS PageTable

VARIABLES on, type, mem
typingVars == <<on, type, mem>>

Init ==
  /\ on = FALSE
  /\ type = [p \in Pages |-> PG_UNUSED]
  /\ mem \in [Pages -> Table]

(* An untyped page becomes a page-table page; what it holds must already   *)
(* suit its new type.                                                      *)
DeclarePage(p, k) ==
  /\ type[p] \in {PG_UNUSED, k}
  /\ type' = [type EXCEPT ![p] = k]
  /\ on => WellTyped(type', mem)
  /\ UNCHANGED <<on, mem>>

(* A page-table page becomes ordinary memory; no typed page still relies   *)
(* on its type.                                                            *)
RemovePage(p) ==
  /\ type' = [type EXCEPT ![p] = PG_UNUSED]
  /\ on => WellTyped(type', mem)
  /\ UNCHANGED <<on, mem>>

(* The contents of a page change; if it is typed, to entries that suit it  *)
(* at the moment of the store.                                             *)
WritePage(p) ==
  /\ mem' = [mem EXCEPT ![p] = mem'[p]]
  /\ mem'[p] \in Table
  /\ on => \A s \in Slots :
             type[p] # PG_UNUSED => UpdateIsValid(type, p, mem'[p][s])
  /\ UNCHANGED <<on, type>>

(* The monitor is switched on with a well-typed memory.  Types given       *)
(* before stay.                                                            *)
SwitchOn ==
  /\ ~on
  /\ on' = TRUE
  /\ type' \in [Pages -> PageTypes]
  /\ \A p \in Pages : type[p] # PG_UNUSED => type'[p] = type[p]
  /\ WellTyped(type', mem)
  /\ UNCHANGED mem

Next ==
  \/ \E p \in Pages :
       \/ \E k \in PG_L1 .. PG_L4 : DeclarePage(p, k)
       \/ RemovePage(p)
       \/ WritePage(p)
  \/ SwitchOn

Spec == Init /\ [][Next]_typingVars
=============================================================================
