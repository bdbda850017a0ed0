-------------------------- MODULE DurableRegistry --------------------------
(***************************************************************************)
(* What the registries promise, without files or handlers: a map in memory *)
(* that changes one entry at a time, and a durable map that only ever      *)
(* becomes, in one step, the whole map in memory.  A restart brings back   *)
(* exactly the durable map.                                                *)
(***************************************************************************)
CONSTANTS Kinds, Names, Infos, NoInfo

VARIABLES running, mem, durable

dvars == <<running, mem, durable>>

Blank == [k \in Kinds |-> [n \in Names |-> NoInfo]]

Init == running = FALSE /\ mem = Blank /\ durable = Blank

Change ==
    /\ running
    /\ \E k \in Kinds, n \in Names, i \in Infos \cup {NoInfo} :
        mem' = [mem EXCEPT ![k][n] = i]
    /\ UNCHANGED <<running, durable>>

Persist ==
    /\ running
    /\ \E k \in Kinds : durable' = [durable EXCEPT ![k] = mem[k]]
    /\ UNCHANGED <<running, mem>>

Lose ==
    /\ running
    /\ running' = FALSE /\ mem' = Blank
    /\ UNCHANGED durable

Recover ==
    /\ ~running
    /\ running' = TRUE /\ mem' = durable
    /\ UNCHANGED durable

Next == Change \/ Persist \/ Lose \/ Recover

Spec == Init /\ [][Next]_dvars
=============================================================================
