------------------------------- MODULE Names --------------------------------
(***************************************************************************)
(* Host names as the daemon reads them: a name is the sequence of the      *)
(* labels between its dots, so "" is <<"">> and ".localhost" is            *)
(* <<"", "localhost">>.  A port is no part of it.                          *)
(***************************************************************************)
EXTENDS Naturals, Sequences

CONSTANTS
    Labels,      \* the labels clients and operators use
    ValidNames,  \* those among them that ValidName accepts
    Lower        \* strings.ToLower of a label

TLD == "localhost"

(* ValidName wants one to 63 of a-z, 0-9 and "-", in lower case.           *)
ASSUME NamesAssumption ==
    /\ Lower \in [Labels -> Labels]
    /\ \A l \in Labels : Lower[Lower[l]] = Lower[l]
    /\ ValidNames \subseteq Labels
    /\ \A l \in ValidNames : Lower[l] = l
    /\ "" \in Labels \ ValidNames
    /\ \A l \in Labels : Lower[l] = "" <=> l = ""
    /\ TLD \in ValidNames

Localhost == <<TLD>>

Lowered(h) == [i \in DOMAIN h |-> Lower[h[i]]]

(* HasSuffix(h, ".localhost")                                              *)
UnderTLD(h) == Len(h) > 1 /\ h[Len(h)] = TLD

validLocalhostName(h) ==
    \/ h = Localhost
    \/ UnderTLD(h) /\ \A i \in 1..(Len(h) - 1) : h[i] \in ValidNames
=============================================================================
