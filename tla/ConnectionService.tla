-------------------------- MODULE ConnectionService --------------------------
(***************************************************************************)
(* What the acceptor promises its user about connections: between start    *)
(* and stop it admits connections, never more than Limit at a time; each   *)
(* admitted connection is finished once; after the stop nothing is         *)
(* admitted any more, while the connections admitted before are served to  *)
(* their end.                                                              *)
(***************************************************************************)
EXTENDS Integers, FiniteSets

CONSTANTS Connection,  \* the connections that may be admitted
          Limit        \* how many at a time; 0 or less means no limit

VARIABLES live,   \* the connections being served
          done,   \* the connections served
          phase   \* "new", "open" or "stopped"

vars == <<live, done, phase>>

Init == live = {} /\ done = {} /\ phase = "new"

Start ==
    /\ phase = "new"
    /\ phase' = "open"
    /\ UNCHANGED <<live, done>>

\* The last admission may coincide with the stop: it was under way before.
Admit(c) ==
    /\ phase = "open"
    /\ c \notin live \cup done
    /\ Limit > 0 => Cardinality(live) < Limit
    /\ live' = live \cup {c}
    /\ phase' \in {"open", "stopped"}
    /\ UNCHANGED done

Finish(c) ==
    /\ c \in live
    /\ live' = live \ {c}
    /\ done' = done \cup {c}
    /\ UNCHANGED phase

Stop ==
    /\ phase # "stopped"
    /\ phase' = "stopped"
    /\ UNCHANGED <<live, done>>

Next == Start \/ Stop \/ \E c \in Connection : Admit(c) \/ Finish(c)

Spec == Init /\ [][Next]_vars
=============================================================================
