---------------------------- MODULE MCContainers ----------------------------
(***************************************************************************)
(* A deque or a vector, or a few intrusive lists.                          *)
(***************************************************************************)
EXTENDS Containers, IntrusiveList

CONSTANTS a, b

VARIABLE subject     \* "slots" or "links"

MCRanges == { <<>>, <<b>>, <<a, b>>, <<b, a, a>>, <<a, b, b, a>> }

MCInit ==
    /\ subject \in {"slots", "links"}
    /\ Init /\ ListInit
    /\ subject # "slots" => kind = "deque"

SlotsNext == subject = "slots" /\ Next /\ UNCHANGED <<subject, listVars>>
LinksNext == subject = "links" /\ ListNext /\ UNCHANGED <<subject, vars>>
MCNext == SlotsNext \/ LinksNext

MCSpec == MCInit /\ [][MCNext]_<<subject, vars, listVars>>
=============================================================================
