------------------------ MODULE MCLanguageFeatures ------------------------
(***************************************************************************)
(* LanguageFeatures over the whole catalog.  A behaviour explores either   *)
(* all that can happen to two dynamic registrations and no calls, or the   *)
(* calls on a static and one dynamic registration: Explored names the      *)
(* states gone on from.                                                    *)
(***************************************************************************)
EXTENDS LanguageFeatures

AllFeatures == DOMAIN Catalog

Called ==
    \/ \E i \in Ids : shown[i] # Nothing
    \/ \E m \in ToSet(toClient) \cup ToSet(toServer) : m.kind \in {"ask", "answer", "cancelled", "refresh"}
    \/ data > 0
\* The option sets in use: a provider's calls depend on its own only, commands
\* on those of the others.
OptionSets ==
    {e.options : e \in table} \cup
    UNION {{r.options : r \in ToSet(m.list)} :
           m \in {x \in ToSet(toClient) : x.kind = "register"}}
Explored ==
    /\ This.client.how = "command" \/ Cardinality(OptionSets \ {{}}) <= 1
    /\ \/ ~Called
       \/ /\ starts = 1
          /\ Cardinality(used) <= 1 /\ bulk = None /\ lost = {}
          /\ Cardinality(This.protocol.options) > 4 => used = {}
          /\ \A m \in ToSet(toClient) : m.kind = "register" => m.via = "one"
=============================================================================
