------------------------------- MODULE Router -------------------------------
(***************************************************************************)
(* The route table of pkg/router: registration in a trie per method, and   *)
(* the walk that finds the handler of a path and its parameters.           *)
(*                                                                         *)
(* A path is the sequence of its parts, a template the sequence of its     *)
(* segments.  Children of a trie node differ in their segment value, so a  *)
(* node is the sequence of the values that lead to it, and the trie of a   *)
(* method is the set of the prefixes of its templates.                     *)
(***************************************************************************)
EXTENDS Naturals, SequencesExt

Static(name) == [kind |-> "static", name |-> name]
Param(name) == [kind |-> "param", name |-> name]
Wild(name) == [kind |-> "wild", name |-> name]

(* A name that begins with a colon or a star is not that of a static       *)
(* segment.                                                                *)
Segment ==
    {seg \in [kind : {"static", "param", "wild"}, name : STRING] :
        seg.kind = "static" => seg.name \notin {":", "*"}}

AnyMethod == "ANY"
NotFound == [template |-> <<[kind |-> "none", name |-> "404"]>>, params |-> <<>>]

(* What a segment is called in the trie, whatever its parameter's name.    *)
SegValue(seg) ==
    CASE seg.kind = "param" -> ":" [] seg.kind = "wild" -> "*" [] OTHER -> seg.name

NodeOf(template) == [i \in DOMAIN template |-> SegValue(template[i])]

Of(table, method) == {route \in table : route.method = method}
Nodes(routes) == UNION {Prefixes(NodeOf(route.template)) : route \in routes}

(* AddRoute panics on a second handler for one node. *)
Duplicate(table, route) ==
    \E r \in Of(table, route.method) : NodeOf(r.template) = NodeOf(route.template)

(* The names of a template's parameters, in order. *)
ParamKeys(template) ==
    LET keys[i \in 0..Len(template)] ==
          IF i = 0 THEN <<>>
          ELSE IF template[i].kind = "static" THEN keys[i - 1]
          ELSE Append(keys[i - 1], template[i].name)
    IN keys[Len(template)]

(* One part of the path further down the trie; Match walks all of them. *)
(* Mutant: a parameter is preferred to a static child. *)
Down_ParamFirst(nodes, parts, i, w) ==
    IF w.at # "inside" THEN w
    ELSE IF Append(w.node, ":") \in nodes
         THEN [w EXCEPT !.node = Append(@, ":"), !.values = Append(@, <<parts[i]>>)]
    ELSE IF Append(w.node, parts[i]) \in nodes
         THEN [w EXCEPT !.node = Append(@, parts[i])]
    ELSE IF Append(w.node, "*") \in nodes
         THEN [at |-> "end", node |-> Append(w.node, "*"),
               values |-> Append(w.values, SubSeq(parts, i, Len(parts)))]
    ELSE [w EXCEPT !.at = "lost"]

(* A child called like the part comes before a parameter, which takes the  *)
(* part, and a wildcard, which takes the rest.  There is no way back up.   *)
Down(nodes, parts, i, w) ==
    IF w.at # "inside" THEN w
    ELSE IF Append(w.node, parts[i]) \in nodes
         THEN [w EXCEPT !.node = Append(@, parts[i])]
    ELSE IF Append(w.node, ":") \in nodes
         THEN [w EXCEPT !.node = Append(@, ":"), !.values = Append(@, <<parts[i]>>)]
    ELSE IF Append(w.node, "*") \in nodes
         THEN [at |-> "end", node |-> Append(w.node, "*"),
               values |-> Append(w.values, SubSeq(parts, i, Len(parts)))]
    ELSE [w EXCEPT !.at = "lost"]

WalkStart == [at |-> "inside", node |-> <<>>, values |-> <<>>]

Walk(nodes, parts) ==
    LET walk[i \in 0..Len(parts)] == IF i = 0 THEN WalkStart
                                ELSE Down(nodes, parts, i, walk[i - 1])
    IN walk[Len(parts)]

(* The keys of the handler's template with the values met on the way. *)
Params(template, values) ==
    LET keys == ParamKeys(template)
        n == IF Len(keys) < Len(values) THEN Len(keys) ELSE Len(values)
    IN [i \in 1..n |-> <<keys[i], values[i]>>]

Match(routes, parts) ==
    LET w == Walk(Nodes(routes), parts)
        found == {route \in routes : w.at # "lost" /\ NodeOf(route.template) = w.node}
    IN IF found = {} THEN NotFound
       ELSE LET t == (CHOOSE route \in found : TRUE).template
            IN [template |-> t, params |-> Params(t, w.values)]

(* ServeHTTP: the tree of the method, or that of any method when there is  *)
(* no such tree or nothing is found in it.  The root asks one tree only.   *)
Route(table, method, parts) ==
    LET tree == IF Of(table, method) # {} THEN method ELSE AnyMethod
        found == Match(Of(table, tree), parts)
    IN IF found = NotFound /\ parts # <<>> THEN Match(Of(table, AnyMethod), parts) ELSE found

-----------------------------------------------------------------------------
(* What a route is for, said without the trie.                             *)

(* The path has the template's form. *)
Fits(template, parts) ==
    /\ template = <<>> <=> parts = <<>>
    /\ \A i \in DOMAIN template :
         /\ i <= Len(parts)
         /\ template[i].kind = "static" => template[i].name = parts[i]
         /\ template[i].kind = "wild" => i = Len(template)
    /\ Len(parts) > Len(template) =>
           template # <<>> /\ template[Len(template)].kind = "wild"

Rank(seg) == CASE seg.kind = "static" -> 1 [] seg.kind = "param" -> 2 [] OTHER -> 3

(* t is the more specific where they first differ, at a segment up to k. *)
PreferredWithin(t, u, k) ==
    \E i \in DOMAIN t \cap DOMAIN u :
        /\ i <= k /\ Rank(t[i]) < Rank(u[i])
        /\ \A j \in 1..(i - 1) : SegValue(t[j]) = SegValue(u[j])

Preferred(t, u) == PreferredWithin(t, u, Len(t))

(* A template leads the walk away from u, which fits, into a dead end: it  *)
(* is preferred to u at a segment up to which the path has its form.       *)
LeadsAway(t, u, parts) ==
    \E k \in 1..Len(parts) :
        /\ k <= Len(t) /\ PreferredWithin(t, u, k)
        /\ \A i \in 1..k : t[i].kind = "static" => t[i].name = parts[i]

(* The value of a template's segment i in a path that fits it. *)
ValueAt(template, parts, i) ==
    IF template[i].kind = "wild" THEN SubSeq(parts, i, Len(parts)) ELSE <<parts[i]>>

ParamsOf(template, parts) ==
    {<<template[i].name, ValueAt(template, parts, i)>> :
        i \in {j \in DOMAIN template : template[j].kind # "static"}}
=============================================================================
