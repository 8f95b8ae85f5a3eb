----------------------------- MODULE MCIngress -----------------------------
(***************************************************************************)
(* Ingress on a small instance for TLC.                                    *)
(***************************************************************************)
EXTENDS Ingress

At1(method, template) == [method |-> method, template |-> template]

Hook == At1("POST", <<Static("hook")>>)
Adding == At1("GET", <<Static("add")>>)

(* Static, parameter and wildcard segments that compete at every place, for *)
(* one method and for any.                                                  *)
SomeRoutes ==
    {Hook, Adding}
        \cup {At1("GET", t) : t \in {<<>>, <<Static("a"), Static("b")>>, <<Param("x")>>,
                                     <<Param("y"), Static("c")>>, <<Param("x"), Param("y")>>,
                                     <<Static("a"), Wild("w")>>, <<Wild("w")>>}}
        \cup {At1(AnyMethod, t) : t \in {<<>>, <<Static("a"), Param("y")>>}}

Body(size, eof) == [size |-> size, eof |-> eof]
Small == Body(1, "with data")
Ask(method, path, body) == [method |-> method, path |-> path, event |-> "e", body |-> body]

SomePaths ==
    {<<>>, <<"a">>, <<"hook">>, <<"add">>, <<"a", "b">>, <<"a", "c">>, <<"b", "c">>,
     <<":", "b">>, <<"a", "b", "c">>}

SomeLookups == {Ask(m, p, Small) : m \in {"GET", "POST"}, p \in SomePaths}

(* A webhook whose body is small, or as large as the limit, or that has no  *)
(* id; the handler that registers a route.                                  *)
SomeAsks ==
    {Ask("POST", <<"hook">>, b) : b \in {Small, Body(2, "alone")}}
        \cup {Ask("GET", <<"add">>, Small)}
        \cup {[Ask("POST", <<"hook">>, Small) EXCEPT !.event = None]}

Config(timeout, workers, depth) == [timeout |-> timeout, workers |-> workers, depth |-> depth]

(* One worker and no queue or a queue of two; two workers. *)
SomeConfigs ==
    {Config(TRUE, 1, 0), Config(FALSE, 1, 2), Config(TRUE, 2, 0), Config(FALSE, 2, 0)}
=============================================================================
