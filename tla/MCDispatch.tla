---------------------------- MODULE MCDispatch ---------------------------
(***************************************************************************)
(* Values for model-checking Dispatch: every method, no parameter, one     *)
(* parameter in either spelling or two in the right one, paths with and    *)
(* without key, nested keys, stray slashes, and a name the routers claim.  *)
(***************************************************************************)
EXTENDS Dispatch

MCPaths == {<<"">>, <<"b1">>, <<"b1", "">>, <<"b1", "k1">>, <<"b1", "k1", "k2">>,
            <<"b1", "k1", "">>, <<"b1", "", "k1">>, <<"health">>}
MCPlainPaths == {<<"">>, <<"k1">>, <<"k1", "k2">>}

MCQueries == {{}} \cup {{<<p, s>>} : p \in Params, s \in {"exact", "folded"}}
                  \cup {{<<p, "exact">>, <<o, "exact">>} : p, o \in Params}

MCShape(method, host, path, params, copy, class, chunked) ==
  [method |-> method, host |-> host, path |-> path, params |-> params, copy |-> copy,
   class |-> class, chunked |-> chunked]

MCFramings == {<<"", FALSE>>, <<"GLACIER", FALSE>>, <<"OUTPOSTS", FALSE>>, <<"", TRUE>>}

MCShapesAt(hosts, paths) ==
  {MCShape(m, h, p, qs, c, f[1], f[2]) :
     m \in Methods, h \in hosts, p \in paths, qs \in MCQueries, c \in BOOLEAN, f \in MCFramings}

MCShapes == MCShapesAt({NoBucket, "b2"}, MCPaths)
MCVirtualHosted == MCShapesAt({"b2"}, MCPlainPaths)

(* Every feature alone is off, none is, or all are. *)
MCFlagSets == {Features, {}} \cup {Features \ {g} : g \in Features}
=============================================================================
