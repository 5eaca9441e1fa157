-------------------------- MODULE MCConflictView --------------------------
(* Two meshes; the first has two shapes and two uses that find different   *)
(* matches, the second one shape whose matches are of one mod and of none. *)
EXTENDS ConflictView
CONSTANTS a, b, c, none, untracked, m1, m2, s1, s2

MCMods == {a, b, c}
match(mod, shader, as, path) ==
  [mod |-> mod, shader |-> shader, as |-> as, path |-> path]

MCMeta ==
  (m1 :> ( s1 :> ( 1 :> {match(a, 2, 2, 1), match(b, 3, 3, 2), match(b, 2, 4, 3)}
                @@ 2 :> {match(a, 2, 3, 1), match(c, 4, 4, 4)})
        @@ s2 :> ( 1 :> {match(c, 2, 2, 1)}
                @@ 2 :> {match(c, 2, 2, 1), match(untracked, 4, 4, 5)})))
  @@ (m2 :> (s1 :> (1 :> {match(a, 2, 2, 1), match(untracked, 2, 2, 6)})))
MCUseCount == (m1 :> 2) @@ (m2 :> 1)

row(mod, on) == [mod |-> mod, on |-> on]
MCOrders ==
  {<<row(a, TRUE), row(b, TRUE), row(c, TRUE)>>,
   <<row(a, FALSE), row(c, TRUE), row(b, TRUE)>>}
MCFilters == {{}, {a, c}}
MCFound == {m1}
=============================================================================
