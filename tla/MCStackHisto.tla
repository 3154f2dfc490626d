---------------------------- MODULE MCStackHisto ----------------------------
EXTENDS StackHisto, TLC

CONSTANTS i1, i2, i3, i4, i5, i6

MCIds == {i1, i2, i3, i4, i5, i6}
(* i1 and i2: resolved, to two stacks; i3: an idle kernel stack; i4: a
   kernel stack no longer in the map; i5: no stack at all; i6: a user stack
   no longer in the map. *)
MCKern == (i1 :> "ok" @@ i2 :> "ok" @@ i3 :> "idle" @@ i4 :> "missing" @@ i5 :> "none" @@ i6 :> "ok")
MCUser == (i1 :> "ok" @@ i2 :> "none" @@ i3 :> "none" @@ i4 :> "ok" @@ i5 :> "none" @@ i6 :> "missing")
MCStrOf == (i1 :> "s1" @@ i2 :> "s2" @@ i3 :> "" @@ i4 :> "s2" @@ i5 :> "" @@ i6 :> "s1")
MCStrs == {"", "s1", "s2"}
====
