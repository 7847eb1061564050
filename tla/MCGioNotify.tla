---------------------------- MODULE MCGioNotify ----------------------------
(* Instances of GioNotify for TLC. *)
EXTENDS GioNotify, TLC

CONSTANTS fun, other

Fill(c, d, p, q) == "callback" :> c @@ "data" :> d @@ "progress" :> p @@ "pdata" :> q

(* With and without data, progress and a callback; the data is the callback
   itself; what should be callable is not.                                 *)
SomeArguments ==
  {Fill(fun, Null, Null, Null), Fill(fun, fun, Null, Null), Fill(fun, Null, fun, other),
   Fill(fun, other, other, Null), Fill(other, Null, Null, Null), Fill(Null, other, Null, Null)}

OneFailure == {{}} \cup {{c} : c \in Checks}
=============================================================================
