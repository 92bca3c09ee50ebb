---- MODULE MCRouting ----
(* Routes of a pattern that leaves the pool alone and of one that takes a  *)
(* DID too; two routes with no number in common                            *)
EXTENDS Routing

CONSTANTS s1, s3, s4, n1, n2, d1, d2, c1, c2
Via(p, o, i, f) == [pattern |-> p, origin |-> o, inter |-> i, final |-> f]

Plain == {n1, n2}
Wide == {n1, n2, d1}
MCPatterns == {Plain, Wide}
MCOffered == {Via(Plain, s1, s3, s4), Via(Wide, s1, s3, s4)}

Narrow == {n1}
Apart == {n2}
ApartPatterns == {Narrow, Apart}
ApartOffered == {Via(Narrow, s1, s3, s4), Via(Apart, s1, s3, s4)}
====
