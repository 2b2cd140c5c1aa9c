---------------------------- MODULE MCStreamPath ----------------------------
(***************************************************************************)
(* Small instances of StreamPath: a look-ahead of three events, a capture  *)
(* and a buffer of six units, a channel of two, a tick every second one.   *)
(***************************************************************************)
EXTENDS StreamPath

Line(kind, size) == [kind |-> kind, size |-> size]
Small(kind)      == Line(kind, 1)
End              == <<Small("finish"), Small("done")>>

\* Answers, with and without a signature that ends them, the two shapes of an
\* empty stream, streams whose first events say nothing, and two whose lines the
\* scanner must read past the capture for.
Ordinary == {
  << >>,
  End,
  <<Line("junk", 2)>>,
  <<Small("space"), Small("space")>>,
  <<Small("blank"), Small("finish")>>,
  <<Small("blank"), Line("answer", 2)>> \o End,
  <<Small("comment"), Small("comment"), Small("comment"), Line("answer", 2), Small("done")>>,
  <<Line("think", 2), Line("thinkMore", 3), Line("answer", 3)>> \o End,
  <<Small("blank"), Line("answer", 7)>> \o End,
  <<Line("comment", 4), Line("answer", 4)>> \o End}

=============================================================================
