----------------------------- MODULE MCGraphParse -----------------------------
(***************************************************************************)
(* Instances of GraphParse for TLC.                                        *)
(***************************************************************************)
EXTENDS GraphParse

CONSTANTS p1, p2, p3

Calling(size) == [calls |-> <<[service |-> "a", size |-> size]>>, nested |-> FALSE]
TwoCalls == [calls |-> <<[service |-> "a", size |-> Omitted], [service |-> "b", size |-> 7]>>,
             nested |-> FALSE]
Entry(name, setting, script) == [name |-> name, setting |-> setting, script |-> script]

\* Its services inherit all there is to inherit.
Inheriting ==
  [wellFormed |-> TRUE, setting |-> 2, requestSize |-> 5, script |-> TwoCalls,
   services |-> <<Entry("a", Omitted, Omitted), Entry("b", 3, Calling(Omitted))>>]
\* No defaults map.
Plain ==
  [wellFormed |-> TRUE, setting |-> 1, requestSize |-> 0, script |-> NoScript,
   services |-> <<Entry("a", Omitted, Omitted), Entry("b", Omitted, Calling(Omitted))>>]
\* A service without a name, after one that inherits.
Nameless ==
  [wellFormed |-> TRUE, setting |-> 3, requestSize |-> 9, script |-> Calling(Omitted),
   services |-> <<Entry("a", Omitted, Omitted), Entry("", Omitted, Omitted)>>]
\* A call of an undefined service.
Undefined ==
  [wellFormed |-> TRUE, setting |-> 3, requestSize |-> 9, script |-> Calling(7),
   services |-> <<Entry("b", Omitted, Omitted)>>]
Malformed == [Plain EXCEPT !.wellFormed = FALSE]

AllDocs == {Inheriting, Plain, Nameless, Undefined, Malformed}
Inherited == {Inheriting}
=============================================================================
