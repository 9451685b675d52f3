--------------------------- MODULE MCConversions ---------------------------
(***************************************************************************)
(* Documents for Conversions: each varies one part of a small topology     *)
(* over all that this part may look like.                                  *)
(***************************************************************************)
EXTENDS Conversions

Text(digits, decimals, unit) == Str([digits |-> digits, decimals |-> decimals, unit |-> unit])
Sleep(parses) == Object([sleep |-> Duration(parses)])
CallOf(name) == Object([call |-> Str(name)])
CallWith(target) == Object([call |-> Object(target)])
ServiceWith(name, settings) == Object([name |-> Str(name)] @@ settings)
File(list) == [services |-> Array(list)]

\* Around what is printed with three, two, one or no decimals, and ties.
SizeValues ==
  {Num(z) : z \in {-1, 0, 1, 1023, 1024, 1025, 1066, 1536, 9999, 10234, 10235, 10239, 10245, 100003,
                   102399, 102400, 1023999, 1048575, 1048576, 1049601, 10485759, 104857600, 1073741823}}
    \cup {Text(16, 0, 1), Text(15, 1, 0), Text(1041, 3, 1), Text(2, 0, 6), Bool(TRUE)}

Targets ==
  {Object([service |-> Str("b")]), Object([size |-> Num(5)]), Object([service |-> Num(1)]), Num(1),
   Object([service |-> Str("b"), size |-> Num(-1)]), Str("a"), Str("b"), Str("z")}

Singles ==
  {Sleep(TRUE), Sleep(FALSE), Object([sleep |-> Num(1)]), Object(<<>>), Object([wait |-> Num(1)]), Num(1),
   Object([sleep |-> Duration(TRUE), call |-> Str("b")])}
    \cup {Object([call |-> t]) : t \in Targets}

Scripts ==
  {Array(<<c>>) : c \in Singles} \cup {Array(<<Sleep(TRUE), Array(<<c, CallOf("b")>>), c>>) : c \in Singles}
    \cup {Array(<<Array(<<Array(<<c>>)>>)>>) : c \in Singles}
    \cup {Array(<<>>), Array(<<Array(<<>>)>>), Array(<<Array(<<Array(<<>>)>>)>>), Sleep(TRUE),
          Array(<<CallOf("b"), CallOf("b"), Array(<<CallOf("b"), CallOf("a"), CallOf("b")>>)>>)}

SettingsOf ==
  {[responseSize |-> v] : v \in SizeValues} \cup {[script |-> v] : v \in Scripts}
    \cup {[type |-> v] : v \in {Str("http"), Str("grpc"), Str("HTTP"), Num(1)}}
    \cup {[numReplicas |-> v] : v \in {Num(0), Num(3), Bool(TRUE)}}
    \cup {[errorRate |-> v] : v \in {Num(-1), Num(0), Num(1), Num(10000), Num(10001), Bool(TRUE)}
                                    \cup {Str([number |-> n, percent |-> b]) : n \in {5, 101}, b \in BOOLEAN}}

\* In a service; in the defaults, over a service that has its own script and
\* one that has not.
ServiceDocuments ==
  {File(<<ServiceWith("a", s), ServiceWith("b", [isEntrypoint |-> Bool(TRUE)])>>) : s \in SettingsOf}
DefaultDocuments ==
  {[defaults |-> Object(s),
    services |-> Array(<<ServiceWith("a", [script |-> Array(<<Array(<<CallOf("b")>>)>>)]),
                         ServiceWith("b", <<>>)>>)] : s \in SettingsOf}
RequestSizes ==
  {[defaults |-> Object([requestSize |-> v]),
    services |-> Array(<<ServiceWith("a", [script |-> Array(<<CallOf("a"), CallWith([size |-> v, service |-> Str("a")])>>)])>>)]
   : v \in SizeValues}
Odd ==
  {<<>>, File(<<>>), [services |-> Num(1)], [defaults |-> Num(1)], File(<<Num(1)>>), File(<<Object(<<>>)>>),
   File(<<ServiceWith("", <<>>)>>), File(<<Object([name |-> Num(1)])>>),
   File(<<ServiceWith("a", [isEntrypoint |-> Num(1)])>>),
   File(<<ServiceWith("a", [script |-> Array(<<CallOf("a")>>)]), ServiceWith("a", <<>>)>>),
   [defaults |-> Object([script |-> Array(<<CallOf("z")>>)]), services |-> Array(<<>>)],
   [defaults |-> Object([script |-> Array(<<CallOf("z")>>)]),
    services |-> Array(<<ServiceWith("a", [script |-> Array(<<>>)])>>)],
   [defaults |-> Object([script |-> Array(<<Array(<<Array(<<CallOf("a")>>)>>)>>)]),
    services |-> Array(<<ServiceWith("a", [script |-> Array(<<>>)])>>)]}

AllDocuments == ServiceDocuments \cup DefaultDocuments \cup RequestSizes \cup Odd

SomeShapes ==
  {[levels |-> 3, branches |-> 3], [levels |-> 1, branches |-> 2], [levels |-> 4, branches |-> 1],
   [levels |-> 4, branches |-> 2], [levels |-> 2, branches |-> 5]}
SomeNodeSelectors == {<<"pool", "service-graph-pool">>, <<"pool">>, <<"pool", "a", "b">>}
=============================================================================
