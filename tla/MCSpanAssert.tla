---------------------------- MODULE MCSpanAssert ----------------------------
EXTENDS SpanAssert, TLC
NilRefs == [nil |-> TRUE, list |-> <<>>]
Refs(list) == [nil |-> FALSE, list |-> list]
MCNumber == "0" :> 0 @@ "1" :> 1 @@ "2" :> 2
MCEnv == "$HOST" :> "host"
MCMatching == {<<<<"h.*">>, <<"host">>>>}
MCMalformed == {"("}
\* A span of fields only, one of tags, one of references, one that panics.
MCExpectedSpan == {
  Decode("OperationName" :> <<"GET", "root">> @@ "Duration" :> <<"ge", "1">> @@ "SpanID" :> <<"notEmpty">>,
         "http.url" :> <<"$HOST">> @@ "peer" :> <<"noop">>, NilRefs),
  Decode("Flags" :> <<"le", "1">>, "http.url" :> <<"regexp", "h.*">>, Refs(<<>>)),
  Decode("ParentSpanID" :> <<"ne", "s1">>, "peer" :> <<"host">>,
         Refs(<<<<<<"eq", "CHILD">>, <<"s1">>, <<"t1">>>>, <<<<"eq", "FOLLOWS">>, <<>>, <<>>>>>>)),
  Decode("StartTime" :> <<"regexp", "(">> @@ "SpanID" :> <<"empty">>, "peer" :> <<"eq", "a", "b">>, NilRefs)}
MCActualSpan == {
  Decode("OperationName" :> <<"GET", "root">> @@ "Duration" :> <<"2">> @@ "SpanID" :> <<"s2">>,
         "http.url" :> <<"host">> @@ "tier" :> <<"1">>, NilRefs),
  Decode("Flags" :> <<"1">>, "peer" :> <<"host">>,
         Refs(<<<<<<"FOLLOWS">>, <<"s2">>, <<"t2">>>>, <<<<"CHILD">>, <<"s1">>, <<"t1">>>>>>)),
  Decode(<<>>, "peer" :> <<"host">>,
         Refs(<<<<<<"FOLLOWS">>, <<"s2">>, <<"t2">>>>, <<<<"CHILD">>, <<"s1">>, <<"t1">>>>>>)),
  Decode(<<>>, "http.url" :> <<"host">> @@ "peer" :> <<"a">>, Refs(<<>>))}
=============================================================================
