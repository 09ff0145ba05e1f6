-------------------------- MODULE MCErrorAbuseConf --------------------------
(* Small instances of ErrorAbuseConf: arguments that are all accepted, and   *)
(* arguments that each have one thing wrong.                                 *)
EXTENDS ErrorAbuseConf

A == <<"name", "a">>
B == <<"name", "b">>
One == <<"size", 1>>
Two == <<"size", 2>>
File == <<"persist", "file">>

GoodZones == {
    <<A, One>>,
    <<A, One, File, <<"threshold", 1>>, <<"block", 4>>>>,
    <<A, Two, File, <<"threshold", 1>>, <<"persist_secret", "hex">>>>,
    <<A, One, <<"key", "$uri">>, <<"interval", 4>>, <<"redis", "on">>,
      <<"statuses", <<<<4, 4>>, <<5, 5>>>>>>>>,
    <<B, One, File, <<"persist_interval", "5s">>, <<"inactive", 3>>,
      <<"on_full", "reject">>>>}

BadZones == {
    <<A>>, <<One>>, <<A, One, One>>, <<A, <<"size", 0>>>>,
    <<<<"name", "{braces}">>, One>>, <<A, One, <<"bogus", "x">>>>,
    <<A, One, <<"key", "invalid">>>>,
    <<A, One, <<"interval", 0>>>>, <<A, One, <<"block", 5>>>>,
    <<A, One, <<"block", 4>>, <<"inactive", 3>>>>,
    <<A, One, <<"interval", 3>>, <<"inactive", 2>>>>,
    <<A, One, <<"threshold", 0>>>>, <<A, One, <<"threshold", 3>>>>,
    <<A, One, <<"statuses", <<<<4, 4>>, <<>>>>>>>>,
    <<A, One, <<"statuses", <<<<4, 6>>>>>>>>,
    <<A, One, <<"persist", "invalid">>>>,
    <<A, One, <<"persist_interval", "5s">>>>}

MCZoneArgs == GoodZones \cup BadZones

MCEnableArgs == {
    <<<<"off">>>>, <<<<"zone", "a">>>>, <<<<"dry_run", "on">>>>,
    <<<<"zone", "b">>, <<"status", "403">>, <<"dry_run", "on">>>>,
    <<<<"zone", "a">>, <<"zone", "a">>>>,
    <<<<"zone", "a">>, <<"status", "invalid">>>>}

MCRedisArgs == {
    <<<<"port", "6379">>>>,
    <<<<"host", "h">>, <<"user", "u">>>>,
    <<<<"host", "h">>, <<"user", "u">>, <<"password", "p">>, <<"db", "1">>>>}

MCDefaultStatuses == <<<<4, 4>>>>

=============================================================================
