---------------------------- MODULE MCSessionWork ----------------------------
(***************************************************************************)
(* Three sessions, two calls at a time and two plugins; each scenario lets *)
(* a few calls meet that write about the same session.                     *)
(***************************************************************************)
EXTENDS SessionWork

MCSessions == {1, 2, 3}
MCCalls == {11, 12}

MCCore == {"session.create", "session.direct", "session.archive", "session.resume", "session.delete",
           "net.connect", "runtime.control"}
MCLocal == {"package:a.sync"}
MCOwnerOf == [x \in MCLocal |-> <<"a">>]
MCSensitive == {"net.connect", "runtime.control"}

\* The second caller is a plugin that may not resume sessions.
MCActorOf == [c \in Slots |-> CASE c = 11 -> <<"plugin", "a">> [] c = 12 -> <<"plugin", "b">>
                                [] OTHER -> <<"runtime", "work">>]

Profile(rules) ==
  [denyUnknown |-> TRUE, granted |-> MCCore \cup MCLocal, rules |-> rules,
   network |-> [mode |-> "allowlist", allowlist |-> {<<s>> : s \in MCSessions}]]
Usual == Profile({Rule(<<"plugin", "a">>, {}, {}, {}), Rule(<<"plugin", "b">>, {}, {"session.resume"}, {}),
                  Rule(<<"runtime">>, {}, {}, {})})

\* Rules that overlap in actors and in targets.
SomeRules == {Rule(<<"plugin">>, {"net.connect"}, {}, {}),
              Rule(<<"plugin", "a">>, {"net.connect", "package:a.sync"}, {}, {<<1>>}),
              Rule(<<"plugin">>, {}, {"net.connect"}, {<<1, 1>>}),
              Rule(<<"plugin", "a">>, {}, {"net.connect"}, {<<1, 1>>, <<2>>}),
              Rule(<<"runtime", "work">>, {"session.create"}, {}, {})}
MCRequests ==
  [actor : {<<"plugin", "a">>, <<"plugin", "b">>, <<"runtime", "work">>, <<"runtime", "x">>, <<"user">>},
   action : {"net.connect", "package:a.sync", "session.create", "unheard"},
   target : {<<1>>, <<1, 1>>, <<2>>}]
Profiles == {Profile(rules) : rules \in SUBSET SomeRules}
            \cup {[Usual EXCEPT !.network.mode = "none"], [Usual EXCEPT !.granted = {"net.connect"}],
                  [Usual EXCEPT !.denyUnknown = FALSE, !.granted = @ \cup {"unheard"}]}

None == [k \in {"create", "bind", "direct", "archive", "delete", "drop", "forget", "resume", "message",
                "stop", "stopAll", "start", "startAll", "ask", "time", "crash"} |-> 0]
With(kinds) == [k \in DOMAIN None |-> IF k \in kinds THEN 1 ELSE 0]

Row(life, auto) == [life |-> life, auto |-> auto, seen |-> 0,
                    status |-> IF auto THEN "ready" ELSE "closed"]
Rows(a, b, c) == [s \in MCSessions |-> <<a, b, c>>[s]]
hot == Row("hot", TRUE)
stopped == Row("hot", FALSE)
archived == Row("archived", TRUE)

Scenario(r, l) == [rows |-> r, profile |-> Usual, left |-> l]
MCScenarios ==
  {Scenario(Rows(hot, Absent, Absent), [With({"bind", "crash"}) EXCEPT !["create"] = 2]),
   Scenario(Rows(archived, hot, Absent), With({"create", "resume", "direct", "forget"})),
   Scenario(Rows(hot, Absent, Absent), With({"archive", "direct", "resume", "message"})),
   Scenario(Rows(archived, Absent, Absent), With({"delete", "resume", "start", "crash"})),
   Scenario(Rows(hot, Absent, Absent), With({"drop", "direct", "stop", "forget", "start"})),
   Scenario(Rows(stopped, hot, Absent), With({"startAll", "drop", "archive"})),
   Scenario(Rows(hot, Absent, Absent), With({"archive", "direct", "crash"})),
   Scenario(Rows(hot, hot, Absent), [With({"message"}) EXCEPT !["time"] = 2]),
   Scenario(Rows(hot, Absent, Absent), [With({"direct", "resume"}) EXCEPT !["time"] = 3]),
   Scenario(Rows(hot, Absent, Absent), With({"create", "archive", "drop"})),
   [Scenario(Rows(hot, Absent, Absent), With({"direct", "message"})) EXCEPT !.profile.network.mode = "none"],
   Scenario(Rows(hot, Absent, Absent), With({"stopAll", "create", "start"}))}
  \cup {[rows |-> Rows(Absent, Absent, Absent), profile |-> p, left |-> With({"ask"})] : p \in Profiles}
=============================================================================
