---------------------------- MODULE MCDeployment ----------------------------
(***************************************************************************)
(* Deployment for TLC.  The client's address is "a"; the feeds list it at  *)
(* and below the threshold, as an IPv4-mapped text, and twice.             *)
(***************************************************************************)
EXTENDS Deployment, TLC

Settings == {-1, 0, 1, 2}

V4Of == "a" :> "A" @@ "a6" :> "A" @@ "b" :> "B" @@ "v6" :> NoIP @@ "junk" :> NoIP

CountryOf ==
    "a" :> "RU" @@ "a6" :> "RU" @@ "b" :> "DE" @@ "v6" :> "RU" @@ "junk" :> NoCode

UpperOf == "RU" :> "RU" @@ " ru" :> "RU" @@ "De " :> "DE" @@ "  " :> NoCode

Entry(addr, count) == [kind |-> "entry", addr |-> addr, count |-> count]
Comment == [kind |-> "comment", addr |-> "a", count |-> 9]
Short == [kind |-> "short", addr |-> "a", count |-> 9]
TooLong == [kind |-> "toolong", addr |-> "a", count |-> 9]

AtThreshold == <<Comment, Entry("b", 2), Entry("a6", 3), Entry("a", 1)>>
Harmless == <<Short, Entry("a", 2), Entry("a", -1)>>
Unusable == <<Entry("junk", 9), Entry("v6", 9), Entry("b", 5)>>
Unreadable == <<Entry("b", 5), TooLong>>

Conf(lines, ipsumOn, geoOn, codes) ==
    [feed |-> lines, ipsum |-> ipsumOn, geo |-> geoOn, countries |-> codes]

SomeConfs ==
    { Conf(AtThreshold, TRUE, FALSE, <<>>),
      Conf(Harmless, TRUE, TRUE, <<"De ">>),
      Conf(Unusable, TRUE, TRUE, <<"  ", " ru">>),
      Conf(Unreadable, TRUE, FALSE, <<>>),
      Conf(Harmless, FALSE, TRUE, <<"  ">>),
      Conf(AtThreshold, FALSE, FALSE, <<>>) }

=============================================================================
