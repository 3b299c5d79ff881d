------------------------------ MODULE MCCoverage ------------------------------
(* Instances of Coverage for TLC. *)
EXTENDS Coverage

Setting(name, value) == [name |-> name, value |-> value]

\* The settings every run needs, on the command line or in a file; the log
\* where the report would go by default; the log over the CSV.
Net == Setting("-net", <<"net">>)
Fdp == Setting("-fdp", <<"fdp">>)
Needed(log) == <<Net, Fdp, Setting("-log", log)>>
Required == Needed(<<"log">>)

CountLists == {<<1>>, <<3, 1, 3>>, <<6, 2>>, <<0>>, <<1, 2, 3, 4>>}
Extra ==
  {Setting("-calc_f", c) : c \in CountLists} \union
  {Setting("-calc_f_nr", <<"on">>), Setting("-calc_f_nr", NoValue),
   Setting("-calc_f_out", <<"out">>), Setting("-calc_f_out", <<"fdp">>),
   Setting("-cube", <<"cube">>), Setting("-tdf", NoValue)}

SomeCommands ==
  {Required \o tail : tail \in UNION {[1 .. n -> Extra] : n \in 0 .. 2}} \union
  {<<Setting("-set", <<Required>>)>> \o tail : tail \in [1 .. 1 -> Extra]} \union
  {Needed(log) \o <<Setting("-calc_f", <<2>>)>> : log \in {<<"fdp", "F">>, <<"fdp">>}} \union
  {<<Setting("-set", <<<<Setting("-set", <<Required>>)>>>>)>>, <<Setting("-set", NoValue)>>,
   Required \o <<Setting("-set", <<<<>>>>), Setting("-calc_f", <<2>>)>>,
   <<Setting("-set", <<Required \o <<Setting("-calc_f", <<1, 2>>)>>>>), Setting("-calc_f", <<4, 3>>)>>,
   <<Net>>, <<Net, Fdp>>, Needed(<<"fdp">>),
   Required \o <<Setting("-equiv", <<"pairs">>), Setting("-tdf", NoValue)>>,
   Required \o <<Setting("-cube", <<"log">>)>>,
   Required \o <<Setting("-calc_f", <<5, 2>>), Setting("-calc_f_nr", <<"on">>),
                Setting("-calc_f", <<4, 1>>), Setting("-cube", <<"cube">>)>>}

\* One group of two faults, or a group of two and one of a single fault, with
\* every number of detecting patterns, all or some of them found.
Groups(size) ==
  {[size |-> size, found |-> f, detecting |-> d] : f, d \in 0 .. TotalPatterns}
Possible(g) == g.found = g.detecting \/ (0 < g.found /\ g.found < g.detecting)
GroupsOf(size) == {g \in Groups(size) : Possible(g)}
SomeResults == {<<>>} \union {<<g>> : g \in GroupsOf(2)}
               \union {<<g, h>> : g \in GroupsOf(2), h \in GroupsOf(1)}

AllCircuits == {"combinational", "sequential", "reset"}
=============================================================================
