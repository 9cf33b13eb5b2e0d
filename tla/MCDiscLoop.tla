----------------------------- MODULE MCDiscLoop -----------------------------
(* Instances of DiscLoop: the cards, who is about, the configurations.     *)
EXTENDS DiscLoop

CONSTANTS a1, a2, a3, a4, a5, a6, b1, b2, f1, f2, n1

\* The ATQA tells the size of the identifier.
A(plat, uid) == [tech |-> "A", plat |-> plat, uid |-> uid, atqa |-> Len(uid), rates |-> [low |-> FALSE, symmetric |-> FALSE, dr |-> {1}, ds |-> {1}]]
Other(tech, plat, dr, ds) == [A(plat, <<>>) EXCEPT !.tech = tech, !.rates = [low |-> FALSE, symmetric |-> dr = ds, dr |-> dr, ds |-> ds]]

MCKind ==
     a1 :> A("T2T", <<<<0, 0, 1>>>>)
  @@ a2 :> A("T4A", <<<<1, 0, 1>>, <<0, 0, 0>>>>)
  @@ a3 :> A("P2P", <<<<0, 1, 0>>>>)
  @@ a4 :> A("T2T", <<<<0, 0, 0>>>>)
  @@ a5 :> A("T2T", <<<<1, 0, 1>>, <<0, 1, 0>>>>)
  @@ a6 :> A("P2P", <<<<1, 1, 0>>, <<0, 0, 0>>>>)
  @@ b1 :> Other("B", "T4B", {1, 2}, {1})
  @@ b2 :> Other("B", "T4B", {1}, {1})
  @@ f1 :> Other("F", "P2P", {}, {})
  @@ f2 :> Other("F", "T3T", {}, {})
  @@ n1 :> Other("N", "P2P", {}, {})

Default == [poll |-> {"A", "B", "F"}, bail |-> {}, noColl |-> FALSE, limitA |-> 3, limitB |-> 3, slots |-> 0,
            loops |-> 1, mode |-> "poll pause", active106 |-> FALSE, rate |-> <<0, 0>>]

\* The identifiers of the first world are of two sizes.
MCWorlds == {{a1, a2, a3}, {a2, a5, a6}, {a2, b1, f1}, {f1, f2, n1}}
MCConfigs ==
  {Default,
   [Default EXCEPT !.bail = {"A", "B"}, !.rate = <<1, 1>>],
   [Default EXCEPT !.poll = {"B", "F"}, !.bail = {"B"}, !.limitB = 1, !.slots = 1, !.rate = <<2, 2>>],
   [Default EXCEPT !.poll = {"A", "active", "F"}, !.loops = 2, !.mode = "poll listen", !.noColl = TRUE],
   [Default EXCEPT !.poll = {"A", "active"}, !.limitA = 2, !.active106 = TRUE]}

\* Two cards whose identifiers differ in the last bit.
TwinWorlds == {{a1, a4}}

\* Two cards of type B.
PupiWorlds == {{b1, b2}}

ASSUME HypothesesAssumption ==
  /\ NoTwins(MCWorlds) /\ OwnIdentifiers(MCWorlds) /\ OneOfTypeB(MCWorlds) /\ OneOfLayer4(MCWorlds)
  /\ ~NoTwins(TwinWorlds) /\ ~OneOfTypeB(PupiWorlds)

=============================================================================
