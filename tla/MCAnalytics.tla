------------------------------ MODULE MCAnalytics ---------------------------
(* Analytics with two channels, two publishers and the batches that matter.  *)
EXTENDS Analytics

\* "Bob" and "bob" are one address with and without capitals, "0x" is none.
MCtoBalancesKey == ("ann" :> "ann") @@ ("bob" :> "bob") @@ ("Bob" :> "bob") @@ ("0x" :> "malformed")

MCCreator == ("red" :> "Rita") @@ ("blue" :> "Ben")

Event(type, publisher, price) ==
  [type |-> type, publisher |-> publisher, shown |-> TRUE, price |-> price]
View(publisher) == Event("IMPRESSION", publisher, 1)
Click(publisher) == Event("CLICK", publisher, 2)
Hidden(ev) == [ev EXCEPT !.shown = FALSE]
Close == Event("CLOSE", "none", 0)

Body(channel, events) == [channel |-> channel, events |-> events]

MCBodies ==
  { Body("red", <<View("ann")>>), Body("red", <<View("Bob"), Click("ann"), Close>>),
    Body("red", <<Close, View("ann"), Click("Bob")>>),
    Body("red", <<View("ann"), View("0x")>>),
    Body("blue", <<Hidden(View("ann")), View("Bob")>>) }
=============================================================================
