---------------------------- MODULE MCUndoHistory ----------------------------
\* One itinerary with one point, and a second point that may be added.
EXTENDS UndoHistory

CONSTANTS project, itinerary, p, q

MCParent == [o \in Objects |-> CASE o \in {p, q} -> itinerary [] OTHER -> project]
MCKeys == {"title", "route", "at"}
MCInputs == {<<itinerary, "route">>, <<p, "at">>, <<q, "at">>}
MCSettable == {<<itinerary, "title">>, <<p, "at">>, <<q, "at">>}
\* Enough room between two positions for the halvings of these bounds.
MCBetween(low, high) == IF high = 0 THEN low + 16 ELSE (low + high) \div 2

MCNoValue == Given("none", 0)
Plain == {"none", "v", "m", "t"} \X (0..3) \X {MCNoValue[3]}
MCValues ==
  {"none", "v", "m", "t", "r"} \X (0..3) \X [RouteInputs -> {<<>>} \cup ((1..80) \X Plain)]

Written(o) == IF o = p THEN <<16, Given("v", 0)>> ELSE <<>>
Empty == [k \in Keys |-> MCNoValue]
MCFirst ==
  [o \in Objects |->
     CASE o = project -> [pos |-> 0, props |-> Empty]
       [] o = itinerary ->
            [pos |-> 16, props |-> [Empty EXCEPT !["title"] = Given("v", 0),
                                                 !["route"] = <<"r", 0, [c \in RouteInputs |-> Written(c[1])]>>]]
       [] o = p -> [pos |-> 16, props |-> [Empty EXCEPT !["at"] = Given("v", 0)]]
       [] OTHER -> NoObject]
=============================================================================
