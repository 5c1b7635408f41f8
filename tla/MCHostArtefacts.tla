-------------------------- MODULE MCHostArtefacts --------------------------
EXTENDS HostArtefacts, TLC

Same == [p \in Paths |-> CHOOSE q \in Paths : TRUE]
Of(mode, keep, channel) == [mode |-> mode, keep |-> keep, copies |-> TRUE, channel |-> channel]
Some == {[Of("off", "summary", TRUE) EXCEPT !.copies = FALSE], Of("on_delivery", "nothing", TRUE),
         Of("on_delivery", "summary", FALSE), Of("always", "evidence", TRUE)}
Alike == Permutations(Rules)
=============================================================================
