----------------------------- MODULE MCAdIndex -----------------------------
(***************************************************************************)
(* Instances of AdIndex for TLC, with ages of two bits.  LastStart is the  *)
(* last of them: only then can a range be upside down by more than one, so *)
(* that its wrapped slice has elements.                                    *)
(***************************************************************************)
EXTENDS AdIndex, TLC

CONSTANT TW

\* Age 0 twice, a country twice, a range that is upside down (three elements that
\* stay nil, and the zero value), and one that ends with the type's last value;
\* the first three in one second, their ids in the other order.
Young == [id |-> 3, start |-> 0, end |-> 1, country |-> <<TW>>, created |-> 5]
Twice == [id |-> 2, start |-> 1, end |-> 1, country |-> <<TW, TW>>, created |-> 6]
Inverted == [id |-> 1, start |-> 3, end |-> 1, country |-> <<>>, created |-> 7]
Old == [id |-> 4, start |-> 2, end |-> 3, country |-> <<TW>>, created |-> 8]

\* One that the API refuses.
Endless == [id |-> 5, start |-> 0, end |-> 0, country |-> <<>>, created |-> 9]

Various == {Young, Twice, Inverted, Old, Endless}
=============================================================================
