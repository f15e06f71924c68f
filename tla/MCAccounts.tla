----------------------------- MODULE MCAccounts -----------------------------
(***************************************************************************)
(* SalesAccounts for TLC: two customers, two orders of a finished good     *)
(* packed in a drum, or of the good and the drum itself.                   *)
(***************************************************************************)
EXTENDS AccountsPages

CONSTANTS fg, drum, ann, bob

MCProducts == {fg, drum}
MCContainers == {drum}
MCUnitCost == [p \in {fg, drum} |-> IF p = fg THEN 11 ELSE 1]
MCProfiles == { [limit |-> NoLimit, net |-> 0, rating |-> 0],
                [limit |-> 24, net |-> 30, rating |-> 1] }

Good(qty, price) == [subject |-> fg, qty |-> qty, price |-> price, pack |-> drum, packs |-> 1]
Drum(price) == [subject |-> drum, qty |-> 1, price |-> price, pack |-> NoPack, packs |-> 0]

\* With a fourth decimal of 4 and a cent of 8: a Small half paid and another one reach the
\* limit of 24 exactly; Large costs 26, which no payments add up to and which the form takes
\* for 24; Under sells below its cost of 12.
Small == <<Good(1, 16)>>
Large == <<Good(1, 16), Drum(10)>>
Under == <<Good(1, 8)>>
MCCarts == {Small, Large, Under}   \* the last one with an override only

MCEdits == {[cart |-> Small], [cart |-> Large, customer |-> bob]}
MCImports == { [customer |-> ann, number |-> 2, due |-> 5, cart |-> Under,
                mays |-> <<{"price"}>>] }
MCMargin == [r \in {0, 1} |-> IF r = 0 THEN 100 ELSE 50]
MCDays == {0, 31}
MCAgingSteps == <<0, 30>>
=============================================================================
