----------------------------- MODULE MCServices -----------------------------
(* A small instance of Services *)
EXTENDS Services

\* A feed-in, and more than the inverter can give
SiteLoads == {-900, 3000}

\* A site with 700 W of solar power, 100 W of it from a PV inverter, and its modes:
\* none; "only charging" with an EV of unknown power left to the grid; a charge, in
\* and out of the tariff window, with a charging EV left to the grid; the solar power
\* to the grid while an EV charges by the garage's meter, or its own; no feed, with an
\* EV of unknown power; and house support.
SiteModes ==
  LET plain == [onlyCharging |-> FALSE, noFeed |-> FALSE, houseSupport |-> FALSE, charge |-> FALSE,
                blocked |-> FALSE, exclude |-> FALSE, limitToEv |-> FALSE, ev |-> 0, garage |-> 0,
                mppt |-> 700, pv |-> 100]
  IN  {plain, [plain EXCEPT !.onlyCharging = TRUE, !.exclude = TRUE, !.ev = None],
       [plain EXCEPT !.charge = TRUE],
       [plain EXCEPT !.charge = TRUE, !.blocked = TRUE, !.exclude = TRUE, !.ev = 1200],
       [plain EXCEPT !.limitToEv = TRUE, !.ev = None, !.garage = 1500],
       [plain EXCEPT !.limitToEv = TRUE, !.onlyCharging = TRUE, !.ev = 1200],
       [plain EXCEPT !.noFeed = TRUE, !.exclude = TRUE, !.ev = None],
       [plain EXCEPT !.houseSupport = TRUE]}

\* The limits as shipped, and narrow
SiteRanges == {[min |-> -2300, max |-> 2250], [min |-> -100, max |-> 150]}

=============================================================================
