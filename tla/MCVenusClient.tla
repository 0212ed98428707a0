--------------------------- MODULE MCVenusClient ---------------------------
(* A small instance of VenusClient *)
EXTENDS VenusClient

\* What a chain of cells may answer: all is well; a cell at its cutoff, another
\* cold; a chain that forbids a charge, with its cells or with nothing measured;
\* one that is nearly empty
CellReadings ==
  LET cell(high, low, hot, cold, soc, charge) ==
        [high |-> high, low |-> low, hot |-> hot, cold |-> cold, soc |-> soc, charge |-> charge, discharge |-> TRUE]
  IN  {cell(330, 328, 20, 18, 50, TRUE), cell(360, 340, 12, 0, 99, TRUE),
       cell(352, 350, 3, 3, None, FALSE), cell(None, None, None, None, None, FALSE),
       cell(300, 270, 45, 45, 8, TRUE)}

=============================================================================
