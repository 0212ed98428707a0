------------------------ MODULE MCInverterController ------------------------
(* Small instances of InverterController: a wide and a narrow power range,    *)
(* and one that forces a charge (validate_power_limits allows it).            *)
EXTENDS InverterController

Wide   == [min |-> -3, max |-> 3]
Narrow == [min |-> -1, max |-> 1]
Above  == [min |-> 1, max |-> 2]

Discharge         == {-2}
DischargeOrCharge == {-2, 2}

WideOnly      == {Wide}
WideAndAbove  == {Wide, Above}
WideAndNarrow == {Wide, Narrow}

=============================================================================
