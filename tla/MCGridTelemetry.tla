-------------------------- MODULE MCGridTelemetry --------------------------
(* Small instances of GridTelemetry: one meter and the inverter's own         *)
(* measurement as the fallback Venus OS may substitute for it.                *)
EXTENDS GridTelemetry

CONSTANTS mA, inv

MeterOrInverter == {<<mA, 1>>, <<inv, 2>>}
MeterOrNothing  == {<<mA, 1>>, None}
OneOrTwoPhases  == {{1}, {1, 2}}
TwoPhaseMeter   == {2}
MayDeclare      == {2, None}

=============================================================================
