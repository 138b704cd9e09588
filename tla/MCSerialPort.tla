---------------------------- MODULE MCSerialPort ----------------------------
(* Model values for SerialPort.                                            *)
EXTENDS SerialPort

CONSTANTS ff, nul, x

MCByte    == {ff, nul, x}
MCMessage == { <<x, nul>> }

Slow   == [speed |-> 9600,  parity |-> FALSE]
Fast   == [speed |-> 19200, parity |-> FALSE]
Parity == [speed |-> 19200, parity |-> TRUE]

\* The parity changes with the speed, or without.
MCSettings == {Slow, Fast, Parity}
=============================================================================
