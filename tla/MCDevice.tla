------------------------------ MODULE MCDevice ------------------------------
(***************************************************************************)
(* The data path of the device for TLC: the local bus and its polling      *)
(* (LocalBus), the container of data blocks (DataBuffers) and the serial   *)
(* ports with the console (Console).  A behaviour is one of the component  *)
(* that part names; the others rest in their initial state.                *)
(*                                                                         *)
(* Bounds: one unit, or two at the first two indices as slavesAddress in   *)
(* p_slave_data_io.cpp; a request queue of two; three buffers; a line that *)
(* is complete by itself at three characters in a buffer of four.          *)
(***************************************************************************)
EXTENDS LocalBus, DataBuffers, Console

CONSTANT Parts      \* the components of a run

VARIABLE part

TwoUnits == [i \in 0 .. 2 |-> IF i < 2 THEN i + 1 ELSE 0]
OneUnit  == [i \in 0 .. 1 |-> IF i = 0 THEN 1 ELSE 0]
WriteCommand == {<<"w">>}

deviceVars == <<part, vars, bufferVars, portVars>>

DeviceInit ==
  /\ part \in Parts
  /\ Init /\ BuffersInit /\ PortInit
  /\ part # "databuffers" => simLeft = 0    \* a component at rest has one initial state

LocalBusStep    == part = "localbus" /\ Next /\ UNCHANGED <<part, bufferVars, portVars>>
DataBuffersStep == part = "databuffers" /\ BuffersNext /\ UNCHANGED <<part, vars, portVars>>
ConsoleStep     == part = "console" /\ PortNext /\ UNCHANGED <<part, vars, bufferVars>>

DeviceNext == LocalBusStep \/ DataBuffersStep \/ ConsoleStep

DeviceSpec == DeviceInit /\ [][DeviceNext]_deviceVars

\* The fairness of each component (see there).
DeviceFairness ==
  /\ WF_vars(part = "localbus" /\ MasterSend)
  /\ WF_vars(part = "localbus" /\ MasterTimeout)
  /\ WF_vars(part = "localbus" /\ UnitHandles)
  /\ WF_vars(part = "localbus" /\ \E ok \in BOOLEAN : ReceiveAnswer(ok))
  /\ WF_bufferVars(part = "databuffers" /\ \E t \in Sync : SimFill(t))
  /\ WF_bufferVars(part = "databuffers" /\ HandleRequestData)
  /\ WF_bufferVars(/\ part = "databuffers" /\ answer.kind = "data"
                   /\ DataAcknowledge(answer.packet))
  /\ WF_portVars(part = "console" /\ MainLoop)

FairDevice == DeviceSpec /\ DeviceFairness

-----------------------------------------------------------------------------
\* A complete line is executed as it was typed, unless other input follows it
\* first, and no line overruns the editor's buffer (Console).
LineExecuted == LineAsTyped /\ []EditorInBounds /\ (part = "console" => LineFetched)
=============================================================================
