-------------------------------- MODULE MCIO --------------------------------
(* Small instances of CifxIO for TLC. *)
EXTENDS CifxIO

CONSTANTS t1, t2

MCSyncCh == [t \in {t1, t2} |-> IF t = t1 THEN 0 ELSE 1]

Modes(i, o) == [a \in {"in", "out"} |-> IF a = "in" THEN i ELSE o]
Does(S, T) == [t \in {t1, t2} |-> IF t = t1 THEN S ELSE T]
Case(e, dma, i, o, sync, slot, n, S, T) ==
  [irq |-> e, dma |-> dma, mode |-> Modes(i, o), sync |-> sync, slot |-> slot,
   changes |-> n, plan |-> Does(S, T)]

Hsk == {"NOT_EQUAL", "EQUAL"}
Notify == {"Register", "Unregister"}
Sync == {"Signal", "Ack", "Wait"}

MCScenario ==
  {Case(e, FALSE, m, "NONE", "OFF", "PD0_IN", 0, {"Read"}, {"Read"}) :
     e \in BOOLEAN, m \in Hsk}
  \cup {Case(e, FALSE, "NONE", m, "OFF", "PD0_IN", 0, {"Write"}, {"Write"}) :
     e \in BOOLEAN, m \in Hsk}
  \cup {Case(e, FALSE, m, o, "OFF", "PD0_IN", 0, {"PlcRead"}, {"PlcWrite"}) :
     e \in BOOLEAN, <<m, o>> \in {<<"EQUAL", "NOT_EQUAL">>, <<"NOT_EQUAL", "EQUAL">>}}
  \cup {Case(FALSE, dma, "NONE", "NONE", "OFF", "PD0_IN", 2, {"Read"},
             {"Write", "PlcWrite"}) : dma \in BOOLEAN}
  \cup {Case(e, FALSE, "NONE", "NONE", "DEV_CTRL", "PD0_IN", 0, {"Ack"},
             {"Ack", "Wait"}) : e \in BOOLEAN}
  \cup {Case(TRUE, FALSE, "NONE", "NONE", "HST_CTRL", "PD0_IN", 0, {"Signal"},
             {"Signal", "Ack"})}
  \cup {Case(FALSE, FALSE, "NONE", "NONE", "OFF", "PD0_IN", 0, Sync, Notify)}
  \cup {Case(TRUE, FALSE, m, "NONE", "OFF", "PD0_IN", 0, {"Read"}, Notify) : m \in Hsk}
  \cup {Case(TRUE, FALSE, "NONE", m, "OFF", "PD0_OUT", 0, {"Write"}, Notify) : m \in Hsk}
  \cup {Case(TRUE, FALSE, "NONE", "NONE", "OFF", "COM_STATE", 3, {}, Notify)}
  \cup {Case(TRUE, FALSE, "NONE", "NONE", m, "SYNC", 0, o, Notify) :
        <<m, o>> \in {<<"DEV_CTRL", {"Ack"}>>, <<"HST_CTRL", {"Signal"}>>}}
=============================================================================
