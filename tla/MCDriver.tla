------------------------------- MODULE MCDriver -------------------------------
(* CifxDriver with small bounds for TLC. *)
EXTENDS CifxDriver

\* One card with interrupts and one without, in both orders, with the polling
\* thread; and two cards with interrupts without it.
MCConfig ==
  {[irq |-> <<TRUE, FALSE>>, poll |-> TRUE],
   [irq |-> <<FALSE, TRUE>>, poll |-> TRUE],
   [irq |-> <<TRUE, TRUE>>, poll |-> FALSE]}

===============================================================================
