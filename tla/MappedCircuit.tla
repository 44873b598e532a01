--------------------------- MODULE MappedCircuit ---------------------------
(***************************************************************************)
(* What the technology mapper promises: given a circuit it prints, once,   *)
(* a circuit with the same inputs and the same outputs, each output a      *)
(* function of the inputs.  How the printed circuit is built, of which     *)
(* cells and with how many of them, is left open.                          *)
(***************************************************************************)
CONSTANTS Circuits,   \* the circuits that can be asked for
          Nothing     \* what has been printed before anything has

VARIABLES wanted, printed

mcvars == <<wanted, printed>>

MCInit == wanted \in Circuits /\ printed = Nothing

Deliver ==
    /\ printed = Nothing
    /\ printed' = wanted
    /\ UNCHANGED wanted

Safety == MCInit /\ [][Deliver]_mcvars

Promise == Safety /\ WF_mcvars(Deliver)

=============================================================================
