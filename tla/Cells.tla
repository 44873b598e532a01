------------------------------- MODULE Cells -------------------------------
(***************************************************************************)
(* The combinational vocabulary of the technology mapper: the cells of the *)
(* library, the function of a one-row cover, the cover table of            *)
(* transferState and the pattern tests isAOI21, isAOI12 and isAOI22.       *)
(* A Boolean signal is a Bit, as it is in the code's cover states.         *)
(***************************************************************************)
EXTENDS Integers

Bit == {0, 1}

Truth(P) == IF P THEN 1 ELSE 0

\* a ^ inv
Flip(a, inv) == Truth(a # inv)

CellType == {"SAME", "INV", "NAND2", "NOR2", "AOI21", "AOI12", "AOI22",
             "ONE", "ZERO", "UNDEFINED"}

(***************************************************************************)
(* What a cell drives when its inputs carry a, b, c and d (those it does   *)
(* not have are ignored): the rows that travel prints for it.              *)
(***************************************************************************)
CellOut(cell, a, b, c, d) == Truth(
    \/ cell = "SAME"  /\ a = 1
    \/ cell = "INV"   /\ a = 0
    \/ cell = "NAND2" /\ ~(a = 1 /\ b = 1)
    \/ cell = "NOR2"  /\ a = 0 /\ b = 0
    \/ cell = "AOI21" /\ ~(a = 1 /\ b = 1) /\ c = 0
    \/ cell = "AOI12" /\ a = 0 /\ ~(b = 1 /\ c = 1)
    \/ cell = "AOI22" /\ ~(a = 1 /\ b = 1) /\ ~(c = 1 /\ d = 1)
    \/ cell = "ONE")

-----------------------------------------------------------------------------
(* A gate read from the netlist: one row "a b out" of a cover.             *)

Gate == [a : Bit, b : Bit, out : Bit]

\* ori_func: what a two-input gate computes.
GateOut(g, a, b) == Truth((a = g.a /\ b = g.b) <=> g.out = 1)

\* What a one-input gate computes.
UnaryOut(g, a) == Truth((a = g.a) <=> g.out = 1)

(***************************************************************************)
(* The switch of transferState.  The cover state packs a, b and out; an    *)
(* entry names the cell, which inputs it takes inverted, and whether an    *)
(* INV follows it.                                                         *)
(***************************************************************************)
CoverState(g, virt) == 4 * g.a + 2 * g.b + Flip(g.out, virt)

Cover(cell, ia, ib, head) == [cell |-> cell, ia |-> ia, ib |-> ib, head |-> head]

\* Mutant: the rows of !a & b and a & !b exchanged.
BaseCoverSwapped(state) ==
    CASE state = 1      -> Cover("NOR2",  0, 0, 0)
      [] state = 3      -> Cover("NOR2",  1, 0, 0)
      [] state = 5      -> Cover("NOR2",  0, 1, 0)
      [] state = 7      -> Cover("NAND2", 0, 0, 1)
      [] state = 0      -> Cover("NOR2",  0, 0, 1)
      [] state \in {2, 4, 6} -> Cover("NAND2", Truth(state = 2), Truth(state = 4), 0)

BaseCover(state) ==
    CASE state = 1 -> Cover("NOR2",  0, 0, 0)     \* !a & !b
      [] state = 3 -> Cover("NOR2",  0, 1, 0)     \* !a &  b
      [] state = 5 -> Cover("NOR2",  1, 0, 0)     \*  a & !b
      [] state = 7 -> Cover("NAND2", 0, 0, 1)     \*  a &  b
      [] state = 0 -> Cover("NOR2",  0, 0, 1)     \*  a |  b
      [] state = 2 -> Cover("NAND2", 1, 0, 0)     \*  a | !b
      [] state = 4 -> Cover("NAND2", 0, 1, 0)     \* !a |  b
      [] state = 6 -> Cover("NAND2", 0, 0, 0)     \* !a | !b

\* What the cover's one or two cells drive from the gate's inputs a and b.
CoverOut(c, a, b) == Flip(CellOut(c.cell, Flip(a, c.ia), Flip(b, c.ib), 0, 0), c.head)

-----------------------------------------------------------------------------
(* The inversions of the inputs (inv_in) under which p and the gate or     *)
(* gates it absorbs are one AOI cell; virt asks for p's complement.        *)

AOI21Inv(p, left, virt) ==
    {i \in Bit \X Bit \X Bit : \A a, b, c \in Bit :
        Flip(GateOut(p, GateOut(left, a, b), c), virt)
            = CellOut("AOI21", Flip(a, i[1]), Flip(b, i[2]), Flip(c, i[3]), 0)}

AOI12Inv(p, right, virt) ==
    {i \in Bit \X Bit \X Bit : \A a, b, c \in Bit :
        Flip(GateOut(p, a, GateOut(right, b, c)), virt)
            = CellOut("AOI12", Flip(a, i[1]), Flip(b, i[2]), Flip(c, i[3]), 0)}

AOI22Inv(p, left, right, virt) ==
    {i \in Bit \X Bit \X Bit \X Bit : \A a, b, c, d \in Bit :
        Flip(GateOut(p, GateOut(left, a, b), GateOut(right, c, d)), virt)
            = CellOut("AOI22", Flip(a, i[1]), Flip(b, i[2]), Flip(c, i[3]), Flip(d, i[4]))}

=============================================================================
