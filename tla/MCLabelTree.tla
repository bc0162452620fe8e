------------------------------ MODULE MCLabelTree ------------------------------
(***************************************************************************)
(* Source files for LabelTree: one with many labels, so that the tree gets *)
(* deep, and one with few labels and macros, and every traversal.          *)
(***************************************************************************)
EXTENDS LabelTreeProperties

MCUses ==
    {[labels |-> Labels, macros |-> {}, traversals |-> {"print"}],
     [labels |-> 1..3, macros |-> MacroLabels, traversals |-> {"print", "reset", "special"}]}

=============================================================================
